\* A WRITE may put its word just after the delimiter that ends the sentence.
CONSTANTS
    u1 = u1
    u2 = u2
    User = {u1, u2}
    Conn = {u1, u2}
    Owner <- MCOwnerSelf
    ReconnectOf <- MCNoReconnect
    InitDoc <- MCInitTwo
    Contents <- MCPlain
    MaxIdx = 1
    MaxWord = 4
    MaxLocks = 2
    SessionCap = 2
    DiskFails = FALSE
    ReconnectFails = FALSE
    PastDelim = TRUE
    NoFile = NoFile
    None = None
SPECIFICATION Spec
INVARIANT AckedWritesKept
