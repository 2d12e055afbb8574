\* The document ends with a delimiter, so LOCK may name the append slot.
CONSTANTS
    u1 = u1
    u2 = u2
    User = {u1, u2}
    Conn = {u1, u2}
    Owner <- MCOwnerSelf
    ReconnectOf <- MCNoReconnect
    InitDoc <- MCInitEnd
    Contents <- MCPlain
    MaxIdx = 1
    MaxWord = 4
    MaxLocks = 2
    SessionCap = 2
    DiskFails = FALSE
    ReconnectFails = FALSE
    PastDelim = FALSE
    NoFile = NoFile
    None = None
SPECIFICATION Spec
INVARIANT AckedWritesKept
