\* Two users, one connection each, writing one word at a time into a
\* document of two sentences whose last has no delimiter.
CONSTANTS
    u1 = u1
    u2 = u2
    User = {u1, u2}
    Conn = {u1, u2}
    Owner <- MCOwnerSelf
    ReconnectOf <- MCNoReconnect
    InitDoc <- MCInitTwo
    Contents <- MCPlain
    MaxIdx = 1
    MaxWord = 4
    MaxLocks = 3
    SessionCap = 2
    DiskFails = TRUE
    ReconnectFails = FALSE
    PastDelim = FALSE
    NoFile = NoFile
    None = None
SYMMETRY MCSymmetry
SPECIFICATION Spec
INVARIANT AckedWritesNotLost
