\* A client of u1 whose WRITE times out reconnects and LOCKs its sentence again.
CONSTANTS
    u1 = u1
    u2 = u2
    User = {u1}
    Conn <- MCConnTwo
    Owner <- MCOwnerSame
    ReconnectOf <- MCReconnect
    InitDoc <- MCInitTwo
    Contents <- MCPlain
    MaxIdx = 1
    MaxWord = 4
    MaxLocks = 2
    SessionCap = 2
    DiskFails = FALSE
    ReconnectFails = FALSE
    PastDelim = FALSE
    NoFile = NoFile
    None = None
SPECIFICATION Spec
INVARIANT AckedWritesKept
