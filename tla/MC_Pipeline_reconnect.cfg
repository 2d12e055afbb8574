\* A client of u1 whose WRITE times out reconnects (c1 then c2) and LOCKs
\* its sentence again, while u2 writes on c3.
CONSTANTS
    u1 = u1
    u2 = u2
    User = {u1, u2}
    Conn <- MCConnThree
    Owner <- MCOwnerThree
    ReconnectOf <- MCReconnect
    InitDoc <- MCInitTwo
    Contents <- MCPlain
    MaxIdx = 1
    MaxWord = 4
    MaxLocks = 2
    SessionCap = 2
    DiskFails = FALSE
    ReconnectFails = FALSE
    PastDelim = FALSE
    NoFile = NoFile
    None = None
SPECIFICATION Spec
INVARIANT SessionHoldsLock
INVARIANT NoOrphanLock
