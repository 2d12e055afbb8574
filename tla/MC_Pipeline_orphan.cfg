\* A re-LOCK after a reconnect is refused because the sentence no longer
\* exists (u2 UNDOes the commit that made it); the client gives up.
CONSTANTS
    u1 = u1
    u2 = u2
    User = {u1, u2}
    Conn <- MCConnThree
    Owner <- MCOwnerThree
    ReconnectOf <- MCReconnect
    InitDoc <- MCInitOne
    Contents <- MCSplit
    MaxIdx = 1
    MaxWord = 4
    MaxLocks = 2
    SessionCap = 2
    DiskFails = FALSE
    ReconnectFails = FALSE
    PastDelim = FALSE
    NoFile = NoFile
    None = None
SPECIFICATION Spec
INVARIANT NoOrphanLock
