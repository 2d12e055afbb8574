\* A client of u1 reconnects while u2 may commit WRITEs that add sentences
\* and UNDO them: the re-LOCK may then be refused and the client gives up.
\* The session table has one slot, so a LOCK can also fail for want of a
\* session and must unlock again.  Checked under the fairness of Spec.
CONSTANTS
    u1 = u1
    u2 = u2
    User = {u1, u2}
    Conn <- MCConnThree
    Owner <- MCOwnerThree
    ReconnectOf <- MCReconnect
    InitDoc <- MCInitOne
    Contents <- MCSplit
    MaxIdx = 1
    MaxWord = 4
    MaxLocks = 2
    SessionCap = 1
    DiskFails = TRUE
    ReconnectFails = TRUE
    PastDelim = FALSE
    NoFile = NoFile
    None = None
SPECIFICATION Spec
INVARIANT SessionHoldsLock
