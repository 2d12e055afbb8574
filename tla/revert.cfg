\* Two users write and commit on "A. B" while the NM thread may take
\* checkpoint t1 and REVERT to it; neither step waits for queue->mutex.
CONSTANTS
    u1 = u1
    u2 = u2
    User = {u1, u2}
    Conn = {u1, u2}
    Owner <- MCOwnerSelf
    ReconnectOf <- MCNoReconnect
    InitDoc <- MCInitTwo
    Contents <- MCPlain
    MaxIdx = 1
    MaxWord = 4
    MaxLocks = 3
    SessionCap = 2
    DiskFails = FALSE
    ReconnectFails = FALSE
    PastDelim = FALSE
    Tags = {t1}
    NoFile = NoFile
    None = None
SYMMETRY MCSymmetry
SPECIFICATION SpecCk
PROPERTY NoTextLostCk
