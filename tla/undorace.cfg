\* Three users, one connection each, on "A. B": two commit one WRITE each,
\* both commits are queued before one pass drains them, and the third
\* sends UNDO while the pass runs.
CONSTANTS
    u1 = u1
    u2 = u2
    u3 = u3
    User = {u1, u2, u3}
    Conn = {u1, u2, u3}
    Owner <- MCOwnerSelf
    ReconnectOf <- MCNoReconnect
    InitDoc <- MCInitTwo
    Contents <- MCPlain
    MaxIdx = 1
    MaxWord = 4
    MaxLocks = 2
    SessionCap = 2
    DiskFails = FALSE
    ReconnectFails = FALSE
    PastDelim = FALSE
    NoFile = NoFile
    None = None
SYMMETRY MCSymmetry
SPECIFICATION Spec
PROPERTY MainGainsOnlySessionText
