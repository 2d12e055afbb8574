\* WRITE content may contain a delimiter that splits the sentence.
CONSTANTS
    u1 = u1
    u2 = u2
    User = {u1, u2}
    Conn = {u1, u2}
    Owner <- MCOwnerSelf
    ReconnectOf <- MCNoReconnect
    InitDoc <- MCInitTwoEnd
    Contents <- MCSplit
    MaxIdx = 1
    MaxWord = 4
    MaxLocks = 2
    SessionCap = 2
    DiskFails = FALSE
    ReconnectFails = FALSE
    PastDelim = FALSE
    NoFile = NoFile
    None = None
SPECIFICATION Spec
PROPERTY NoTextLost
