\* Two clients create the same name at once.
SPECIFICATION Spec
CONSTANTS
    User = {o, b}
    Client = {o, b}
    File = {"f"}
    SSList <- MCSSList
    InitStored <- MCNoneStored
    Folder = {}
    Parent <- MCParent
    Nil = Nil
INVARIANT TrieMatchesSS
