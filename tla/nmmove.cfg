\* One client creates a file and moves it into a folder.
SPECIFICATION Spec
CONSTANTS
    User = {o, b}
    Client = {o}
    File = {"f"}
    SSList <- MCSSList
    InitStored <- MCNoneStored
    Folder = {"/a"}
    Parent <- MCParent
    Nil = Nil
INVARIANT IndexedFilesServable
