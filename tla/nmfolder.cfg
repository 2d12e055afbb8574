\* One client makes folder "/a/b" before "/a".
SPECIFICATION Spec
CONSTANTS
    User = {o, b}
    Client = {o}
    File = {"f"}
    SSList <- MCSSList
    InitStored <- MCNoneStored
    Folder = {"/a", "/a/b"}
    Parent <- MCParent
    Nil = Nil
INVARIANT FolderParentsExist
