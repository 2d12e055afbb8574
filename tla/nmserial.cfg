\* One connected client: create, delete, grant, revoke, read, make folders
\* and move files, one after
\* another, over two new files and one the SS held at start, two storage servers.
SPECIFICATION Spec
CONSTANTS
    User = {o, b}
    Client = {o}
    File = {"f", "g", "h"}
    SSList <- MCSSList
    InitStored <- MCInitStored
    Folder = {"/a", "/a/b"}
    Parent <- MCParent
    Nil = Nil
INVARIANT TypeOK
INVARIANT TrieMatchesSS
