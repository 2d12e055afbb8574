\* The owner changes the ACL while another client reads or moves the file.
SPECIFICATION Spec
CONSTANTS
    User = {o, b}
    Client = {o, b}
    File = {"f"}
    SSList <- MCSSList
    InitStored <- MCNoneStored
    Folder = {}
    Parent <- MCParent
    Nil = Nil
INVARIANT AclAsSet
