\* One owner, two requesters: the owner approves from the list it viewed.
SPECIFICATION Spec
CONSTANTS
    User = {"o", "b", "c"}
    File = {"f"}
    FileOwner <- MCOwner
    MaxReq = 2
    AclCap = 2
    Nil = Nil
INVARIANT ActsOnShown
