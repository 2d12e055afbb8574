\* An ACL with room for one entry and two requesters.
SPECIFICATION Spec
CONSTANTS
    User = {"o", "b", "c"}
    File = {"f"}
    FileOwner <- MCOwner
    MaxReq = 2
    AclCap = 1
    Nil = Nil
INVARIANT ApprovalGrants
