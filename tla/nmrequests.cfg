\* Three users, one file owned by o, a queue of three requests and
\* room in the ACL for both requesters: requests, views, approvals and denials interleave.
SPECIFICATION Spec
CONSTANTS
    User = {"o", "b", "c"}
    File = {"f"}
    FileOwner <- MCOwner
    MaxReq = 3
    AclCap = 2
    Nil = Nil
INVARIANT TypeOK
INVARIANT RequestsAccounted
