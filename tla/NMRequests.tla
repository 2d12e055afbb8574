----------------------------- MODULE NMRequests -----------------------------
(***************************************************************************)
(* The access-request queue of the name server (src/nm.c):                 *)
(* handle_requestaccess, handle_viewrequests, handle_approverequest and    *)
(* handle_denyrequest over nm.access_requests, guarded by request_mutex.   *)
(*                                                                         *)
(* A request names its position in the array.  VIEWREQUESTS shows each     *)
(* owner the requests for its files with their positions.  APPROVEREQUEST  *)
(* and DENYREQUEST take a position, and removing a request shifts the ones *)
(* after it down.  `view[u]` maps the ids u's client printed last to the   *)
(* requests they named then.                                               *)
(*                                                                         *)
(* Files are not created or deleted here (NMMetadata does that).  The ACL  *)
(* is a list of at most MAX_ACL_ENTRIES users, abstracted to a function    *)
(* from users to access levels.  Approval runs under request_mutex, and    *)
(* its trie read-modify-write is one step.                                 *)
(***************************************************************************)
EXTENDS Integers, Sequences, SequencesExt, FiniteSets

CONSTANTS
    User,       \* registered users, each with one client
    File,       \* existing files
    FileOwner,  \* FileOwner[f]: the owner in f's metadata
    MaxReq,     \* capacity of nm.access_requests (MAX_FILES * 10)
    AclCap,     \* MAX_ACL_ENTRIES
    Nil

\* The -R and -W flags of REQUESTACCESS send ACCESS_READ and ACCESS_READWRITE.
Level == {"R", "RW"}
Request == [user : User, file : File, acc : Level]

VARIABLES
    reqs,       \* nm.access_requests[0 .. request_count - 1]
    acl,        \* acl[f][v]: v's entry in f's ACL, or "none"
    pend,       \* pend[u]: the request u's NM thread has checked, about to queue
    view,       \* view[u]: the ids and requests u's client printed last
    acted,      \* history: the request u meant and the one its latest
                \* APPROVE/DENY removed
    open,       \* history: requests queued and not yet approved or denied
    lastGrant   \* history: the request the latest APPROVEREQUEST removed

vars == <<reqs, acl, pend, view, acted, open, lastGrant>>

\* Users with an entry in f's ACL (acl_count).
Entries(f) == {v \in User : acl[f][v] # "none"}

\* check_access for a requested level: READ is met by R or RW.  A request
\* for ACCESS_READWRITE matches neither branch and is met by ownership only.
CheckAccess(f, u, acc) ==
    \/ FileOwner[f] = u
    \/ acc = "R" /\ acl[f][u] \in {"R", "RW"}

Init ==
    /\ reqs = <<>>
    /\ acl = [f \in File |-> [v \in User |-> "none"]]
    /\ pend = [u \in User |-> Nil]
    /\ view = [u \in User |-> <<>>]
    /\ acted = [u \in User |-> Nil]
    /\ open = {}
    /\ lastGrant = Nil

\* handle_requestaccess up to request_mutex: the file exists (File) and the
\* sender lacks the access.  Otherwise it answers "You already have this
\* access", which changes nothing.
RequestCheck(u, f, acc) ==
    /\ pend[u] = Nil
    /\ ~CheckAccess(f, u, acc)
    /\ pend' = [pend EXCEPT ![u] = [user |-> u, file |-> f, acc |-> acc]]
    /\ UNCHANGED <<reqs, acl, view, acted, open, lastGrant>>

\* Mutant: the capacity test is request_count <= MAX_FILES * 10.
RequestQueueOverfill(u) ==
    /\ pend[u] # Nil
    /\ pend' = [pend EXCEPT ![u] = Nil]
    /\ IF pend[u] \notin ToSet(reqs) /\ Len(reqs) <= MaxReq
       THEN reqs' = Append(reqs, pend[u]) /\ open' = open \cup {pend[u]}
       ELSE UNCHANGED <<reqs, open>>
    /\ UNCHANGED <<acl, view, acted, lastGrant>>

\* Under request_mutex: an equal pending request, or a full array, ends it;
\* otherwise the request is appended.
RequestQueue(u) ==
    /\ pend[u] # Nil
    /\ pend' = [pend EXCEPT ![u] = Nil]
    /\ IF pend[u] \notin ToSet(reqs) /\ Len(reqs) < MaxReq
       THEN reqs' = Append(reqs, pend[u]) /\ open' = open \cup {pend[u]}
       ELSE UNCHANGED <<reqs, open>>
    /\ UNCHANGED <<acl, view, acted, lastGrant>>

\* handle_viewrequests: the sender is shown the pending requests for its
\* files, each with its position in the array.
ViewRequests(u) ==
    /\ pend[u] = Nil
    /\ view' = [view EXCEPT ![u] =
                  [i \in {j \in DOMAIN reqs : FileOwner[reqs[j].file] = u} |-> reqs[i]]]
    /\ UNCHANGED <<reqs, acl, pend, acted, open, lastGrant>>

\* Mutant: the loop moves entries but request_count is not decremented, so
\* the last entry appears twice.
RemoveReqNoCount(i) ==
    [j \in 1..Len(reqs) |-> IF j < Len(reqs) /\ j >= i THEN reqs[j + 1] ELSE reqs[j]]

\* The array after the loop that shifts entries i+1.. down and the decrement
\* of request_count.
RemoveReq(i) == RemoveAt(reqs, i)

\* An id the owner's client printed.
Shown(u, i) == i \in DOMAIN view[u]

\* The ACL after granting request r: update r.user's entry, or add one if
\* acl_count < MAX_ACL_ENTRIES; with a full ACL nothing is granted.
Granted(r) ==
    IF acl[r.file][r.user] # "none" \/ Cardinality(Entries(r.file)) < AclCap
    THEN [acl EXCEPT ![r.file][r.user] = r.acc]
    ELSE acl

\* handle_approverequest, all under request_mutex: a valid id whose file the
\* sender owns; grant, trie_update, cache_put, remove, answer SUCCESS.
ApproveRequest(u, i) ==
    /\ pend[u] = Nil
    /\ Shown(u, i)
    /\ i <= Len(reqs)
    /\ FileOwner[reqs[i].file] = u
    /\ acl' = Granted(reqs[i])
    /\ reqs' = RemoveReq(i)
    /\ open' = open \ {reqs[i]}
    /\ acted' = [acted EXCEPT ![u] = [meant |-> view[u][i], did |-> reqs[i]]]
    /\ lastGrant' = reqs[i]
    /\ UNCHANGED <<pend, view>>

\* handle_denyrequest: the same checks, then the request is removed.
DenyRequest(u, i) ==
    /\ pend[u] = Nil
    /\ Shown(u, i)
    /\ i <= Len(reqs)
    /\ FileOwner[reqs[i].file] = u
    /\ reqs' = RemoveReq(i)
    /\ open' = open \ {reqs[i]}
    /\ acted' = [acted EXCEPT ![u] = [meant |-> view[u][i], did |-> reqs[i]]]
    /\ UNCHANGED <<acl, pend, view, lastGrant>>

Next ==
    \/ \E u \in User, f \in File, acc \in Level : RequestCheck(u, f, acc)
    \/ \E u \in User : RequestQueue(u) \/ ViewRequests(u)
    \/ \E u \in User, i \in 1..MaxReq : ApproveRequest(u, i) \/ DenyRequest(u, i)

Spec == Init /\ [][Next]_vars

-----------------------------------------------------------------------------
(* Every variable has the type of the C data it models.                   *)
TypeOK ==
    /\ reqs \in Seq(Request) /\ Len(reqs) <= MaxReq
    /\ acl \in [File -> [User -> Level \cup {"none"}]]
    /\ pend \in [User -> Request \cup {Nil}]
    /\ \A u \in User : view[u] \in [DOMAIN view[u] -> Request]
    /\ \A u \in User : DOMAIN view[u] \subseteq 1..MaxReq
    /\ acted \in [User -> [meant : Request, did : Request] \cup {Nil}]
    /\ open \in SUBSET Request
    /\ lastGrant \in Request \cup {Nil}

(* The array holds each pending request exactly once, and exactly the      *)
(* requests queued and not yet approved or denied: interleaved queueing,   *)
(* approvals and denials never lose a request, duplicate one, or remove    *)
(* one that was not acted on.                                              *)
RequestsAccounted ==
    /\ IsInjective(reqs)
    /\ ToSet(reqs) = open

(* APPROVEREQUEST and DENYREQUEST act on the request the owner was shown   *)
(* under that id.                                                          *)
ActsOnShown == \A u \in User : acted[u] # Nil => acted[u].meant = acted[u].did

(* An approval that answered SUCCESS gave the requester the access it      *)
(* asked for.                                                              *)
ApprovalGrants == lastGrant # Nil => acl[lastGrant.file][lastGrant.user] = lastGrant.acc
=============================================================================
