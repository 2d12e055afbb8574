----------------------------- MODULE NMSessions -----------------------------
(***************************************************************************)
(* The name server's user registry and client list (src/nm.c): the login  *)
(* of a client connection (register_user_persistent, then a place in       *)
(* client_list under client_mutex) and its logout when the connection      *)
(* closes (the name read back from client_list[idx], the removal that      *)
(* shifts later entries down, then deregister_active_session).             *)
(*                                                                         *)
(* A connection is one TCP connection of a client to the NM, served by its *)
(* own thread; Owner[c] is the user it sends in REG_CLIENT.  A connection  *)
(* that closed and is opened again keeps its name, as a reused descriptor  *)
(* number would.  The order of registered_users does not matter (it is     *)
(* searched by name), so                                                   *)
(* it is a function of the user; client_list is positional, since the      *)
(* logout reads it by index.  Slots at or past client_count keep what was  *)
(* last written to them.  The requests served in between are other         *)
(* modules' business.                                                      *)
(***************************************************************************)
EXTENDS Integers, FiniteSets

CONSTANTS
    User,        \* user names
    Conn,        \* client connections to the NM
    Owner,       \* Owner[c]: the user connection c logs in as
    MaxClients,  \* MAX_CLIENTS, the length of client_list
    MaxUsers,    \* MAX_CLIENTS * 10, the length of registered_users
    None         \* no user, no connection

VARIABLES
    known,    \* users with a registered_users record
    active,   \* active[u]: active_session of u's record
    sock,     \* sock[u]: client_sock of u's record, or None
    clist,    \* clist[i]: client_list[i], a [user, sock] record, or None
    ccount,   \* client_count
    pc,       \* pc[c]: where the thread serving connection c is
    idx,      \* idx[c]: the slot of client_list it took at login
    uname     \* uname[c]: the name it read back from client_list[idx]

vars == <<known, active, sock, clist, ccount, pc, idx, uname>>

Slot == 0..MaxClients - 1

Init ==
    /\ known = {}
    /\ active = [u \in User |-> FALSE]
    /\ sock = [u \in User |-> None]
    /\ clist = [i \in Slot |-> None]
    /\ ccount = 0
    /\ pc = [c \in Conn |-> "new"]
    /\ idx = [c \in Conn |-> 0]
    /\ uname = [c \in Conn |-> None]

\* Mutant: the record of u ended whichever connection it names.
DeregisterByName(u, c) ==
    IF u \in known
    THEN /\ active' = [active EXCEPT ![u] = FALSE]
         /\ sock' = [sock EXCEPT ![u] = None]
    ELSE UNCHANGED <<active, sock>>

\* deregister_active_session(u, c): the record of u is ended only if it is
\* the record of connection c.
Deregister(u, c) ==
    IF u \in known /\ sock[u] = c
    THEN /\ active' = [active EXCEPT ![u] = FALSE]
         /\ sock' = [sock EXCEPT ![u] = None]
    ELSE UNCHANGED <<active, sock>>

\* REG_CLIENT and register_user_persistent under registered_users_mutex: an
\* active record makes the login a duplicate (405, connection closed); an
\* inactive one is taken over; a new user gets a record while there is
\* room, and is refused as a duplicate when the registry is full.
Register(c) ==
    LET u == Owner[c] IN
    /\ pc[c] = "new"
    /\ \/ /\ u \in known /\ active[u]
          /\ pc' = [pc EXCEPT ![c] = "done"]
          /\ UNCHANGED <<known, active, sock>>
       \/ /\ u \in known /\ ~active[u]
          /\ active' = [active EXCEPT ![u] = TRUE]
          /\ sock' = [sock EXCEPT ![u] = c]
          /\ pc' = [pc EXCEPT ![c] = "admit"]
          /\ UNCHANGED known
       \/ /\ u \notin known
          /\ IF Cardinality(known) < MaxUsers
             THEN /\ known' = known \cup {u}
                  /\ active' = [active EXCEPT ![u] = TRUE]
                  /\ sock' = [sock EXCEPT ![u] = c]
                  /\ pc' = [pc EXCEPT ![c] = "admit"]
             ELSE /\ pc' = [pc EXCEPT ![c] = "done"]
                  /\ UNCHANGED <<known, active, sock>>
    /\ UNCHANGED <<clist, ccount, idx, uname>>

\* Under client_mutex: a full client_list closes the connection after
\* deregister_active_session; otherwise the client takes slot client_count.
Admit(c) ==
    /\ pc[c] = "admit"
    /\ \/ /\ ccount >= MaxClients
          /\ Deregister(Owner[c], c)
          /\ pc' = [pc EXCEPT ![c] = "done"]
          /\ UNCHANGED <<known, clist, ccount, idx>>
       \/ /\ ccount < MaxClients
          /\ clist' = [clist EXCEPT ![ccount] = [user |-> Owner[c], sock |-> c]]
          /\ idx' = [idx EXCEPT ![c] = ccount]
          /\ ccount' = ccount + 1
          /\ pc' = [pc EXCEPT ![c] = "loop"]
          /\ UNCHANGED <<known, active, sock>>
    /\ UNCHANGED uname

\* recv_message fails: the client closed the connection.
Disconnect(c) ==
    /\ pc[c] = "loop"
    /\ pc' = [pc EXCEPT ![c] = "exit"]
    /\ UNCHANGED <<known, active, sock, clist, ccount, idx, uname>>

\* strcpy(username, nm.client_list[idx].username), outside client_mutex.
ExitReadName(c) ==
    /\ pc[c] = "exit"
    /\ uname' = [uname EXCEPT ![c] = IF clist[idx[c]] = None THEN None
                                      ELSE clist[idx[c]].user]
    /\ pc' = [pc EXCEPT ![c] = "remove"]
    /\ UNCHANGED <<known, active, sock, clist, ccount, idx>>

\* The position of connection c in the live part of client_list (-1 if none).
PosOf(c) ==
    IF \E i \in 0..ccount - 1 : clist[i] # None /\ clist[i].sock = c
    THEN CHOOSE i \in 0..ccount - 1 : clist[i] # None /\ clist[i].sock = c
            /\ \A j \in 0..i - 1 : clist[j] = None \/ clist[j].sock # c
    ELSE -1

\* Mutant: the shift starts one entry late and the removed one stays.
ShiftOutFromNext(p) ==
    [i \in Slot |-> IF i > p /\ i < ccount - 1 THEN clist[i + 1] ELSE clist[i]]

\* Shift the entries after position p down by one; the last slot keeps its
\* old content.
ShiftOut(p) ==
    [i \in Slot |-> IF i >= p /\ i < ccount - 1 THEN clist[i + 1] ELSE clist[i]]

\* Under client_mutex: the entry whose sock is c is removed and the ones
\* after it shifted down.
ExitRemove(c) ==
    /\ pc[c] = "remove"
    /\ IF PosOf(c) >= 0
       THEN clist' = ShiftOut(PosOf(c)) /\ ccount' = ccount - 1
       ELSE UNCHANGED <<clist, ccount>>
    /\ pc' = [pc EXCEPT ![c] = "dereg"]
    /\ UNCHANGED <<known, active, sock, idx, uname>>

\* deregister_active_session(username, client_sock), then close.
ExitDeregister(c) ==
    /\ pc[c] = "dereg"
    /\ Deregister(uname[c], c)
    /\ pc' = [pc EXCEPT ![c] = "done"]
    /\ UNCHANGED <<known, clist, ccount, idx, uname>>

\* The user starts the client again (client.c main, connect_to_nm) and its
\* new connection gets the closed one's descriptor.
Reconnect(c) ==
    /\ pc[c] = "done"
    /\ pc' = [pc EXCEPT ![c] = "new"]
    /\ UNCHANGED <<known, active, sock, clist, ccount, idx, uname>>

Next ==
    \E c \in Conn :
        \/ Register(c) \/ Admit(c) \/ Disconnect(c)
        \/ ExitReadName(c) \/ ExitRemove(c) \/ ExitDeregister(c)
        \/ Reconnect(c)

Spec == Init /\ [][Next]_vars

-----------------------------------------------------------------------------
(* Properties.                                                             *)

\* The states of a connection's thread from its accepted login to its close.
LoggedIn == {"admit", "loop", "exit", "remove", "dereg"}
Listed == {"loop", "exit", "remove"}

TypeOK ==
    /\ known \subseteq User /\ Cardinality(known) <= MaxUsers
    /\ active \in [User -> BOOLEAN]
    /\ sock \in [User -> Conn \cup {None}]
    /\ clist \in [Slot -> [user : User, sock : Conn] \cup {None}]
    /\ ccount \in 0..MaxClients
    /\ pc \in [Conn -> {"new", "done"} \cup LoggedIn]
    /\ idx \in [Conn -> Slot]
    /\ uname \in [Conn -> User \cup {None}]

\* At most one active session per user (spec, data model): two connections
\* of one user are never both logged in.  A logout ends the record only of
\* the connection it names, with whatever name it read back at the end.
OneSessionPerUser ==
    \A c, d \in Conn :
        c # d /\ Owner[c] = Owner[d] => ~(pc[c] \in LoggedIn /\ pc[d] \in LoggedIn)

\* The live part of client_list, after any logins and shifting removals,
\* lists each connection that has a place in it exactly once, under its
\* own user, and nothing else.
ListMatchesThreads ==
    /\ \A i \in 0..ccount - 1 : clist[i] # None /\ clist[i].user = Owner[clist[i].sock]
    /\ {clist[i].sock : i \in 0..ccount - 1} = {c \in Conn : pc[c] \in Listed}
    /\ ccount = Cardinality({c \in Conn : pc[c] \in Listed})

\* A user's record is active only while a thread of one of its connections
\* is still logged in: once the client disconnects and the thread ends,
\* the next REG_CLIENT of that user succeeds (spec, scenario "Duplicate
\* login").
ActiveHasThread ==
    \A u \in known : active[u] => sock[u] # None /\ pc[sock[u]] \in LoggedIn
=============================================================================
