----------------------------- MODULE NMRegistry -----------------------------
(***************************************************************************)
(* The name server's registry of storage servers and its failure detector  *)
(* (src/nm.c: handle_ss_connection, handle_ss_heartbeat, heartbeat_monitor) *)
(* with the storage server's side of it (src/ss.c: main, connect_to_nm,    *)
(* scan_and_register_files, heartbeat_thread, handle_nm_communication).    *)
(*                                                                         *)
(* An SS process opens a command connection and a heartbeat connection to *)
(* the NM; the NM serves each with a thread of its own.  A connection is   *)
(* named <<s, g>>: SS id s in its g-th run (incarnation).  The NM keeps    *)
(* one slot per id in ss_list: reg (the slot exists), active, sock and     *)
(* hbs (the incarnation whose command / heartbeat socket the slot holds, 0 *)
(* for -1) and age (now - last_heartbeat).  Every access to the slots is   *)
(* under nm.ss_mutex, so each thread step below is atomic.                 *)
(*                                                                         *)
(* Time advances in steps of Unit seconds (Tick), after which the monitor  *)
(* runs once (it sleeps 5 s between scans).  The file list carried by      *)
(* REG_SS is NMMetadata's RegisterFile and is left out here.               *)
(***************************************************************************)
EXTENDS Integers, FiniteSets

CONSTANTS
    SSId,       \* storage server ids
    Runs,       \* Runs[s]: bound on the runs (starts) of SS s
    MaxSS,      \* MAX_SS, capacity of nm.ss_list
    Unit,       \* seconds per Tick; the monitor's sleep(5)
    Interval,   \* HEARTBEAT_INTERVAL (ss.c)
    Grace,      \* the literal 60 in heartbeat_monitor
    Timeout,    \* HEARTBEAT_TIMEOUT (nm.c)
    MaxBeats    \* bound on heartbeats in flight on one connection

Conn == UNION {{<<s, g>> : g \in 1..Runs[s]} : s \in SSId}
MaxAge == Grace + Unit      \* ages saturate here: every comparison is below it

VARIABLES
    ssPc,    \* ssPc[s]: "off", "starting" (registered, heartbeat thread not
             \* yet started), "run", "halted" (ss.running = 0, process alive)
    gen,     \* gen[s]: the current or last run of SS s
    since,   \* since[s]: seconds since SS s's heartbeat thread last sent
    reg,     \* reg[s]: ss_list has a slot with id s
    active,  \* active[s]: the slot's active flag
    sock,    \* sock[s]: whose command socket the slot holds
    hbs,     \* hbs[s]: whose heartbeat socket the slot holds, 0 for -1
    age,     \* age[s]: now - last_heartbeat of the slot
    cmdPc,   \* cmdPc[c]: NM command thread of c: "none", "recv", "loop", "done"
    hbPc,    \* hbPc[c]: NM heartbeat thread of c: "none", "init", "loop", "done"
    cmdOpen, \* cmdOpen[c]: the NM has not closed its end of c's command socket
    hbOpen,  \* hbOpen[c]: ... of c's heartbeat socket
    init,    \* init[c]: HB_INIT is in flight on c
    beats,   \* beats[c]: HEARTBEAT frames in flight on c
    reuse,   \* reuse[c]: which of c's sockets ("cmd", "hb") the NM accepted
             \* under the fd number of the slot's old command socket, after
             \* the old command thread closed it; "none" if neither did, and
             \* once c's REG_SS has been handled (the number is not used again)
    monDue   \* a Tick happened and the monitor has not scanned since

ssVars == <<ssPc, gen, since>>
slotVars == <<reg, active, sock, hbs, age>>
connVars == <<cmdPc, hbPc, cmdOpen, hbOpen, init, beats, reuse>>
vars == <<ssVars, slotVars, connVars, monDue>>

\* The SS process of connection c is still the one that opened it and is
\* running, so its end of c is open.
PeerUp(c) == gen[c[1]] = c[2] /\ ssPc[c[1]] # "off"

\* The current connection of SS s.
Cur(s) == <<s, gen[s]>>

\* The timeout heartbeat_monitor applies to a slot idle for `idle` seconds.
TimeoutFor(idle) == IF idle < Grace THEN Grace ELSE Timeout

NoSocket == <<>>

\* The socket, <<connection, "cmd" or "hb">>, that close(nm.ss_list[idx].sock)
\* closes when c re-registers a known id: the old command socket while the
\* NM still has it open, else whichever of c's sockets was accepted under
\* its number (reuse[c]), else none the model tracks.
OldCmdHolder(c) ==
    LET old == <<c[1], sock[c[1]]>> IN
    IF cmdOpen[old] THEN <<old, "cmd">>
    ELSE IF reuse[c] = "none" THEN NoSocket
    ELSE <<c, reuse[c]>>

\* The sockets handle_ss_connection closes on a REG_SS of a known id: the
\* slot's command socket number (nm.c:1414) and, when set, its hb_sock
\* (nm.c:1417).
Closed(c) ==
    LET s == c[1] IN
    IF ~reg[s] THEN {}
    ELSE {OldCmdHolder(c)} \cup (IF hbs[s] = 0 THEN {} ELSE {<<<<s, hbs[s]>>, "hb">>})

Init ==
    /\ ssPc = [s \in SSId |-> "off"]
    /\ gen = [s \in SSId |-> 0]
    /\ since = [s \in SSId |-> 0]
    /\ reg = [s \in SSId |-> FALSE]
    /\ active = [s \in SSId |-> FALSE]
    /\ sock = [s \in SSId |-> 0]
    /\ hbs = [s \in SSId |-> 0]
    /\ age = [s \in SSId |-> 0]
    /\ cmdPc = [c \in Conn |-> "none"]
    /\ hbPc = [c \in Conn |-> "none"]
    /\ cmdOpen = [c \in Conn |-> FALSE]
    /\ hbOpen = [c \in Conn |-> FALSE]
    /\ init = [c \in Conn |-> FALSE]
    /\ beats = [c \in Conn |-> 0]
    /\ reuse = [c \in Conn |-> "none"]
    /\ monDue = FALSE

-----------------------------------------------------------------------------
(* The storage server.                                                     *)

\* ss.c main: init_storage_server, connect_to_nm (command, then heartbeat
\* connection; the NM's listeners accept each and start its thread) and
\* scan_and_register_files, which sends REG_SS on the command connection.
\* accept gives a new socket the lowest free fd: once the old command
\* thread of this id closed its socket (nm.c:1514), that number is free and
\* either new socket may get it, or a socket the model does not track.
SSStart(s) ==
    /\ ssPc[s] = "off"
    /\ gen[s] < Runs[s]
    /\ LET c == <<s, gen[s] + 1>>
           freed == reg[s] /\ ~cmdOpen[<<s, sock[s]>>]
       IN
       /\ gen' = [gen EXCEPT ![s] = c[2]]
       /\ ssPc' = [ssPc EXCEPT ![s] = "starting"]
       /\ cmdPc' = [cmdPc EXCEPT ![c] = "recv"]
       /\ hbPc' = [hbPc EXCEPT ![c] = "init"]
       /\ cmdOpen' = [cmdOpen EXCEPT ![c] = TRUE]
       /\ hbOpen' = [hbOpen EXCEPT ![c] = TRUE]
       /\ \E r \in IF freed THEN {"none", "cmd", "hb"} ELSE {"none"} :
             reuse' = [reuse EXCEPT ![c] = r]
    /\ UNCHANGED <<since, slotVars, init, beats, monDue>>

\* heartbeat_thread's start: HB_INIT and a first HEARTBEAT, results unchecked.
\* Frames sent after the NM closed its end are lost.
SSHbStart(s) ==
    /\ ssPc[s] = "starting"
    /\ LET c == Cur(s) IN
       IF hbOpen[c]
       THEN init' = [init EXCEPT ![c] = TRUE] /\ beats' = [beats EXCEPT ![c] = 1]
       ELSE UNCHANGED <<init, beats>>
    /\ ssPc' = [ssPc EXCEPT ![s] = "run"]
    /\ since' = [since EXCEPT ![s] = 0]
    /\ UNCHANGED <<gen, slotVars, cmdPc, hbPc, cmdOpen, hbOpen, reuse, monDue>>

\* heartbeat_thread's loop after sleep(HEARTBEAT_INTERVAL): a send on a
\* connection the NM closed fails with EPIPE and sets ss.running = 0.
SSBeat(s) ==
    /\ ssPc[s] = "run"
    /\ since[s] >= Interval
    /\ LET c == Cur(s) IN
       IF hbOpen[c]
       THEN /\ beats[c] < MaxBeats
            /\ beats' = [beats EXCEPT ![c] = @ + 1]
            /\ since' = [since EXCEPT ![s] = 0]
            /\ UNCHANGED ssPc
       ELSE /\ ssPc' = [ssPc EXCEPT ![s] = "halted"]
            /\ UNCHANGED <<beats, since>>
    /\ UNCHANGED <<gen, slotVars, cmdPc, hbPc, cmdOpen, hbOpen, init, reuse, monDue>>

\* handle_nm_communication: recv on a command connection the NM closed
\* returns 0 and recv_message -1 with errno left from the last call.  If it
\* is not EAGAIN or EINTR the thread sets ss.running = 0; if it is (a 30 s
\* receive timeout happened before) the loop spins, which changes nothing.
SSCmdLost(s) ==
    /\ ssPc[s] = "run"
    /\ ~cmdOpen[Cur(s)]
    /\ ssPc' = [ssPc EXCEPT ![s] = "halted"]
    /\ UNCHANGED <<gen, since, slotVars, connVars, monDue>>

\* The process ends (crash, kill): the kernel closes its sockets.
SSExit(s) ==
    /\ ssPc[s] # "off"
    /\ ssPc' = [ssPc EXCEPT ![s] = "off"]
    /\ UNCHANGED <<gen, since, slotVars, connVars, monDue>>

-----------------------------------------------------------------------------
(* The name server.                                                        *)

\* Mutant: the capacity test is ss_count <= MAX_SS.
CmdRegisterOverfill(c) ==
    LET s == c[1] IN
    /\ cmdPc[c] = "recv"
    /\ reg[s] \/ Cardinality({t \in SSId : reg[t]}) <= MaxSS
    /\ cmdOpen' = [d \in Conn |-> cmdOpen[d] /\ <<d, "cmd">> \notin Closed(c)]
    /\ hbOpen' = [d \in Conn |-> hbOpen[d] /\ <<d, "hb">> \notin Closed(c)]
    /\ reg' = [reg EXCEPT ![s] = TRUE]
    /\ active' = [active EXCEPT ![s] = TRUE]
    /\ sock' = [sock EXCEPT ![s] = c[2]]
    /\ hbs' = [hbs EXCEPT ![s] = 0]
    /\ age' = [age EXCEPT ![s] = 0]
    /\ cmdPc' = [cmdPc EXCEPT ![c] = "loop"]
    /\ reuse' = [reuse EXCEPT ![c] = "none"]
    /\ UNCHANGED <<ssVars, hbPc, init, beats, monDue>>

\* handle_ss_connection receives REG_SS.  A known id reuses its slot after
\* setting active = 0 and closing the slot's old command and heartbeat
\* socket numbers; a new id takes a free slot.  Then sock, hb_sock = -1,
\* active = 1 and last_heartbeat = now, all under ss_mutex.
CmdRegister(c) ==
    LET s == c[1] IN
    /\ cmdPc[c] = "recv"
    /\ reg[s] \/ Cardinality({t \in SSId : reg[t]}) < MaxSS
    /\ cmdOpen' = [d \in Conn |-> cmdOpen[d] /\ <<d, "cmd">> \notin Closed(c)]
    /\ hbOpen' = [d \in Conn |-> hbOpen[d] /\ <<d, "hb">> \notin Closed(c)]
    /\ reg' = [reg EXCEPT ![s] = TRUE]
    /\ active' = [active EXCEPT ![s] = TRUE]
    /\ sock' = [sock EXCEPT ![s] = c[2]]
    /\ hbs' = [hbs EXCEPT ![s] = 0]
    /\ age' = [age EXCEPT ![s] = 0]
    /\ cmdPc' = [cmdPc EXCEPT ![c] = "loop"]
    /\ reuse' = [reuse EXCEPT ![c] = "none"]
    /\ UNCHANGED <<ssVars, hbPc, init, beats, monDue>>

\* A new id with ss_count >= MAX_SS: the connection is closed.
CmdRefuse(c) ==
    /\ cmdPc[c] = "recv"
    /\ ~reg[c[1]]
    /\ Cardinality({t \in SSId : reg[t]}) >= MaxSS
    /\ cmdOpen' = [cmdOpen EXCEPT ![c] = FALSE]
    /\ cmdPc' = [cmdPc EXCEPT ![c] = "done"]
    /\ UNCHANGED <<ssVars, slotVars, hbPc, hbOpen, init, beats, reuse, monDue>>

\* The command thread's poll every 3 s: once the slot with its SS's id is
\* inactive it closes its own socket and ends.  (If a re-registration
\* closed that number first, this second close hits whatever socket holds
\* the number by then; the model leaves that second close out.)
CmdExit(c) ==
    /\ cmdPc[c] = "loop"
    /\ ~active[c[1]]
    /\ cmdOpen' = [cmdOpen EXCEPT ![c] = FALSE]
    /\ cmdPc' = [cmdPc EXCEPT ![c] = "done"]
    /\ UNCHANGED <<ssVars, slotVars, hbPc, hbOpen, init, beats, reuse, monDue>>

\* handle_ss_heartbeat's first frame: the slot with that id, if any, records
\* this socket as hb_sock and sets last_heartbeat.
HbInit(c) ==
    LET s == c[1] IN
    /\ hbPc[c] = "init"
    /\ hbOpen[c] /\ init[c]
    /\ init' = [init EXCEPT ![c] = FALSE]
    /\ hbs' = IF reg[s] THEN [hbs EXCEPT ![s] = c[2]] ELSE hbs
    /\ age' = IF reg[s] THEN [age EXCEPT ![s] = 0] ELSE age
    /\ hbPc' = [hbPc EXCEPT ![c] = "loop"]
    /\ UNCHANGED <<ssVars, reg, active, sock, cmdPc, cmdOpen, hbOpen, beats, reuse, monDue>>

\* The first recv fails: the thread closes its socket and ends.
HbInitLost(c) ==
    /\ hbPc[c] = "init"
    /\ ~hbOpen[c] \/ (~PeerUp(c) /\ ~init[c])
    /\ hbOpen' = [hbOpen EXCEPT ![c] = FALSE]
    /\ hbPc' = [hbPc EXCEPT ![c] = "done"]
    /\ UNCHANGED <<ssVars, slotVars, cmdPc, cmdOpen, init, beats, reuse, monDue>>

\* A HEARTBEAT: the slot with that id gets last_heartbeat = now.
HbBeat(c) ==
    /\ hbPc[c] = "loop"
    /\ hbOpen[c] /\ beats[c] > 0
    /\ beats' = [beats EXCEPT ![c] = @ - 1]
    /\ age' = IF reg[c[1]] THEN [age EXCEPT ![c[1]] = 0] ELSE age
    /\ UNCHANGED <<ssVars, reg, active, sock, hbs, cmdPc, hbPc, cmdOpen, hbOpen,
                   init, reuse, monDue>>

\* recv fails (the NM closed the socket, or the SS's end is gone): the slot
\* with that id gets hb_sock = -1 and active = 0, whichever connection the
\* slot holds now; the thread closes its socket and ends.
HbLost(c) ==
    LET s == c[1] IN
    /\ hbPc[c] = "loop"
    /\ ~hbOpen[c] \/ (~PeerUp(c) /\ beats[c] = 0)
    /\ hbs' = [hbs EXCEPT ![s] = 0]
    /\ active' = [active EXCEPT ![s] = FALSE]
    /\ hbOpen' = [hbOpen EXCEPT ![c] = FALSE]
    /\ hbPc' = [hbPc EXCEPT ![c] = "done"]
    /\ UNCHANGED <<ssVars, reg, sock, age, cmdPc, cmdOpen, init, beats, reuse, monDue>>

\* Mutant: the monitor only checks slots that hold a heartbeat socket.
ExpiredWithHbOnly(s) == reg[s] /\ active[s] /\ hbs[s] # 0 /\ age[s] > TimeoutFor(age[s])

\* heartbeat_monitor's scan: an active slot idle longer than its timeout is
\* marked inactive and its heartbeat socket closed.
Expired(s) == reg[s] /\ active[s] /\ age[s] > TimeoutFor(age[s])

Monitor ==
    /\ monDue
    /\ monDue' = FALSE
    /\ active' = [s \in SSId |-> active[s] /\ ~Expired(s)]
    /\ hbs' = [s \in SSId |-> IF Expired(s) THEN 0 ELSE hbs[s]]
    /\ hbOpen' = [c \in Conn |-> hbOpen[c] /\ ~(Expired(c[1]) /\ hbs[c[1]] = c[2])]
    /\ UNCHANGED <<ssVars, reg, sock, age, cmdPc, hbPc, cmdOpen, init, beats, reuse>>

-----------------------------------------------------------------------------
(* Time.  A Tick is Unit seconds.  It waits for what the code does within  *)
(* well under 5 s when nothing is overloaded: REG_SS and HB_INIT handled,  *)
(* the SS's heartbeat thread started, a due heartbeat sent, frames in      *)
(* flight received.  This is the timing the failure detector relies on.   *)

Due ==
    \/ \E s \in SSId : ssPc[s] = "starting" \/ (ssPc[s] = "run" /\ since[s] >= Interval)
    \/ \E c \in Conn : \/ cmdPc[c] = "recv"
                       \/ hbPc[c] = "init" /\ init[c]
                       \/ hbPc[c] = "loop" /\ hbOpen[c] /\ beats[c] > 0

Tick ==
    /\ ~monDue /\ ~Due
    /\ age' = [s \in SSId |-> IF age[s] + Unit > MaxAge THEN MaxAge ELSE age[s] + Unit]
    /\ since' = [s \in SSId |-> IF since[s] + Unit > Interval THEN Interval ELSE since[s] + Unit]
    /\ monDue' = TRUE
    /\ UNCHANGED <<ssPc, gen, reg, active, sock, hbs, connVars>>

-----------------------------------------------------------------------------
NMStep ==
    \/ Monitor
    \/ \E c \in Conn : \/ CmdRegister(c) \/ CmdRefuse(c) \/ CmdExit(c)
                       \/ HbInit(c) \/ HbInitLost(c) \/ HbBeat(c) \/ HbLost(c)

SSStep ==
    \E s \in SSId : SSStart(s) \/ SSHbStart(s) \/ SSBeat(s) \/ SSCmdLost(s) \/ SSExit(s)

Next == NMStep \/ SSStep \/ Tick

\* Time passes, the monitor thread wakes, and every NM thread and the SS's
\* heartbeat thread take the steps they are blocked on once those are
\* enabled.  Starting, halting on a lost command socket (which depends on a
\* stale errno) and exiting are not obliged to happen.
Fairness ==
    /\ WF_vars(Tick)
    /\ WF_vars(Monitor)
    /\ \A c \in Conn : /\ WF_vars(CmdRegister(c)) /\ WF_vars(CmdRefuse(c))
                       /\ WF_vars(CmdExit(c)) /\ WF_vars(HbInit(c))
                       /\ WF_vars(HbInitLost(c)) /\ WF_vars(HbBeat(c))
                       /\ WF_vars(HbLost(c))
    /\ \A s \in SSId : WF_vars(SSHbStart(s)) /\ WF_vars(SSBeat(s))

Spec == Init /\ [][Next]_vars /\ Fairness

-----------------------------------------------------------------------------
(* Every variable has the type of the C data it models.                   *)
TypeOK ==
    /\ ssPc \in [SSId -> {"off", "starting", "run", "halted"}]
    /\ \A s \in SSId : gen[s] \in 0..Runs[s] /\ {sock[s], hbs[s]} \subseteq 0..Runs[s]
    /\ since \in [SSId -> 0..Interval]
    /\ reg \in [SSId -> BOOLEAN] /\ active \in [SSId -> BOOLEAN]
    /\ age \in [SSId -> 0..MaxAge]
    /\ Cardinality({s \in SSId : reg[s]}) <= MaxSS
    /\ cmdPc \in [Conn -> {"none", "recv", "loop", "done"}]
    /\ hbPc \in [Conn -> {"none", "init", "loop", "done"}]
    /\ cmdOpen \in [Conn -> BOOLEAN] /\ hbOpen \in [Conn -> BOOLEAN]
    /\ init \in [Conn -> BOOLEAN] /\ beats \in [Conn -> 0..MaxBeats]
    /\ reuse \in [Conn -> {"none", "cmd", "hb"}]
    /\ monDue \in BOOLEAN

(* An SS that is running, whose current registration the NM has taken,   *)
(* and whose heartbeats arrive on time is never marked inactive: neither  *)
(* the monitor, nor a heartbeat thread of an earlier run of the same SS,  *)
(* nor the re-registration takes a live SS out of service.                *)
NoFalseSuspicion ==
    \A s \in SSId : ssPc[s] = "run" /\ reg[s] /\ sock[s] = gen[s] => active[s]

(* A registered SS that stopped (its process gone, or ss.running = 0 with *)
(* the process still there) is eventually marked inactive, unless it is   *)
(* started again: heartbeat loss and the monitor's timeout detect it.     *)
DeadDetected ==
    \A s \in SSId : (reg[s] /\ active[s] /\ ssPc[s] \in {"off", "halted"})
                        ~> (~active[s] \/ ssPc[s] \in {"starting", "run"})

(* An active slot is served: the command socket it holds is open at the  *)
(* NM and a command thread polls it, so the requests handlers forward to  *)
(* that SS go to a connection somebody owns.  A re-registration that      *)
(* closes the slot's stale fd number, reused by its own new socket,       *)
(* breaks it.                                                             *)
ActiveSlotServed ==
    \A s \in SSId : active[s] => cmdOpen[<<s, sock[s]>>] /\ cmdPc[<<s, sock[s]>>] = "loop"
=============================================================================
