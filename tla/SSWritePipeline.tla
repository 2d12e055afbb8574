-------------------------- MODULE SSWritePipeline --------------------------
(***************************************************************************)
(* The write path of one file on a storage server (src/ss.c,               *)
(* src/file_ops.c): sentence locks, write sessions with temp files, the    *)
(* per-file commit queue with its rebase merge, and the one-deep undo.     *)
(*                                                                         *)
(* Every client connection is served by its own SS thread                  *)
(* (handle_client_request).  A connection is an element of Conn and acts   *)
(* for the user Owner[c]; two connections of one user model a client that  *)
(* reconnected while its old thread still runs.                            *)
(*                                                                         *)
(* A file is the sequence of tokens parse_file finds in it: a word is a    *)
(* positive integer (each word ever written is distinct), Delim is one of  *)
(* '.', '!', '?', Space is a whitespace run.  Newline tokens are left out. *)
(***************************************************************************)
EXTENDS Integers, Sequences, SequencesExt, FiniteSets

CONSTANTS
    Conn,        \* client connections served by SS threads
    User,        \* user names
    Owner,       \* Owner[c]: the user connection c sends as (msg.sender)
    InitDoc,     \* token sequence of the main file at start
    Contents,    \* templates of WRITE content: tokens over {Delim, Space, 1, 2}
    MaxIdx,      \* largest sentence index a request may name
    MaxWord,     \* bound on the words ever written
    MaxLocks,    \* bound on the write sessions ever started
    PastDelim,   \* may a WRITE put a word after the delimiter ending a sentence
    ReconnectOf, \* ReconnectOf[c]: the connection c replaces when opened, or None
    SessionCap,  \* capacity of the write_sessions table (MAX_CLIENTS * 10)
    DiskFails,   \* may the drain's malloc of the merge or its fopen of main fail
    ReconnectFails, \* may all of a client's reconnection attempts fail
    NoFile,      \* a file that does not exist
    None         \* no holder

Delim == 0
Space == -1
IsWord(t) == t > 0

Idx == 0..MaxIdx

ASSUME DiskFails \in BOOLEAN /\ ReconnectFails \in BOOLEAN

VARIABLES
    main,      \* token sequence of the main file
    undo,      \* <file>.undo, or NoFile
    temp,      \* temp[u, i]: <file>.temp_<u>_<i>, or NoFile
    locks,     \* locks[i]: locked_by of sentence lock i, or None
    sessions,  \* the write_sessions table: set of [user, idx, orig, time]
    queue,     \* the commit queue: sequence of [user, idx, orig, time]
    qHolder,   \* the connection holding queue->mutex, or None
    pc,        \* pc[c]: where the thread of connection c is
    req,       \* req[c]: sentence index of the request c is serving
    clock,     \* lock_time source; strictly increasing
    nextWord,  \* the next fresh word
    mine,      \* ghost: mine[u, i]: words acknowledged to u in its hold of lock i
    done,      \* ghost: words whose UNLOCK was answered SUCCESS
    undone,    \* ghost: words an UNDO removed from main
    applied,   \* ghost: lock_time of each entry merged into main, in order
    link,      \* link[c]: "unopened", "open", "inflight" (closed by the client
               \* with one WRITE still on its way) or "closed"
    cphase,    \* cphase[c]: where the client on c is in handle_write:
               \* "free", "writing" (holds csent[c]) or "relock" (after a reconnect)
    csent,     \* csent[c]: the sentence the client on c is writing
    wbuf       \* main_fc after the merge of the head entry, built by the
               \* thread holding queue->mutex and not yet written back
               \* (text), and the words of the temp file it was merged
               \* from (adds, a ghost)

vars == <<main, undo, temp, locks, sessions, queue, qHolder, pc, req,
          clock, nextWord, mine, done, undone, applied, link, cphase, csent, wbuf>>

-----------------------------------------------------------------------------
(* Parsing and writing files (src/file_ops.c).                             *)

\* parse_file: one left-to-right scan; a delimiter ends the current sentence,
\* a trailing sentence with at least one token is kept and an empty last
\* sentence is dropped.
RECURSIVE Scan(_, _, _, _)
Scan(d, k, cur, acc) ==
    IF k > Len(d) THEN (IF cur = <<>> THEN acc ELSE Append(acc, cur))
    ELSE IF d[k] = Delim THEN Scan(d, k + 1, <<>>, Append(acc, Append(cur, Delim)))
    ELSE Scan(d, k + 1, Append(cur, d[k]), acc)

\* (Binding the argument with "x \in {d}" evaluates it once; the recursive
\* helpers then index a value instead of re-evaluating an expression.)
ParseFile(d) == CHOOSE r \in {Scan(x, 1, <<>>, <<>>) : x \in {d}} : TRUE

SentenceCount(d) == Len(ParseFile(d))

Words(d) == {d[k] : k \in {j \in 1..Len(d) : IsWord(d[j])}}

\* Whitespace characters next to each other in the file are one token.
RECURSIVE CollapseFrom(_, _)
CollapseFrom(d, k) ==
    IF k > Len(d) THEN <<>>
    ELSE IF k > 1 /\ d[k] = Space /\ d[k-1] = Space THEN CollapseFrom(d, k + 1)
    ELSE <<d[k]>> \o CollapseFrom(d, k + 1)

\* write_file_content: a space goes between two regular words of a sentence,
\* and between two sentences unless either side already has whitespace.
RECURSIVE TextFrom(_, _)
TextFrom(s, k) ==
    IF k > Len(s) THEN <<>>
    ELSE (IF k < Len(s) /\ IsWord(s[k]) /\ IsWord(s[k+1]) THEN <<s[k], Space>>
          ELSE <<s[k]>>)
         \o TextFrom(s, k + 1)

Gap(S, i) ==
    IF S[i] = <<>> \/ Last(S[i]) = Space THEN <<>>
    ELSE IF S[i+1] # <<>> /\ S[i+1][1] = Space THEN <<>>
    ELSE <<Space>>

RECURSIVE JoinFrom(_, _)
JoinFrom(S, i) ==
    IF i > Len(S) THEN <<>>
    ELSE TextFrom(S[i], 1) \o (IF i < Len(S) THEN Gap(S, i) ELSE <<>>)
         \o JoinFrom(S, i + 1)

WriteFileContent(S) ==
    CHOOSE r \in {CollapseFrom(JoinFrom(x, 1), 1) : x \in {S}} : TRUE

\* split_by_delimiters: WRITE content as tokens, a template with fresh words.
ContentParts(tpl, base) ==
    [k \in 1..Len(tpl) |-> IF IsWord(tpl[k]) THEN base + tpl[k] - 1 ELSE tpl[k]]

FreshWords(tpl) == Cardinality({tpl[k] : k \in {j \in 1..Len(tpl) : IsWord(tpl[j])}})

RealWordCount(s) == Len(SelectSeq(s, LAMBDA t : t # Space))

\* insert_word_in_sentence, followed by the writer: the in-memory sentences
\* (with the empty slots it allocates) and the count that write_file_content
\* walks.  Valid when 1 <= w <= real words + 1; sidx is checked by the caller.
InsertPos(s, w) ==
    IF w = 1 THEN 0
    ELSE IF w = RealWordCount(s) + 1 THEN Len(s)
    ELSE LET realAt == SelectSeq([k \in 1..Len(s) |-> k], LAMBDA k : s[k] # Space)
         IN  realAt[w - 1]

InsertValid(S, sidx, w) ==
    LET S0 == IF sidx = Len(S) THEN Append(S, <<>>) ELSE S
    IN  w >= 1 /\ w <= RealWordCount(S0[sidx + 1]) + 1

\* The word index is one past a delimiter that ends the target sentence.
EndsSentence(S, sidx, w) ==
    sidx < Len(S) /\ S[sidx + 1] # <<>> /\ Last(S[sidx + 1]) = Delim
    /\ w = RealWordCount(S[sidx + 1]) + 1

InsertWordInSentence(S, sidx, w, P) ==
    LET special == sidx = Len(S) /\ Len(S) = 1 /\ S[1] = <<>>
        S0      == IF sidx = Len(S) THEN Append(S, <<>>) ELSE S
        count0  == IF sidx = Len(S) /\ ~special THEN Len(S) + 1 ELSE Len(S)
        s       == S0[sidx + 1]
        a       == InsertPos(s, w)
        ld      == SelectLastInSeq(P, LAMBDA t : t = Delim)
        splits  == ld > 0 /\ ld < Len(P)
        ns      == (IF splits THEN 1 ELSE 0)
                     + Len(SelectSeq(P, LAMBDA t : t = Delim))
        Empties(n) == [k \in 1..n |-> <<>>]
        middle  == IF splits
                   THEN << SubSeq(s, 1, a) \o SubSeq(P, 1, ld),
                           SubSeq(P, ld + 1, Len(P)) \o SubSeq(s, a + 1, Len(s)) >>
                        \o Empties(ns - 1)
                   ELSE << SubSeq(s, 1, a) \o P \o SubSeq(s, a + 1, Len(s)) >>
                        \o Empties(ns)
        L       == SubSeq(S0, 1, sidx) \o middle \o SubSeq(S0, sidx + 2, Len(S0))
    IN  SubSeq(L, 1, count0 + ns)

\* write_file_ss: the temp file parsed, an unreadable or empty one taken as
\* one empty sentence.
TempSentences(t) ==
    IF t = NoFile \/ ParseFile(t) = <<>> THEN << <<>> >> ELSE ParseFile(t)

-----------------------------------------------------------------------------
(* The rebase merge of process_commit_queue (src/ss.c).                    *)

\* Mutant: the range check one short, dropping commits to the last sentence.
DiscardedLastToo(cur, e) ==
    LET adj == e.idx + cur - e.orig
    IN  ~(cur = 0 /\ e.orig = 0 /\ adj = 0) /\ (adj < 0 \/ adj >= cur - 1)

Discarded(cur, e) ==
    LET adj == e.idx + cur - e.orig
    IN  ~(cur = 0 /\ e.orig = 0 /\ adj = 0) /\ (adj < 0 \/ adj >= cur)

\* Mutant: the sentences after the replaced one copied from adj + 1, so the
\* old sentence is kept next to its new text.
MergeSentencesKeepOld(M, T, e) ==
    LET cur == Len(M)
        adj == e.idx + cur - e.orig
        mod == 1 + Len(T) - e.orig
        top == IF e.idx + mod < Len(T) THEN e.idx + mod ELSE Len(T)
    IN  IF cur = 0 THEN T
        ELSE SubSeq(M, 1, adj) \o SubSeq(T, e.idx + 1, top) \o SubSeq(M, adj + 1, cur)

\* Mutant: the sentences before the replaced one not copied.
MergeSentencesNoPrefix(M, T, e) ==
    LET cur == Len(M)
        adj == e.idx + cur - e.orig
        mod == 1 + Len(T) - e.orig
        top == IF e.idx + mod < Len(T) THEN e.idx + mod ELSE Len(T)
    IN  IF cur = 0 THEN T
        ELSE SubSeq(T, e.idx + 1, top) \o SubSeq(M, adj + 2, cur)

MergeSentences(M, T, e) ==
    LET cur == Len(M)
        adj == e.idx + cur - e.orig
        mod == 1 + Len(T) - e.orig
        top == IF e.idx + mod < Len(T) THEN e.idx + mod ELSE Len(T)
    IN  IF cur = 0 THEN T
        ELSE SubSeq(M, 1, adj) \o SubSeq(T, e.idx + 1, top) \o SubSeq(M, adj + 2, cur)

MergeEntry(m, t, e) ==
    CHOOSE r \in {WriteFileContent(MergeSentences(M, T, e)) :
                     M \in {ParseFile(m)}, T \in {ParseFile(t)}} : TRUE

-----------------------------------------------------------------------------

\* A thread takes a new request only from an open connection; the thread
\* of a closed one spins on the failing recv and serves nothing more.
Requesting(c) == pc[c] = "idle" /\ link[c] = "open"

\* No merged content is waiting to be written.
NoBuf == [text |-> <<>>, adds |-> {}]

SessionOf(u, i) == {s \in sessions : s.user = u /\ s.idx = i}

Init ==
    /\ main = InitDoc
    /\ undo = NoFile
    /\ temp = [p \in User \X Idx |-> NoFile]
    /\ locks = [i \in Idx |-> None]
    /\ sessions = {}
    /\ queue = <<>>
    /\ qHolder = None
    /\ pc = [c \in Conn |-> "idle"]
    /\ req = [c \in Conn |-> 0]
    /\ clock = 0
    /\ nextWord = IF Words(InitDoc) = {} THEN 1
                  ELSE 1 + CHOOSE x \in Words(InitDoc) : \A y \in Words(InitDoc) : y <= x
    /\ mine = [p \in User \X Idx |-> {}]
    /\ done = {}
    /\ undone = {}
    /\ applied = <<>>
    /\ link = [c \in Conn |-> IF ReconnectOf[c] = None THEN "open" ELSE "unopened"]
    /\ cphase = [c \in Conn |-> "free"]
    /\ csent = [c \in Conn |-> 0]
    /\ wbuf = NoBuf

-----------------------------------------------------------------------------
(* MSG_LOCK_SENTENCE.  The index check against the parsed main file; an  *)
(* invalid index is answered 400 and changes nothing on the server.  A     *)
(* client LOCKs from its prompt, or again after a reconnect; when that     *)
(* re-LOCK fails it gives the write up without an UNLOCK.                  *)
ValidSentence(i) ==
    LET S == ParseFile(main)
    IN  IF S = <<>> THEN i = 0
        ELSE i <= Len(S) /\ (i = Len(S) => Last(S[Len(S)]) = Delim)

LockValidate(c, i) ==
    /\ Requesting(c)
    /\ \/ cphase[c] = "free" /\ clock < MaxLocks
       \/ cphase[c] = "relock" /\ i = csent[c]
    /\ \/ /\ ValidSentence(i)
          /\ pc' = [pc EXCEPT ![c] = "lk_acquire"]
          /\ req' = [req EXCEPT ![c] = i]
          /\ UNCHANGED cphase
       \/ /\ ~ValidSentence(i)
          /\ cphase[c] = "relock"
          /\ cphase' = [cphase EXCEPT ![c] = "free"]
          /\ UNCHANGED <<pc, req, wbuf>>
    /\ UNCHANGED <<main, undo, temp, locks, sessions, queue, qHolder,
                   clock, nextWord, mine, done, undone, applied, link, csent, wbuf>>

\* Mutant: the lock not re-entrant: any held lock answers 423.
LockAcquireExclusive(c) ==
    LET u == Owner[c]
        i == req[c]
    IN
    /\ pc[c] = "lk_acquire"
    /\ IF locks[i] = None
       THEN /\ locks' = [locks EXCEPT ![i] = u]
            /\ pc' = [pc EXCEPT ![c] = "lk_session"]
            /\ mine' = IF locks[i] = None THEN [mine EXCEPT ![<<u, i>>] = {}]
                       ELSE mine
            /\ UNCHANGED cphase
       ELSE /\ pc' = [pc EXCEPT ![c] = "idle"]
            /\ cphase' = [cphase EXCEPT ![c] = "free"]
            /\ UNCHANGED <<locks, mine, wbuf>>
    /\ UNCHANGED <<main, undo, temp, sessions, queue, qHolder, req, clock,
                   nextWord, done, undone, applied, link, csent, wbuf>>

\* lock_sentence_ss: re-entrant for the same user, 423 for another.
LockAcquire(c) ==
    LET u == Owner[c]
        i == req[c]
    IN
    /\ pc[c] = "lk_acquire"
    /\ IF locks[i] \in {None, u}
       THEN /\ locks' = [locks EXCEPT ![i] = u]
            /\ pc' = [pc EXCEPT ![c] = "lk_session"]
            /\ mine' = IF locks[i] = None THEN [mine EXCEPT ![<<u, i>>] = {}]
                       ELSE mine
            /\ UNCHANGED cphase
       ELSE /\ pc' = [pc EXCEPT ![c] = "idle"]
            /\ cphase' = [cphase EXCEPT ![c] = "free"]
            /\ UNCHANGED <<locks, mine, wbuf>>
    /\ UNCHANGED <<main, undo, temp, sessions, queue, qHolder, req, clock,
                   nextWord, done, undone, applied, link, csent, wbuf>>

\* Mutant: a full session table answered without unlocking again.
SessionStartFailKeepLock(c) ==
    LET u == Owner[c]
        i == req[c]
        s == [user |-> u, idx |-> i, orig |-> SentenceCount(main), time |-> clock]
    IN
    /\ pc[c] = "lk_session"
    /\ IF SessionOf(u, i) # {} \/ Cardinality(sessions) < SessionCap
       THEN /\ sessions' = (sessions \ SessionOf(u, i)) \cup {s}
            /\ clock' = clock + 1
            /\ pc' = [pc EXCEPT ![c] = "lk_copy"]
            /\ UNCHANGED <<locks, cphase, wbuf>>
       ELSE /\ UNCHANGED locks
            /\ pc' = [pc EXCEPT ![c] = "idle"]
            /\ cphase' = [cphase EXCEPT ![c] = "free"]
            /\ UNCHANGED <<sessions, clock, wbuf>>
    /\ UNCHANGED <<main, undo, temp, queue, qHolder, req, nextWord, mine,
                   done, undone, applied, link, csent, wbuf>>

\* start_write_session_ss up to the copy: parse main for the original count,
\* get_write_session(create=1) finds or adds the session, lock_time := now.
\* A full table fails the session and the handler unlocks again.
SessionStart(c) ==
    LET u == Owner[c]
        i == req[c]
        s == [user |-> u, idx |-> i, orig |-> SentenceCount(main), time |-> clock]
    IN
    /\ pc[c] = "lk_session"
    /\ IF SessionOf(u, i) # {} \/ Cardinality(sessions) < SessionCap
       THEN /\ sessions' = (sessions \ SessionOf(u, i)) \cup {s}
            /\ clock' = clock + 1
            /\ pc' = [pc EXCEPT ![c] = "lk_copy"]
            /\ UNCHANGED <<locks, cphase, wbuf>>
       ELSE /\ locks' = [locks EXCEPT ![i] = IF @ = u THEN None ELSE @]
            /\ pc' = [pc EXCEPT ![c] = "idle"]
            /\ cphase' = [cphase EXCEPT ![c] = "free"]
            /\ UNCHANGED <<sessions, clock, wbuf>>
    /\ UNCHANGED <<main, undo, temp, queue, qHolder, req, nextWord, mine,
                   done, undone, applied, link, csent, wbuf>>

\* start_write_session_ss, the rest: main copied to the temp file.  The
\* SUCCESS reply puts the client into its write loop on this sentence.
SessionCopy(c) ==
    /\ pc[c] = "lk_copy"
    /\ temp' = [temp EXCEPT ![<<Owner[c], req[c]>>] = main]
    /\ pc' = [pc EXCEPT ![c] = "idle"]
    /\ cphase' = [cphase EXCEPT ![c] = "writing"]
    /\ csent' = [csent EXCEPT ![c] = req[c]]
    /\ UNCHANGED <<main, undo, locks, sessions, queue, qHolder, req, clock,
                   nextWord, mine, done, undone, applied, link, wbuf>>

\* MSG_WRITE, write_file_ss: needs the session of (sender, idx); parses the
\* temp file, inserts and writes the temp file back.  A bad index is
\* answered 400 and changes nothing.  The client sends WRITEs only for the
\* sentence it locked.  A WRITE still on its way when the client dropped
\* the connection (recv timed out) is served late and never acknowledged.
Write(c, i, w, tpl) ==
    LET u == Owner[c]
        S == TempSentences(temp[u, i])
        P == ContentParts(tpl, nextWord)
        late == link[c] = "inflight"
    IN
    /\ pc[c] = "idle"
    /\ link[c] \in {"open", "inflight"}
    /\ cphase[c] = "writing"
    /\ i = csent[c]
    /\ SessionOf(u, i) # {}
    /\ nextWord + FreshWords(tpl) <= MaxWord + 1
    /\ i <= Len(S)
    /\ InsertValid(S, i, w)
    /\ PastDelim \/ ~EndsSentence(S, i, w)
    /\ temp' = [temp EXCEPT ![<<u, i>>] =
                    WriteFileContent(InsertWordInSentence(S, i, w, P))]
    /\ nextWord' = nextWord + FreshWords(tpl)
    /\ mine' = IF late THEN mine ELSE [mine EXCEPT ![<<u, i>>] = @ \cup Words(P)]
    /\ link' = IF late THEN [link EXCEPT ![c] = "closed"] ELSE link
    /\ UNCHANGED <<main, undo, locks, sessions, queue, qHolder, pc, req,
                   clock, done, undone, applied, cphase, csent, wbuf>>

\* MSG_UNLOCK_SENTENCE, commit_write_session_ss: enqueue_commit appends the
\* session's entry under queue->mutex.  The client sends it after its last
\* WRITE (ETIRW) and leaves its write loop; it sends it only while it holds
\* a session, so the no-session SUCCESS path is never taken here.
CommitEnqueue(c, i) ==
    LET u == Owner[c] IN
    /\ Requesting(c)
    /\ cphase[c] = "writing"
    /\ i = csent[c]
    /\ cphase' = [cphase EXCEPT ![c] = "free"]
    /\ req' = [req EXCEPT ![c] = i]
    /\ SessionOf(u, i) # {}
    /\ qHolder = None
    /\ queue' = Append(queue, CHOOSE s \in SessionOf(u, i) : TRUE)
    /\ pc' = [pc EXCEPT ![c] = "cm_remove"]
    /\ UNCHANGED <<main, undo, temp, locks, sessions, qHolder, clock,
                   nextWord, mine, done, undone, applied, link, csent, wbuf>>

\* Mutant: the session record left in the table after enqueueing.
CommitRemoveKeepSession(c) ==
    /\ pc[c] = "cm_remove"
    /\ pc' = [pc EXCEPT ![c] = "cm_process"]
    /\ UNCHANGED <<sessions, main, undo, temp, locks, queue, qHolder, req, clock,
                   nextWord, mine, done, undone, applied, link, cphase, csent, wbuf>>

\* The session record is dropped; its temp file now belongs to the queue.
CommitRemove(c) ==
    /\ pc[c] = "cm_remove"
    /\ sessions' = sessions \ SessionOf(Owner[c], req[c])
    /\ pc' = [pc EXCEPT ![c] = "cm_process"]
    /\ UNCHANGED <<main, undo, temp, locks, queue, qHolder, req, clock,
                   nextWord, mine, done, undone, applied, link, cphase, csent, wbuf>>

\* process_commit_queue takes queue->mutex and, if there is work, backs the
\* main file up to <file>.undo.
ProcessAcquire(c) ==
    /\ pc[c] = "cm_process"
    /\ qHolder = None
    /\ qHolder' = c
    /\ undo' = IF queue # <<>> THEN main ELSE undo
    /\ pc' = [pc EXCEPT ![c] = "cm_drain"]
    /\ UNCHANGED <<main, temp, locks, sessions, queue, req, clock, nextWord,
                   mine, done, undone, applied, link, cphase, csent, wbuf>>

\* process_commit_queue gives up with return -1: the malloc of the merged
\* sentences failed (ss.c:224-230, 253-259), or fopen of main in
\* write_file_content did (ss.c:297-303), before anything was written.
\* queue->mutex is released with the head entry and its temp file still
\* queued; commit_write_session_ss ignores the result and goes on to unlock.
DrainFails(c) ==
    /\ qHolder' = None
    /\ pc' = [pc EXCEPT ![c] = "cm_unlock"]
    /\ wbuf' = NoBuf
    /\ UNCHANGED <<main, undo, temp, locks, sessions, queue, req, clock,
                   nextWord, mine, done, undone, applied, link, cphase, csent>>

\* One iteration of the loop, up to the merge: main and the head entry's
\* temp file are parsed into memory; an entry whose temp file cannot be
\* parsed or whose rebased index is out of range is discarded (temp file
\* unlinked, entry dequeued), otherwise the merged content is built in
\* main_fc.  Nothing about main is read again before it is written.
ProcessEntry(c) ==
    LET e   == Head(queue)
        t   == temp[e.user, e.idx]
        ok  == t # NoFile /\ ~Discarded(SentenceCount(main), e)
    IN
    /\ pc[c] = "cm_drain"
    /\ queue # <<>>
    /\ \/ /\ ok
          /\ wbuf' = [text |-> MergeEntry(main, t, e), adds |-> Words(t)]
          /\ pc' = [pc EXCEPT ![c] = "cm_write"]
          /\ UNCHANGED <<main, undo, temp, locks, sessions, queue, qHolder, req,
                         clock, nextWord, mine, done, undone, applied, link,
                         cphase, csent>>
       \/ /\ ok
          /\ DiskFails
          /\ DrainFails(c)
       \/ /\ ~ok
          /\ temp' = [temp EXCEPT ![<<e.user, e.idx>>] = NoFile]
          /\ queue' = Tail(queue)
          /\ UNCHANGED <<main, undo, locks, sessions, qHolder, pc, req, clock,
                         nextWord, mine, done, undone, applied, link, cphase,
                         csent, wbuf>>

\* ... write_file_content of main_fc over the main file, unlink of the temp
\* file and dequeue of the entry; the loop goes on.
ProcessWrite(c) ==
    LET e == Head(queue) IN
    /\ pc[c] = "cm_write"
    /\ \/ /\ main' = wbuf.text
          /\ applied' = Append(applied, e.time)
          /\ temp' = [temp EXCEPT ![<<e.user, e.idx>>] = NoFile]
          /\ queue' = Tail(queue)
          /\ pc' = [pc EXCEPT ![c] = "cm_drain"]
          /\ wbuf' = NoBuf
          /\ UNCHANGED <<undo, locks, sessions, qHolder, req, clock, nextWord,
                         mine, done, undone, link, cphase, csent>>
       \/ /\ DiskFails
          /\ DrainFails(c)

\* The queue is empty: the loop ends and queue->mutex is released.
ProcessRelease(c) ==
    /\ pc[c] = "cm_drain"
    /\ queue = <<>>
    /\ qHolder' = None
    /\ pc' = [pc EXCEPT ![c] = "cm_unlock"]
    /\ UNCHANGED <<main, undo, temp, locks, sessions, queue, req, clock,
                   nextWord, mine, done, undone, applied, link, cphase, csent, wbuf>>

\* Mutant: the lock freed only when the session wrote something.
CommitUnlockIfWritten(c) ==
    LET u == Owner[c]
        i == req[c]
    IN
    /\ pc[c] = "cm_unlock"
    /\ locks' = [locks EXCEPT ![i] = IF @ = u /\ mine[u, i] # {} THEN None ELSE @]
    /\ done' = IF locks[i] = u THEN done \cup mine[u, i] ELSE done
    /\ pc' = [pc EXCEPT ![c] = "idle"]
    /\ UNCHANGED <<main, undo, temp, sessions, queue, qHolder, req, clock,
                   nextWord, mine, undone, applied, link, cphase, csent, wbuf>>

\* unlock_sentence_ss after the commit: 403 when the lock is not the
\* sender's, else the lock is freed; the reply ends the request.
CommitUnlock(c) ==
    LET u == Owner[c]
        i == req[c]
    IN
    /\ pc[c] = "cm_unlock"
    /\ locks' = [locks EXCEPT ![i] = IF @ = u THEN None ELSE @]
    /\ done' = IF locks[i] = u THEN done \cup mine[u, i] ELSE done
    /\ pc' = [pc EXCEPT ![c] = "idle"]
    /\ UNCHANGED <<main, undo, temp, sessions, queue, qHolder, req, clock,
                   nextWord, mine, undone, applied, link, cphase, csent, wbuf>>

\* Mutant: CANCEL drops the session but not the sentence lock.
CancelKeepLock(c, i) ==
    LET u == Owner[c] IN
    /\ Requesting(c)
    /\ cphase[c] = "writing"
    /\ i = csent[c]
    /\ cphase' = [cphase EXCEPT ![c] = "free"]
    /\ sessions' = sessions \ SessionOf(u, i)
    /\ temp' = IF SessionOf(u, i) # {}
               THEN [temp EXCEPT ![<<u, i>>] = NoFile] ELSE temp
    /\ mine' = [mine EXCEPT ![<<u, i>>] = {}]
    /\ UNCHANGED <<main, undo, queue, qHolder, pc, req, clock, nextWord,
                   done, undone, applied, link, csent, locks, wbuf>>

\* MSG_CANCEL_WRITE: cancel_write_session_ss removes the session and its
\* temp file, then unlock_sentence_ss.  The client sends it from its write
\* loop when interrupted (perform_pending_unlock).
Cancel(c, i) ==
    LET u == Owner[c] IN
    /\ Requesting(c)
    /\ cphase[c] = "writing"
    /\ i = csent[c]
    /\ cphase' = [cphase EXCEPT ![c] = "free"]
    /\ sessions' = sessions \ SessionOf(u, i)
    /\ temp' = IF SessionOf(u, i) # {}
               THEN [temp EXCEPT ![<<u, i>>] = NoFile] ELSE temp
    /\ locks' = [locks EXCEPT ![i] = IF @ = u THEN None ELSE @]
    /\ mine' = [mine EXCEPT ![<<u, i>>] = {}]
    /\ UNCHANGED <<main, undo, queue, qHolder, pc, req, clock, nextWord,
                   done, undone, applied, link, csent, wbuf>>

\* MSG_UNDO: restore_from_undo copies <file>.undo over main and removes it;
\* without a backup the reply is 405.  It takes neither a sentence lock nor
\* queue->mutex.
Undo(c) ==
    /\ Requesting(c)
    /\ cphase[c] = "free"
    /\ \/ /\ undo # NoFile
          /\ main' = undo
          /\ undo' = NoFile
          /\ undone' = undone \cup (Words(main) \ Words(undo))
          /\ UNCHANGED <<temp, locks, sessions, queue, qHolder, pc, req,
                         clock, nextWord, mine, done, applied, link, cphase, csent, wbuf>>
       \/ /\ undo = NoFile
          /\ UNCHANGED vars

\* client.c handle_write: a WRITE whose send or recv fails makes the client
\* close the connection and retry, up to 5 times: ask the NM for the SS,
\* connect, LOCK the sentence again.  The client sets no receive timeout;
\* recv fails on a reset connection or with EINTR when SIGINT arrives (the
\* handler is installed without SA_RESTART, client.c:1535), so the WRITE
\* may still reach the old thread.  When every attempt fails (NM, connect
\* or the LOCK's send/recv), the client leaves the write with no SS
\* connection and sends no UNLOCK.
Reconnect(c) ==
    LET p == ReconnectOf[c] IN
    /\ link[c] = "unopened"
    /\ link[p] = "open"
    /\ pc[p] = "idle"
    /\ cphase[p] = "writing"
    /\ \E old \in {"closed", "inflight"} :
          \/ /\ link' = [link EXCEPT ![c] = "open", ![p] = old]
             /\ cphase' = [cphase EXCEPT ![c] = "relock"]
             /\ csent' = [csent EXCEPT ![c] = csent[p]]
          \/ /\ ReconnectFails
             /\ link' = [link EXCEPT ![p] = old]
             /\ cphase' = [cphase EXCEPT ![p] = "free"]
             /\ UNCHANGED csent
    /\ UNCHANGED <<main, undo, temp, locks, sessions, queue, qHolder, pc, req,
                   clock, nextWord, mine, done, undone, applied, wbuf>>

Next ==
    \E c \in Conn :
        \/ \E i \in Idx : LockValidate(c, i)
        \/ LockAcquire(c)
        \/ SessionStart(c)
        \/ SessionCopy(c)
        \/ \E i \in Idx, w \in 1..MaxWord + 1, tpl \in Contents : Write(c, i, w, tpl)
        \/ \E i \in Idx : CommitEnqueue(c, i)
        \/ CommitRemove(c)
        \/ ProcessAcquire(c)
        \/ ProcessEntry(c)
        \/ ProcessWrite(c)
        \/ ProcessRelease(c)
        \/ CommitUnlock(c)
        \/ \E i \in Idx : Cancel(c, i)
        \/ Undo(c)
        \/ Reconnect(c)

\* Every SS thread that is serving a request finishes it: the steps after
\* the request arrived are the thread's own and it is never descheduled
\* for good.  Requests themselves are the clients' choice.
Serving(c) ==
    \/ LockAcquire(c) \/ SessionStart(c) \/ SessionCopy(c)
    \/ CommitRemove(c) \/ ProcessAcquire(c) \/ ProcessEntry(c) \/ ProcessWrite(c)
    \/ ProcessRelease(c) \/ CommitUnlock(c)

Fairness == \A c \in Conn : WF_vars(Serving(c))

Spec == Init /\ [][Next]_vars /\ Fairness

-----------------------------------------------------------------------------
(* Properties.                                                             *)

Entry == [user : User, idx : Idx, orig : 0..MaxWord + 1,
          time : 0..MaxLocks + Cardinality(Conn)]

TypeOK ==
    /\ main \in Seq(Int)
    /\ undo \in Seq(Int) \cup {NoFile}
    /\ \A p \in User \X Idx : temp[p] \in Seq(Int) \cup {NoFile}
    /\ locks \in [Idx -> User \cup {None}]
    /\ sessions \subseteq Entry
    /\ queue \in Seq(Entry)
    /\ qHolder \in Conn \cup {None}
    /\ pc \in [Conn -> {"idle", "lk_acquire", "lk_session", "lk_copy",
                        "cm_remove", "cm_process", "cm_drain", "cm_write",
                        "cm_unlock"}]
    /\ req \in [Conn -> Idx]
    /\ clock \in 0..MaxLocks + Cardinality(Conn)
    /\ nextWord \in 1..MaxWord + 1
    /\ link \in [Conn -> {"unopened", "open", "inflight", "closed"}]
    /\ cphase \in [Conn -> {"free", "writing", "relock"}]
    /\ csent \in [Conn -> Idx]
    /\ wbuf \in [text : Seq(Int), adds : SUBSET Int]

\* The rebase merge of process_commit_queue never puts a word into the main
\* file twice: no commit copies a sentence that main already holds.
NoDuplicateText ==
    \A j, k \in 1..Len(main) : j # k /\ IsWord(main[j]) => main[j] # main[k]

\* A step of the SS only removes words from the main file when it is the
\* UNDO handler restoring <file>.undo: a commit merge keeps every sentence
\* of main outside the one it replaces.
NoTextLost ==
    [][ \/ Words(main) \subseteq Words(main')
        \/ main' = undo /\ undo' = NoFile ]_vars

\* Every word a client wrote in a write session whose UNLOCK the SS
\* answered with SUCCESS is in the main file, unless an UNDO took it out.
AckedWritesKept == done \subseteq Words(main) \cup undone

\* A held sentence lock always has someone who will release it: a client
\* of its user still writing (or re-locking) that sentence on an open
\* connection, or an SS thread of that user serving a request on it.  The
\* SS never frees a lock when a connection goes away (handle_client_request
\* keeps looping on a failed recv), so a lock without either is held forever.
NoOrphanLock ==
    \A i \in Idx : locks[i] # None =>
        \E c \in Conn :
            /\ Owner[c] = locks[i]
            /\ \/ link[c] = "open" /\ cphase[c] \in {"writing", "relock"} /\ csent[c] = i
               \/ pc[c] # "idle" /\ req[c] = i

\* process_commit_queue applies commits in the order of their lock_time
\* (spec: "ordered by lock_time").
CommitsInLockOrder ==
    \A j, k \in 1..Len(applied) : j < k => applied[j] < applied[k]

\* A write session and its sentence lock go together (spec, data model): a
\* session is only kept while its user holds the lock, and a held lock has
\* a session unless the holder's thread is between the two, in LOCK before
\* the session is made or in UNLOCK after the session was handed to the
\* queue.
Between(u, i) ==
    \E c \in Conn : Owner[c] = u /\ req[c] = i
                   /\ pc[c] \in {"lk_session", "cm_remove", "cm_process",
                                 "cm_drain", "cm_write", "cm_unlock"}

SessionHoldsLock ==
    \A u \in User, i \in Idx :
        /\ SessionOf(u, i) # {} => locks[i] = u
        /\ locks[i] = u => SessionOf(u, i) # {} \/ Between(u, i)

\* The words of every temp file on disk.
TempWords == UNION {Words(temp[p]) : p \in {q \in User \X Idx : temp[q] # NoFile}}

\* The main file only gains text that a write session wrote: every word a
\* step adds to main is in a temp file, or in the one the merge being
\* written back parsed.  UNDO (restore_from_undo) restores
\* a backup taken by process_commit_queue, so it only takes text out; a
\* merge adds the committed sentence to the main file it read.  An UNDO
\* that runs, without queue->mutex, between that read (ss.c:155) and the
\* write back (ss.c:289) is overwritten, and the text it removed returns.
MainGainsOnlySessionText ==
    [][Words(main') \ Words(main) \subseteq TempWords \cup wbuf.adds]_vars

\* The words of the temp files that queued commits will merge.
QueuedWords ==
    UNION {Words(temp[q.user, q.idx]) :
             q \in {e \in ToSet(queue) : temp[e.user, e.idx] # NoFile}}

\* A word whose UNLOCK was answered SUCCESS is never lost: it is in main,
\* was taken out by an UNDO, or still waits in a queued commit's temp file
\* (process_commit_queue gave up, ss.c:297, and a later commit of the file
\* will merge it).  The user's next LOCK of that sentence recreates the
\* same temp file from main (start_write_session_ss) under the queued entry.
AckedWritesNotLost == done \subseteq Words(main) \cup undone \cup QueuedWords
=============================================================================
