---------------------------- MODULE SSConnection ----------------------------
(***************************************************************************)
(* One client connection to a storage server, as framed by send_message   *)
(* and recv_message (src/common.c) and served by handle_client_request    *)
(* (src/ss.c).  A message is a 4-byte length (sizeof(int)) followed by    *)
(* its serialized text; the text never contains a NUL byte.               *)
(*                                                                         *)
(* The client (client.c) sends one request and blocks in recv_message     *)
(* with no timeout until the answer comes; only then does it send the     *)
(* next, or close the connection when its command is done.  The SS thread *)
(* has a 10 s SO_RCVTIMEO (ss.c:1134) and, when recv_message fails,       *)
(* continues its loop on the same socket (ss.c:1138).                     *)
(*                                                                         *)
(* The stream is a count of bytes: written by the client, delivered by    *)
(* TCP in any split, read by the SS thread.  Only the position of a read  *)
(* relative to the message boundaries matters, so bytes carry no value:   *)
(* a 4-byte window that is not a length header is text, and text read as  *)
(* an int is never a valid length (each byte is non-zero, so the value is *)
(* >= 2^24 or negative).  The request's content and its handler are       *)
(* other modules' business; an answer reaches the client whole.           *)
(***************************************************************************)
EXTENDS Naturals

CONSTANTS
    Hdr,      \* sizeof(int): the bytes of the length header
    Text,     \* the length of a request's serialized text
    MaxReq    \* requests the client sends on this connection

ASSUME Hdr = 4 /\ Text > 0 /\ MaxReq > 0

\* A length that recv_message accepts but that more bytes than the client
\* will ever send are needed to fill: the value of a header that is only
\* partly read, the rest of the int being whatever the stack held.
Garbage == MaxReq * (Hdr + Text) + 1

\* The bytes of one framed request.
Frame == Hdr + Text

VARIABLES
    cpc,      \* the client: "idle", "wait" (in recv_message) or "closed"
    sent,     \* requests the client has written
    arrived,  \* bytes TCP has delivered to the SS socket
    rd,       \* bytes the SS thread has read
    spc,      \* the SS thread: "len", "data" or "serve"
    need,     \* the length recv_message read, or 0 outside "data"
    got,      \* bytes of the text received so far
    answered  \* requests answered

vars == <<cpc, sent, arrived, rd, spc, need, got, answered>>

\* Bytes delivered to the socket and not yet read.
Avail == arrived - rd

\* The SS thread is at a message boundary.
Aligned == rd % Frame = 0

Init ==
    /\ cpc = "idle"
    /\ sent = 0
    /\ arrived = 0
    /\ rd = 0
    /\ spc = "len"
    /\ need = 0
    /\ got = 0
    /\ answered = 0

\* send_message: the length and the text are written to the socket; the
\* client's socket has no send timeout, so both sends complete.  Then the
\* client blocks in recv_message for the answer.
Request ==
    /\ cpc = "idle"
    /\ sent < MaxReq
    /\ sent' = sent + 1
    /\ cpc' = "wait"
    /\ UNCHANGED <<arrived, rd, spc, need, got, answered>>

\* The client's command is done: close(ss_sock).
Close ==
    /\ cpc = "idle"
    /\ cpc' = "closed"
    /\ UNCHANGED <<sent, arrived, rd, spc, need, got, answered>>

\* TCP delivers the next bytes of the stream, in segments of any size; the
\* header, written by one 4-byte send, arrives in one piece.
Deliver ==
    \E n \in arrived + 1 .. sent * Frame :
        /\ n % Frame \notin 1 .. Hdr - 1
        /\ arrived' = n
        /\ UNCHANGED <<cpc, sent, rd, spc, need, got, answered>>

\* recv(sock, &len, sizeof(int), MSG_WAITALL) with all 4 bytes there.  At
\* a boundary they are the header and len is the text's length, which
\* passes the check len < MAX_BUFFER * 2; anywhere else they are text, the
\* check fails and recv_message returns -1, and the loop continues.
RecvLen ==
    /\ spc = "len"
    /\ Avail >= Hdr
    /\ rd' = rd + Hdr
    /\ IF Aligned
       THEN spc' = "data" /\ need' = Text
       ELSE UNCHANGED <<spc, need>>
    /\ UNCHANGED <<cpc, sent, arrived, got, answered>>

\* The MSG_WAITALL recv of the length times out (or meets the end of the
\* stream) after 1 to 3 bytes: it returns their count, which passes the
\* check received <= 0, and len is those bytes over uninitialised stack.
\* The build may then reject it or accept a length no request fills.
ShortLen ==
    /\ spc = "len"
    /\ Avail \in 1 .. Hdr - 1
    /\ rd' = arrived
    /\ \/ UNCHANGED <<spc, need>>
       \/ spc' = "data" /\ need' = Garbage
    /\ UNCHANGED <<cpc, sent, arrived, got, answered>>

\* The loop around recv(sock, buffer + total_received, ...): each recv
\* returns the bytes delivered so far, up to len.  When the text is whole,
\* it is deserialized and handled.
RecvData ==
    /\ spc = "data"
    /\ Avail > 0
    /\ LET k == IF Avail < need - got THEN Avail ELSE need - got IN
         /\ rd' = rd + k
         /\ got' = got + k
         /\ IF got + k = need
            THEN spc' = "serve"
            ELSE UNCHANGED spc
    /\ UNCHANGED <<cpc, sent, arrived, need, answered>>

\* A recv of the text times out with nothing delivered for SOCKET_TIMEOUT:
\* recv_message returns -1, the bytes of the text read so far are
\* dropped, and the loop continues with the next recv_message.
DataTimeout ==
    /\ spc = "data"
    /\ Avail = 0
    /\ spc' = "len"
    /\ need' = 0
    /\ got' = 0
    /\ UNCHANGED <<cpc, sent, arrived, rd, answered>>

\* With nothing delivered, recv of the length times out (or returns 0
\* once the client closed): recv_message returns -1 having read nothing,
\* and the loop continues.  The thread never leaves its loop.
IdleTimeout ==
    /\ spc = "len"
    /\ Avail = 0
    /\ UNCHANGED vars

\* The request is handled and send_message answers it; the client's
\* recv_message returns.
Serve ==
    /\ spc = "serve"
    /\ cpc = "wait"
    /\ spc' = "len"
    /\ need' = 0
    /\ got' = 0
    /\ cpc' = "idle"
    /\ answered' = answered + 1
    /\ UNCHANGED <<sent, arrived, rd>>

Next ==
    \/ Request \/ Close \/ Deliver
    \/ RecvLen \/ ShortLen \/ RecvData \/ DataTimeout \/ IdleTimeout
    \/ Serve

\* TCP retransmits until the bytes arrive, and the SS thread is always
\* scheduled again; timeouts are possible, never due.  The client's own
\* requests and close are the user's choice.
Fairness ==
    /\ WF_vars(Deliver)
    /\ WF_vars(RecvLen)
    /\ WF_vars(RecvData)
    /\ WF_vars(Serve)

Spec == Init /\ [][Next]_vars /\ Fairness

-----------------------------------------------------------------------------
(* Properties.                                                             *)

TypeOK ==
    /\ cpc \in {"idle", "wait", "closed"}
    /\ sent \in 0..MaxReq
    /\ arrived \in 0..sent * Frame
    /\ rd \in 0..arrived
    /\ spc \in {"len", "data", "serve"}
    /\ need \in {0, Text, Garbage}
    /\ got \in 0..Garbage
    /\ answered \in 0..sent

\* A client blocked in recv_message for the answer to a request it has
\* written in full is answered: the SS thread's loop, which continues on
\* the same socket after every failed recv_message, reads that request.
RequestAnswered == cpc = "wait" ~> cpc # "wait"
=============================================================================
