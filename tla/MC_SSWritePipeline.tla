------------------------ MODULE MC_SSWritePipeline ------------------------
(* Model values and small definitions for checking SSWritePipeline.       *)
EXTENDS SSWritePipeline, TLC

\* "A. B": two sentences, the last without a delimiter, so no append slot.
MCInitTwo == <<1, Delim, Space, 2>>

\* "A.": one sentence ending in a delimiter, so LOCK 1 (append) is valid.
MCInitEnd == <<1, Delim>>

\* "A": one sentence without a delimiter.
MCInitOne == <<1>>

\* "A. B.": two complete sentences.
MCInitTwoEnd == <<1, Delim, Space, 2, Delim>>

\* WRITE content "w": one word.
MCPlain == {<<1>>}

\* WRITE content "w" or "w.v": one word, or a split of the sentence.
MCSplit == {<<1>>, <<1, Delim, 2>>}

\* One connection per user: a connection is named by its user.
MCOwnerSelf == [c \in Conn |-> c]

\* No client reconnects.
MCNoReconnect == [c \in Conn |-> None]

\* Connections of one user: c2 is the client's new connection after the
\* one it had, c1, failed (client.c handle_write retry).
MCConnTwo == {"c1", "c2"}
MCFirstUser == CHOOSE u \in User : TRUE
MCOwnerSame == [c \in Conn |-> MCFirstUser]
MCReconnect == [c \in Conn |-> IF c = "c2" THEN "c1" ELSE None]

\* The same, and a second user on c3.
MCConnThree == {"c1", "c2", "c3"}
MCOwnerThree == [c \in Conn |-> IF c = "c3" THEN CHOOSE u \in User : u # MCFirstUser
                                ELSE MCFirstUser]

\* Users are interchangeable; with Conn = User a permutation of users
\* permutes their connections alike.
MCSymmetry == Permutations(User)

====
