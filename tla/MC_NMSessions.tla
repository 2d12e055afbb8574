---------------------------- MODULE MC_NMSessions ----------------------------
(* Connections and their users for checking NMSessions.                    *)
EXTENDS NMSessions

\* Four users on four connections, and a second connection of u1 that
\* logs in while u1 is logged in or after it left.
MCConnFive == {"c1", "c2", "c3", "c4", "c5"}
MCOwnerFive == [c \in MCConnFive |->
                  CASE c = "c2" -> "u2" [] c = "c3" -> "u3" [] c = "c4" -> "u4"
                    [] OTHER -> "u1"]

\* One connection for each of three users.
MCConnThree == {"c1", "c2", "c3"}
MCOwnerThree == [c \in MCConnThree |-> CASE c = "c1" -> "u1" [] c = "c2" -> "u2" [] OTHER -> "u3"]
=============================================================================
