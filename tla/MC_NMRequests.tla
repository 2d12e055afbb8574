--------------------------- MODULE MC_NMRequests ---------------------------
EXTENDS NMRequests

\* f is owned by o, g by b.
MCOwner == [f \in File |-> IF f = "f" THEN "o" ELSE "b"]
=============================================================================
