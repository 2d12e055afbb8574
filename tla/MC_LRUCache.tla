---------------------------- MODULE MC_LRUCache ----------------------------
(* Hash functions for the cache runs.  Key = {"a","b","c"}.                 *)
EXTENDS LRUCache

\* Every key hashes to slot 0: every probe walks the whole chain.
MCHashCollide == [k \in Key |-> 0]

\* No two keys share a home slot.
MCHashDistinct == ("a" :> 0) @@ ("b" :> 1) @@ ("c" :> 2)

\* "a" and "c" share slot 0, "b" has slot 1.
MCHashShared == ("a" :> 0) @@ ("b" :> 1) @@ ("c" :> 0)
=============================================================================
