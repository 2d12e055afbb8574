---------------------------- MODULE AbstractCache ----------------------------
(***************************************************************************)
(* What the metadata cache promises its callers in nm.c                    *)
(* (find_ss_for_file and the handlers that call cache_put/cache_remove).   *)
(* A get may miss at any time, since a cache may forget.  When it answers  *)
(* with a value, that value is the last one put for the key, and no remove *)
(* of the key came after it.                                               *)
(*                                                                         *)
(* `last[k]` is the value of the latest put of k, or Nil if k was removed  *)
(* after it.  `out` is the answer of the latest get: a value, or Nil for a *)
(* miss.                                                                   *)
(***************************************************************************)
CONSTANTS Key, Value, Nil

VARIABLES last, out

Init == last = [k \in Key |-> Nil] /\ out = Nil

Get(k) ==
    /\ out' \in {Nil, last[k]}
    /\ last' = last

Put(k, v) ==
    /\ last' = [last EXCEPT ![k] = v]
    /\ out' = out

Remove(k) ==
    /\ last' = [last EXCEPT ![k] = Nil]
    /\ out' = out

Next ==
    \E k \in Key : Get(k) \/ Remove(k) \/ \E v \in Value : Put(k, v)

Spec == Init /\ [][Next]_<<last, out>>
=============================================================================
