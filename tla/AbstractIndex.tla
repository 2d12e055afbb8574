---------------------------- MODULE AbstractIndex ----------------------------
(***************************************************************************)
(* What the file index of the name server (src/trie.h) promises: a map    *)
(* from file names to metadata.  trie_insert stores a name's metadata and  *)
(* answers 0, unless the name has a byte outside the index's alphabet,     *)
(* when it stores nothing and answers -1.  trie_search answers the stored  *)
(* metadata or NULL (Nil).  trie_update replaces the metadata of a stored  *)
(* name (0) and fails on any other (-1).  trie_delete forgets the name.    *)
(* `ret` is the answer of the latest call.                                 *)
(***************************************************************************)
EXTENDS Integers

CONSTANTS Name, Wide, Meta, Nil

VARIABLES files, ret

\* A name the index can hold: no byte outside the alphabet.
Storable(n) == \A i \in DOMAIN n : n[i] \notin Wide

Init == files = [n \in Name |-> Nil] /\ ret = 0

Insert(n, m) ==
    IF Storable(n) THEN files' = [files EXCEPT ![n] = m] /\ ret' = 0
                   ELSE files' = files /\ ret' = -1

Search(n) == files' = files /\ ret' = files[n]

Update(n, m) ==
    IF files[n] # Nil THEN files' = [files EXCEPT ![n] = m] /\ ret' = 0
                      ELSE files' = files /\ ret' = -1

Delete(n) == files' = [files EXCEPT ![n] = Nil] /\ ret' = 0

Next ==
    \E n \in Name : Search(n) \/ Delete(n) \/ \E m \in Meta : Insert(n, m) \/ Update(n, m)

Spec == Init /\ [][Next]_<<files, ret>>
=============================================================================
