-------------------------------- MODULE Trie --------------------------------
(***************************************************************************)
(* The name server's file index (src/trie.c): a trie with one child slot   *)
(* per byte below ALPHABET_SIZE (128).  Every call holds trie->lock (a     *)
(* reader lock for trie_search, a writer lock for the others) from entry   *)
(* to return, so each call is one step.                                    *)
(*                                                                         *)
(* A node is named by the path of bytes from the root to it, which is what *)
(* identifies it in a trie.  `nodes` is the set of nodes reachable from    *)
(* the root, `ends` those with is_end_of_word set, `meta[p]` the           *)
(* file_meta of node p (Nil for NULL).  trie_get_all_files and the folder  *)
(* trie (the same node code on another root) are left out.                 *)
(***************************************************************************)
EXTENDS Integers, Sequences, SequencesExt, FiniteSets

CONSTANTS
    Char,   \* the bytes file names are made of
    Wide,   \* the bytes >= ALPHABET_SIZE
    Name,   \* the file names the NM is asked about
    Meta,   \* FileMetadata contents
    Nil

ASSUME Wide \subseteq Char /\ Name \subseteq Seq(Char) \ {<<>>}

VARIABLES
    nodes,  \* nodes reachable from trie->root (the root is <<>>)
    ends,   \* nodes with is_end_of_word = 1
    meta,   \* meta[p]: node p's file_meta
    tret    \* the answer of the latest call: 0, -1, a copy of metadata or Nil

tvars == <<nodes, ends, meta, tret>>

\* Every node a call on a name of Name can reach.
Path == UNION {Prefixes(n) : n \in Name}

\* The nodes that can exist: paths of bytes below ALPHABET_SIZE.
NodePath == {p \in Path : \A i \in DOMAIN p : p[i] \notin Wide}

\* The children of node p.
Children(p) == {q \in nodes : Len(q) = Len(p) + 1 /\ IsPrefix(p, q)}

\* Index of the first byte of n at or above ALPHABET_SIZE, 0 if none.
FirstWide(n) == SelectInSeq(n, LAMBDA c : c \in Wide)

\* What trie_search, trie_update and the delete walk find at the end of n.
Lookup(n) == IF n \in nodes /\ n \in ends THEN meta[n] ELSE Nil

TInit ==
    /\ nodes = {<<>>}
    /\ ends = {}
    /\ meta = [p \in Path |-> Nil]
    /\ tret = 0

\* The nodes trie_insert creates on its way down: every prefix up to the
\* first byte it rejects, which it leaves in place when it returns -1.
NewNodes(n) ==
    IF FirstWide(n) = 0 THEN Prefixes(n) ELSE Prefixes(SubSeq(n, 1, FirstWide(n) - 1))

TrieInsert(n, m) ==
    /\ nodes' = nodes \cup NewNodes(n)
    /\ IF FirstWide(n) = 0
       THEN /\ ends' = ends \cup {n}
            /\ meta' = [meta EXCEPT ![n] = m]
            /\ tret' = 0
       ELSE UNCHANGED <<ends, meta>> /\ tret' = -1

TrieSearch(n) ==
    /\ tret' = Lookup(n)
    /\ UNCHANGED <<nodes, ends, meta>>

TrieUpdate(n, m) ==
    /\ IF Lookup(n) # Nil
       THEN meta' = [meta EXCEPT ![n] = m] /\ tret' = 0
       ELSE meta' = meta /\ tret' = -1
    /\ UNCHANGED <<nodes, ends>>

\* Mutant: an ancestor is freed when it has no other child, even if it is
\* the end of another name.
RECURSIVE PruneIgnoreEnd(_, _)
PruneIgnoreEnd(p, n) ==
    IF p \notin nodes THEN [del |-> FALSE, gone |-> {}]
    ELSE IF Len(p) = Len(n) THEN [del |-> Children(p) = {}, gone |-> {}]
    ELSE LET c == n[Len(p) + 1]
             r == PruneIgnoreEnd(Append(p, c), n)
         IN
         IF c \in Wide THEN [del |-> FALSE, gone |-> {}]
         ELSE IF r.del
              THEN [del |-> Children(p) = {Append(p, c)},
                    gone |-> r.gone \cup {Append(p, c)}]
              ELSE [del |-> FALSE, gone |-> r.gone]

\* trie_delete_helper(p, n): whether the caller may free node p, and the
\* nodes freed below p.  A NULL node, or a byte outside the alphabet, stops
\* it.  At the end of the name it may free p if p has no children; higher up
\* it frees the child the recursion allowed, and then p may go if it ends no
\* name and has no other child.
RECURSIVE Prune(_, _)
Prune(p, n) ==
    IF p \notin nodes THEN [del |-> FALSE, gone |-> {}]
    ELSE IF Len(p) = Len(n) THEN [del |-> Children(p) = {}, gone |-> {}]
    ELSE LET c == n[Len(p) + 1]
             r == Prune(Append(p, c), n)
         IN
         IF c \in Wide THEN [del |-> FALSE, gone |-> {}]
         ELSE IF r.del
              THEN [del |-> p \notin ends /\ Children(p) = {Append(p, c)},
                    gone |-> r.gone \cup {Append(p, c)}]
              ELSE [del |-> FALSE, gone |-> r.gone]

\* trie_delete: clear the end mark and metadata of n if it is a node, and
\* free what the helper frees (never the root).
TrieDelete(n) ==
    /\ nodes' = nodes \ Prune(<<>>, n).gone
    /\ ends' = IF n \in nodes THEN ends \ {n} ELSE ends
    /\ meta' = IF n \in nodes THEN [meta EXCEPT ![n] = Nil] ELSE meta
    /\ tret' = 0

TNext ==
    \E n \in Name : \/ TrieSearch(n)
                    \/ TrieDelete(n)
                    \/ \E m \in Meta : TrieInsert(n, m) \/ TrieUpdate(n, m)

TSpec == TInit /\ [][TNext]_tvars

-----------------------------------------------------------------------------
Index == INSTANCE AbstractIndex WITH files <- [n \in Name |-> Lookup(n)], ret <- tret

(* The trie refines a map from names to metadata: whatever inserts,         *)
(* updates and deletes of names sharing prefixes came before, a search     *)
(* finds the latest metadata stored for exactly that name, deleting one    *)
(* name never loses another, and a name with a byte >= 128 is refused.     *)
AbstractTrie == Index!Spec
=============================================================================
