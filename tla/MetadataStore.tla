---------------------------- MODULE MetadataStore ----------------------------
(***************************************************************************)
(* The name server's metadata store as its handlers use it (src/nm.c): the *)
(* file index (Trie) with the metadata cache (LRUCache) in front.  Each    *)
(* handler calls the two in a fixed pair: handle_create trie_insert then   *)
(* cache_put, handle_delete trie_delete then cache_remove, handle_access   *)
(* trie_update then cache_put; find_ss_for_file tries cache_get and on a   *)
(* miss trie_search and cache_put.  The two structures share no state, so  *)
(* a pair of calls is one step here.  Requests are served one at a time    *)
(* (NMMetadata has the concurrent handlers over an abstract store).        *)
(***************************************************************************)
EXTENDS Integers, Sequences, SequencesExt, FiniteSets

CONSTANTS Char, Wide, Name, Meta, Capacity, Hash, Nil

VARIABLES
    nodes, ends, meta, tret,                \* the index (Trie)
    table, order, size, spinning, out, last, \* the cache (LRUCache)
    fpc,    \* find_ss_for_file: "idle", or "fill" after a cache miss
    fname   \* the name find_ss_for_file is looking up

T == INSTANCE Trie
C == INSTANCE LRUCache WITH Key <- Name, Value <- Meta

tvars == <<nodes, ends, meta, tret>>
cvars == <<table, order, size, spinning, out, last>>
vars == <<tvars, cvars, fpc, fname>>

\* What a cache_get of n would answer.
Cached(n) == IF C!Found(n) THEN table[C!FoundSlot(n)].value ELSE Nil

Init == T!TInit /\ C!Init /\ fpc = "idle" /\ fname = Nil

\* handle_create after the SS created the file: the answer of trie_insert
\* is ignored and the metadata is cached either way.
StoreCreate(n, m) ==
    /\ fpc = "idle"
    /\ T!TrieInsert(n, m) /\ C!CachePut(n, m)
    /\ UNCHANGED <<fpc, fname>>

\* Mutant: handle_delete leaves out cache_remove.
StoreDeleteNoCache(n) ==
    /\ fpc = "idle"
    /\ T!TrieDelete(n) /\ UNCHANGED cvars
    /\ UNCHANGED <<fpc, fname>>

\* handle_delete after the SS deleted the file.
StoreDelete(n) ==
    /\ fpc = "idle"
    /\ T!TrieDelete(n) /\ C!CacheRemove(n)
    /\ UNCHANGED <<fpc, fname>>

\* handle_access for a file trie_search found: the ACL change is written
\* with trie_update and cached with cache_put.
StoreAccess(n, m) ==
    /\ fpc = "idle"
    /\ T!Lookup(n) # Nil
    /\ T!TrieUpdate(n, m) /\ C!CachePut(n, m)
    /\ UNCHANGED <<fpc, fname>>

\* find_ss_for_file: cache_get; a hit answers, a miss goes on to the index.
FindGet(n) ==
    /\ fpc = "idle"
    /\ C!CacheGet(n) /\ UNCHANGED tvars
    /\ IF out' = Nil THEN fpc' = "fill" /\ fname' = n
                     ELSE UNCHANGED <<fpc, fname>>

\* ... trie_search, and cache_put of what it found.
FindFill ==
    /\ fpc = "fill"
    /\ T!TrieSearch(fname)
    /\ IF T!Lookup(fname) # Nil THEN C!CachePut(fname, T!Lookup(fname))
                                ELSE UNCHANGED cvars
    /\ fpc' = "idle" /\ fname' = Nil

Next ==
    \/ \E n \in Name : \/ StoreDelete(n)
                       \/ FindGet(n)
                       \/ \E m \in Meta : StoreCreate(n, m) \/ StoreAccess(n, m)
    \/ FindFill

Spec == Init /\ [][Next]_vars

-----------------------------------------------------------------------------
(* The cache's fields keep their C types (LRUCache!TypeOK).               *)
CacheTypeOK == C!TypeOK

(* The cache's recency list, hash table and size describe the same nodes   *)
(* (LRUCache!NodesConsistent) under the NM's sequences of calls.           *)
NodesConsistent == C!NodesConsistent

(* The cache refines its contract (LRUCache!AbstractSpec) in the NM's use. *)
AbstractSpec == C!AbstractSpec

(* The index refines a map from names to metadata (Trie!AbstractTrie).    *)
AbstractTrie == T!AbstractTrie

(* Between requests the cache never answers for a name what the index does *)
(* not hold: after any sequence of creates, deletes, ACL changes and       *)
(* lookups, a cached entry is the index's current metadata.  Names with a  *)
(* byte >= 128 are outside it: trie_insert refuses them while handle_create *)
(* still caches them.                                                      *)
CacheAgreesWithIndex ==
    fpc = "idle" =>
        \A n \in Name : T!FirstWide(n) = 0 => Cached(n) \in {Nil, T!Lookup(n)}
=============================================================================
