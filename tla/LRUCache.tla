------------------------------ MODULE LRUCache ------------------------------
(***************************************************************************)
(* The name server's metadata cache (src/cache.c).  It is a hash table of  *)
(* `capacity` slots with linear probing, plus a doubly linked recency list *)
(* (head = most recent).  Every call holds cache->lock from entry to       *)
(* return, so each call is one step.                                       *)
(*                                                                         *)
(* A node occupies one slot from its insertion until it is freed, so a     *)
(* node is named by its slot: table[s] is the node in slot s (or Nil), and *)
(* `order` is the recency list, head first.  A call that loops forever     *)
(* while holding the lock sets `spinning`; after that, no call can run,    *)
(* so the state is terminal.  cache_clear runs only inside free_cache at   *)
(* NM shutdown and is left out.                                            *)
(***************************************************************************)
EXTENDS Integers, Sequences, SequencesExt, FiniteSets

CONSTANTS
    Key,       \* file names
    Value,     \* FileMetadata contents
    Capacity,  \* cache->capacity (CACHE_SIZE)
    Hash,      \* Hash[k] = hash_string(k, capacity)
    Nil

VARIABLES
    table,     \* cache->hash_table
    order,     \* the list head->next ... tail->prev
    size,      \* cache->size
    spinning,  \* a call is looping forever under cache->lock
    out,       \* what the latest cache_get returned (Nil for NULL)
    last       \* history: the value of the latest cache_put of each key, Nil
               \* once cache_remove came after it

vars == <<table, order, size, spinning, out, last>>

Slot == 0..Capacity - 1

\* The slots a probe for k visits: the home slot, then (hash + 1) % capacity.
ProbeSeq(k) == [j \in 1..Capacity |-> (Hash[k] + j - 1) % Capacity]

\* Index in ProbeSeq(k) of the first slot that is empty or holds k (0 if none).
\* cache_get, cache_remove and the first loop of cache_put stop there.
FirstStop(k) == SelectInSeq(ProbeSeq(k), LAMBDA s : table[s] = Nil \/ table[s].key = k)

\* The probe finds a node for k, and the slot of that node.
Found(k) == FirstStop(k) # 0 /\ table[ProbeSeq(k)[FirstStop(k)]] # Nil
FoundSlot(k) == ProbeSeq(k)[FirstStop(k)]

\* Index of the first empty slot from the home slot (0 if the table is full).
FirstEmpty(k) == SelectInSeq(ProbeSeq(k), LAMBDA s : table[s] = Nil)

\* move_to_head and add_to_head on the recency list.
MoveToHead(s) == Cons(s, Remove(order, s))

Init ==
    /\ table = [s \in Slot |-> Nil]
    /\ order = <<>>
    /\ size = 0
    /\ spinning = FALSE
    /\ out = Nil
    /\ last = [k \in Key |-> Nil]

\* A probe that finds neither the key nor an empty slot loops forever.
Spin ==
    /\ spinning' = TRUE
    /\ UNCHANGED <<table, order, size, out, last>>

\* cache_get: a hit moves the node to the head and returns a copy.
CacheGet(k) ==
    /\ ~spinning
    /\ \/ FirstStop(k) = 0 /\ Spin
       \/ /\ FirstStop(k) # 0
          /\ out' = IF Found(k) THEN table[FoundSlot(k)].value ELSE Nil
          /\ order' = IF Found(k) THEN MoveToHead(FoundSlot(k)) ELSE order
          /\ UNCHANGED <<table, size, spinning, last>>

\* The second half of cache_put: create a node in the first empty slot from
\* the home slot (looping forever if there is none), add it to the head,
\* count it, and only then evict the tail if the count is over capacity.
PutNew(k, v) ==
    \/ FirstEmpty(k) = 0 /\ spinning' = TRUE /\ UNCHANGED <<table, order, size, out>>
    \/ /\ FirstEmpty(k) # 0
       /\ LET e == ProbeSeq(k)[FirstEmpty(k)]
              t1 == [table EXCEPT ![e] = [key |-> k, value |-> v]]
              o1 == Cons(e, order)
          IN IF size + 1 > Capacity
             THEN /\ table' = [t1 EXCEPT ![Last(o1)] = Nil]
                  /\ order' = Front(o1) /\ size' = size
             ELSE table' = t1 /\ order' = o1 /\ size' = size + 1
       /\ UNCHANGED <<spinning, out>>

\* cache_put: update and move to the head the node the first loop finds (it
\* gives up after a full circle); otherwise PutNew.
CachePut(k, v) ==
    /\ ~spinning
    /\ last' = [last EXCEPT ![k] = v]
    /\ \/ /\ Found(k)
          /\ table' = [table EXCEPT ![FoundSlot(k)].value = v]
          /\ order' = MoveToHead(FoundSlot(k))
          /\ UNCHANGED <<size, spinning, out>>
       \/ /\ ~Found(k)
          /\ PutNew(k, v)

\* Mutant: size is decremented after the loop, found or not.
CacheRemoveAlwaysCount(k) ==
    /\ ~spinning
    /\ \/ FirstStop(k) = 0 /\ Spin
       \/ /\ FirstStop(k) # 0
          /\ last' = [last EXCEPT ![k] = Nil]
          /\ table' = IF Found(k) THEN [table EXCEPT ![FoundSlot(k)] = Nil] ELSE table
          /\ order' = IF Found(k) THEN Remove(order, FoundSlot(k)) ELSE order
          /\ size' = size - 1
          /\ UNCHANGED <<spinning, out>>

\* Mutant: the node is freed but its size is not uncounted.
CacheRemoveKeepSize(k) ==
    /\ ~spinning
    /\ \/ FirstStop(k) = 0 /\ Spin
       \/ /\ FirstStop(k) # 0
          /\ last' = [last EXCEPT ![k] = Nil]
          /\ table' = IF Found(k) THEN [table EXCEPT ![FoundSlot(k)] = Nil] ELSE table
          /\ order' = IF Found(k) THEN Remove(order, FoundSlot(k)) ELSE order
          /\ UNCHANGED <<size, spinning, out>>

\* cache_remove: empty the slot where the probe found the key, unlink and
\* free the node.
CacheRemove(k) ==
    /\ ~spinning
    /\ \/ FirstStop(k) = 0 /\ Spin
       \/ /\ FirstStop(k) # 0
          /\ last' = [last EXCEPT ![k] = Nil]
          /\ table' = IF Found(k) THEN [table EXCEPT ![FoundSlot(k)] = Nil] ELSE table
          /\ order' = IF Found(k) THEN Remove(order, FoundSlot(k)) ELSE order
          /\ size' = IF Found(k) THEN size - 1 ELSE size
          /\ UNCHANGED <<spinning, out>>

Next ==
    \/ \E k \in Key : \/ CacheGet(k)
                      \/ CacheRemove(k)
                      \/ \E v \in Value : CachePut(k, v)

Spec == Init /\ [][Next]_vars

-----------------------------------------------------------------------------
Abstract == INSTANCE AbstractCache

(* Every variable has the type of the C field it models.                  *)
TypeOK ==
    /\ table \in [Slot -> [key : Key, value : Value] \cup {Nil}]
    /\ order \in Seq(Slot)
    /\ size \in 0..Capacity
    /\ spinning \in BOOLEAN
    /\ out \in Value \cup {Nil}
    /\ last \in [Key -> Value \cup {Nil}]

(* The recency list, the hash table and cache->size describe the same      *)
(* nodes after any sequence of cache_put, cache_get and cache_remove:      *)
(* every node is listed once, only nodes in the table are     *)
(* listed, and size counts them.  Eviction picks the list tail and then    *)
(* searches the table for it, and this depends on all three agreeing.      *)
NodesConsistent ==
    /\ IsInjective(order)
    /\ ToSet(order) = {s \in Slot : table[s] # Nil}
    /\ size = Len(order)

(* The cache refines its contract: a cache_get hit returns the value of    *)
(* the latest cache_put of that key, never a superseded value and never    *)
(* one of a key cache_remove deleted since, whatever the puts and removes  *)
(* of other keys did to the probe chains in between.                       *)
AbstractSpec == Abstract!Spec

(* No cache call loops forever while holding cache->lock.  Such a loop     *)
(* would block every NM thread that looks up or updates a file.            *)
NoSpin == ~spinning
=============================================================================
