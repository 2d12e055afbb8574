\* Bookkeeping of cache.c under the worst hash (all keys collide), three
\* file names for two slots: lists, table and size must stay in step.
\* A call that spins under cache->lock (see cachefull) never returns and
\* leaves the cache with no further step; that hang is the only terminal state.
SPECIFICATION Spec
CONSTANTS
    Key = {"a", "b", "c"}
    Value = {v1, v2}
    Capacity = 2
    Hash <- MCHashCollide
    Nil = Nil
INVARIANT TypeOK
INVARIANT NodesConsistent
CHECK_DEADLOCK FALSE
