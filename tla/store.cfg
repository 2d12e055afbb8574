\* The NM's create, delete, ACL change and lookup over the real index and
\* cache, one request at a time, on names sharing a prefix and one name the
\* index refuses; a cache slot for each name.  Names sharing a home slot
\* make cache_remove leave holes in a probe chain, which breaks the cache's
\* contract (cachestale.cfg) and so is kept out of this run.
SPECIFICATION Spec
CONSTANTS
    Char <- MCChar
    Wide <- MCWide
    Name <- MCName
    Meta = {m1, m2}
    Capacity = 4
    Hash <- MCHashOwn
    Nil = Nil
INVARIANT CacheTypeOK
INVARIANT NodesConsistent
PROPERTY AbstractTrie
INVARIANT CacheAgreesWithIndex
