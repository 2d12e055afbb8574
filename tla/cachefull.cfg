\* More file names than slots: a cache_put of a new name into a full table.
SPECIFICATION Spec
CONSTANTS
    Key = {"a", "b", "c"}
    Value = {v1, v2}
    Capacity = 2
    Hash <- MCHashShared
    Nil = Nil
INVARIANT NoSpin
