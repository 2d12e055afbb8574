\* Two file names share a home slot: removing one cuts the other's probe
\* chain, and a superseded value of it comes back.
\* A full table hangs (see cachefull); that terminal state is not the
\* question here.
SPECIFICATION Spec
CONSTANTS
    Key = {"a", "b", "c"}
    Value = {v1, v2}
    Capacity = 2
    Hash <- MCHashShared
    Nil = Nil
PROPERTY AbstractSpec
CHECK_DEADLOCK FALSE
