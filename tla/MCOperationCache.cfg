CONSTANTS
    o1 = o1  o2 = o2
    k1 = k1  k2 = k2  k3 = k3  NoKey = NoKey
    Op = {o1, o2}
    Key = {k1, k2, k3}
    CacheLimit = 1
    ReservationLimit = 2
    MaxConcurrentOps = 2
    Limit = 1
    Amounts = {1}
    MaxTasks = 5
SPECIFICATION Spec
SYMMETRY Symmetry
INVARIANTS
    NoDuplicateWork
    WorkIsKept
    RepeatedOnlyIfForgotten
PROPERTIES
    ImplementsBudget
CHECK_DEADLOCK FALSE
