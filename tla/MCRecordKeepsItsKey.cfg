CONSTANTS
    a1 = a1  a2 = a2  a3 = a3
    o1 = o1  o2 = o2
    k1 = k1  k2 = k2
    i1 = i1  i2 = i2
    Attempt = {a1, a2, a3}
    Op = {o1}
    Key = {k1, k2}
    Instance = {i1, i2}
    KeyOf <- SameKeys
    OpOf <- SameOps
    HostOf <- SameHosts
    AmountOf <- SameAmounts
    NoKey = NoKey  NoInstance = NoInstance  NoAttempt = NoAttempt  NoOp = NoOp
    MaxConcurrentOps = 2
    Limit = 3
    Amounts = {1, 2}
    MaxWindow = 2
    MayCrash = {}
    MaxFaults = 1
    MaxLapses = 0
SPECIFICATION Spec
PROPERTY
    RecordKeepsItsKey
CHECK_DEADLOCK FALSE
