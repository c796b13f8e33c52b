CONSTANTS
    a1 = a1  a2 = a2  a3 = a3
    o1 = o1  o2 = o2
    k1 = k1  k2 = k2
    i1 = i1  i2 = i2
    Attempt = {a1, a2, a3}
    Op = {o1}
    Key = {k1, k2}
    Instance = {i1, i2}
    KeyOf <- RetryKeys
    OpOf <- RetryOps
    HostOf <- RetryHosts
    AmountOf <- GatewayAmounts
    NoKey = NoKey  NoInstance = NoInstance  NoAttempt = NoAttempt  NoOp = NoOp
    MaxConcurrentOps = 1
    Limit = 2
    Amounts = {1}
    MaxWindow = 2
    MayCrash = {i1}
    MaxFaults = 1
    MaxLapses = 1
SPECIFICATION Spec
INVARIANTS
    TypeOK
    OneAdmissionPerKey
    SlotsWithinCeiling
    NoConcurrentExecution
    NothingLeft
PROPERTIES
    AdmittedKeysStayBound
    ImplementsKeyedAdmission
CHECK_DEADLOCK FALSE
