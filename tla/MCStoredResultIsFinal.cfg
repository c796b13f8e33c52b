CONSTANTS
    o1 = o1  o2 = o2
    i1 = i1  i2 = i2
    c1 = c1  c2 = c2
    Op = {o1}
    Key = {k1}
    Instance = {i1, i2}
    NoKey = NoKey  NoInstance = NoInstance
    MaxConcurrentOps = 1
    Limit = 1
    Amounts = {1}
    MaxWindow = 1
    HostOf <- Hosts
    AmountOf <- Metering
    Canceller = {c1}
    TargetOf <- Targets
    ViaOf <- Vias
    Scanner = {i2}
    MayCrash = {}
    MayStop = {}
    MaxFaults = 0
    MaxLapses = 0
SPECIFICATION Spec
PROPERTIES
    StoredResultIsFinal
CHECK_DEADLOCK FALSE
