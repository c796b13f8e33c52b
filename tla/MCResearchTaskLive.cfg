CONSTANTS
    o1 = o1  o2 = o2
    i1 = i1  i2 = i2
    c1 = c1  c2 = c2
    Op = {o2}
    Key = {k1}
    Instance = {i1, i2}
    NoKey = NoKey  NoInstance = NoInstance
    MaxConcurrentOps = 1
    Limit = 1
    Amounts = {1}
    MaxWindow = 1
    HostOf <- Hosts
    AmountOf <- Metering
    Canceller = {c1}
    TargetOf <- Targets
    ViaOf <- Vias
    Scanner = {i2}
    MayCrash = {i1}
    MayStop = {i1}
    MaxFaults = 0
    MaxLapses = 1
SPECIFICATION FairSpec
INVARIANTS
    ReapedOnlyAbandoned
PROPERTIES
    StoredResultStays
    EventuallyEnded
    EventuallyReleased
    CancelsAnswered
CHECK_DEADLOCK FALSE
