CONSTANTS
    t1 = t1  t2 = t2
    Task = {t1, t2}
    Slow = {t2}
    GracePeriod = 14
    FinalMargin = 3
    DrainBudget = 8
    IngestWait = 3
    StepWait = 1
    FlushWait = 2
    MaxSave = 1
    MaxUnsubscribe = 1
SPECIFICATION FairSpec
INVARIANTS
    WithinGrace
    CleanupCompletes
PROPERTIES
    SnapshotIsComplete
    ShutdownEnds
CHECK_DEADLOCK FALSE
