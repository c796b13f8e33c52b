CONSTANTS
    c1 = c1
    Client = {c1}
    MaxLen = 4
    GraceReads = 1
    MaxEvents = 1
    MaxRuns = 2
    MaxFaults = 1
SPECIFICATION FairSpec
INVARIANTS
    AnnouncedWasStored
    EachOnceInOrder
    ClosedIsComplete
PROPERTIES
    StreamsClose
CHECK_DEADLOCK FALSE
