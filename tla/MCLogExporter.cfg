CONSTANTS
    Capacity = 2
    MaxEmits = 5
SPECIFICATION ExporterFairSpec
INVARIANTS
    ExporterTypeOK
    Conserved
    FlushedIsDelivered
    EndedIsEmpty
PROPERTIES
    AcceptedIsDelivered
CHECK_DEADLOCK FALSE
