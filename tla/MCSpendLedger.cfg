CONSTANTS
    Op = {o1, o2, o3}
    Limit = 3
    Amounts = {1, 2}
    MaxWindow = 3
SPECIFICATION LedgerSpec
INVARIANTS
    WithinLimit
    TotalIsHeld
PROPERTY
    ImplementsBudget
CHECK_DEADLOCK FALSE
