SPECIFICATION Spec
CONSTANTS
    Guard <- MCGuard
    ProfileOf <- MCProfileOf
    MaximumOf <- MCMaximumOf
    SearchProfiles <- MCSearchProfiles
    Thread <- MCThread
    RunOf <- MCRunOf
    DenyAll = DenyAll
    NoBudget = NoBudget
    ThrowAway = ThrowAway
INVARIANTS
    StacksMatchGuards
    SearchesWithinMaximum
    OwnOrRefused
    BudgetStopIsTrue
CHECK_DEADLOCK FALSE
