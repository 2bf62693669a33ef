SPECIFICATION FairSpec
CONSTANTS
    Amounts = {1, 3, 5}
    Ledgers = {0, 1, 4}
    NAccts = 3
    AccountRows <- MCAccountRows
    LiveBalances = {0, 2}
INVARIANTS
    TypeOK
    AgreesWithReference
    PriorityRespected
PROPERTIES
    CallReturns
CHECK_DEADLOCK FALSE
