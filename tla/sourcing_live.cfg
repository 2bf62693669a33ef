SPECIFICATION Spec
CONSTANTS
    Amounts = {1, 3, 5}
    Ledgers = {0, 1, 4}
    NAccts = 3
    AccountRows <- MCAccountRows
    LiveBalances = {0, 2}
INVARIANTS
    BalancesAreLive
CHECK_DEADLOCK FALSE
