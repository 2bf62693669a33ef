SPECIFICATION FairSpec
CONSTANTS
    f1 = f1
    f2 = f2
    h1 = h1
    h2 = h2
    NoFund = NoFund
    Fund <- MCFund
    Handler <- MCHandler
    AmountOf <- MCAmountOf
    Bearer = TRUE
    Others = TRUE
    Usable <- MCFund
    MinAmount = 1
    MaxAmount = 3
    DailyLimit = 4
    MaxRepeats = 2
    MaxFaults = 2
INVARIANTS
    TypeOK
    StatusMatchesMoney
    SeparateDeliveriesCreditOnce
PROPERTIES
    CompletedIsFinal
    PaidIsCredited
CHECK_DEADLOCK FALSE
