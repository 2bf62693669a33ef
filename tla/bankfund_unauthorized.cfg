SPECIFICATION FairSpec
CONSTANTS
    f1 = f1
    f2 = f2
    h1 = h1
    h2 = h2
    NoFund = NoFund
    Fund <- MCFund
    Handler <- MCHandler
    AmountOf <- MCAmountOf
    Bearer = FALSE
    Others = FALSE
    Usable <- MCFund
    MinAmount = 1
    MaxAmount = 3
    DailyLimit = 4
    MaxRepeats = 0
    MaxFaults = 0
PROPERTIES
    CompletionCreditsTheWallet
CHECK_DEADLOCK FALSE
