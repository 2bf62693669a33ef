SPECIFICATION FairSpec
CONSTANTS
    c1 = c1
    c2 = c2
    Call = {k1, k2}
    Number = {n1, n2}
    NoNumber = NoNumber
    Charge <- MCCharge
    NoCharge = NoCharge
    Handler = {h1, h2}
    AmountOf <- MCAmountOf
    FeeOf <- MCFeeOf
    MaxRepeats = 2
    MaxFaults = 2
INVARIANTS
    TypeOK
    CreditedAtMostOnce
    ShownIsKnown
PROPERTIES
    ClaimsAreLedger
    DepositArrives
CHECK_DEADLOCK FALSE
