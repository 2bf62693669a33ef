SPECIFICATION KeyedSpec
CONSTANTS
    r1 = r1
    r2 = r2
    r3 = r3
    k1 = k1
    NoReq = NoReq
    NoKey = NoKey
    Req <- MCReq
    Key <- MCKey
    KeyOf <- MCKeyOf
    AmountOf <- MCAmountOf
    NBanks = 2
    Avail <- MCAvail
    InitialBalance = 3
    Deposits = {2}
    MaxDeposited = 8
INVARIANTS
    LedgerIsBalanceMinusHolds
CHECK_DEADLOCK FALSE
