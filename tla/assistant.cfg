SPECIFICATION MCSpec
CONSTANTS
    a1 = a1
    a2 = a2
    t1 = t1
    h1 = h1
    h2 = h2
    m1 = m1
    m2 = m2
    m3 = m3
    Account <- MCAccount
    Unnumbered = "unnumbered"
    Priorities = {0, 5}
    MaxId = 2
    Talk <- MCTalk
    Plan <- MCPlan
    MaxRounds = 2
    MaxCalls = 2
    MaxPaid = 2
    Turn <- MCTurn
    Keep = 2
INVARIANTS
    AssistantTypeOK
    BalanceIsOwn
    UnlinkedIsGone
    SuccessWasPaid
    PaidOncePerKey
    ClearedStaysCleared
PROPERTIES
    MessageAnswered
CHECK_DEADLOCK FALSE
