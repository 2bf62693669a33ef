SPECIFICATION MCSpec
CONSTANTS
    Server = {1, 2}
    Address <- MCAddress
    Rate = 2
    Window = 2
    Horizon = 5
    r1 = r1
    r2 = r2
    Call <- MCCall
    KeyOf <- MCKeyOf
    u1 = u1
    u2 = u2
    u3 = u3
    h1 = h1
    h2 = h2
    Signup <- MCSignup
    PhoneOf <- MCPhoneOf
    Handler <- MCHandler
    MaxPINAttempts = 2
INVARIANTS
    ServerTypeOK
    RecordedIsApplied
    FreshDatabaseIsNotServed
    OneAllotmentPerPause
    CachedWasReported
    AccountsAreWhole
    SessionHasUser
    GuessesBounded
PROPERTIES
    PauseIsEnough
    AnsweredIsNotRepeated
    ServedEnds
    LockoutEnds
CHECK_DEADLOCK FALSE
