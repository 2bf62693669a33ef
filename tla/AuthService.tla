---------------------------- MODULE AuthService ----------------------------
(***************************************************************************)
(* Registration and PIN entry of AuthService.  Register writes a user and  *)
(* a wallet in one transaction, whose deferred Commit runs whatever        *)
(* happened: the err it looks at is not the one the statements set.        *)
(* Login and VerifyPIN count the recent failures, compare, and record, in  *)
(* three steps other attempts may come between.                            *)
(***************************************************************************)
EXTENDS Naturals, FiniteSets

CONSTANTS
    Signup,         \* calls of Register; a user row is named by its call
    PhoneOf,        \* the phone number each gives
    Handler,        \* login and verify requests that may run at once
    MaxPINAttempts

ASSUME AuthAssumption ==
    /\ IsFiniteSet(Handler)
    /\ MaxPINAttempts \in Nat \ {0}

VARIABLES
    signup,     \* stage of a registration
    broken,     \* registrations whose transaction a failed statement aborted
    users,      \* committed rows of users
    wallets,    \* users with a committed row of wallets
    told,       \* what the caller of Register was answered
    lostCommit, \* history: registrations whose Commit failed
    entry,      \* stage of a PIN entry: [at, user, right]
    recent      \* failed attempts of a user within the lockout window

signupvars == <<signup, broken, users, wallets, told, lostCommit>>
pinvars == <<entry, recent>>
authvars == <<signupvars, pinvars>>

Idle == [at |-> "idle"]

AuthInit ==
    /\ signup = [r \in Signup |-> "start"]
    /\ broken = {}
    /\ users = {}
    /\ wallets = {}
    /\ told = [r \in Signup |-> "nothing"]
    /\ lostCommit = {}
    /\ entry = [h \in Handler |-> Idle]
    /\ recent = [r \in Signup |-> 0]

-----------------------------------------------------------------------------
(* Register *)

InTransaction == {"user", "wallet", "commit"}

Proceed(r, s) == signup' = [signup EXCEPT ![r] = s]

Tell(r, answer) == told' = [told EXCEPT ![r] = answer]

\* Committed row of the same phone number.
Taken(r) == \E u \in users : PhoneOf[u] = PhoneOf[r]

\* GetByPhone, GenerateFromPassword, Begin; each may fail.
CheckPhone(r) ==
    /\ signup[r] = "start"
    /\ \/ Taken(r) /\ Proceed(r, "end") /\ Tell(r, "duplicate")
       \/ ~Taken(r) /\ Proceed(r, "user") /\ UNCHANGED told
       \/ Proceed(r, "end") /\ Tell(r, "error")
    /\ UNCHANGED <<broken, users, wallets, lostCommit, pinvars>>

\* A failed statement ends in an error return, and the deferred functions.
StatementFails(r) ==
    /\ broken' = broken \cup {r}
    /\ Tell(r, "error")
    /\ Proceed(r, "commit")

\* The UNIQUE index lets an INSERT wait for the transaction that has
\* inserted the number before it.
PhoneFree(r) ==
    \A q \in Signup \ {r} :
        PhoneOf[q] = PhoneOf[r] => signup[q] \notin {"wallet", "commit"} \/ q \in broken

InsertUser(r) ==
    /\ signup[r] = "user"
    /\ PhoneFree(r)
    /\ \/ ~Taken(r) /\ Proceed(r, "wallet") /\ UNCHANGED <<broken, told>>
       \/ StatementFails(r)
    /\ UNCHANGED <<users, wallets, lostCommit, pinvars>>

\* Seeded fault: a failure to create the wallet is only logged.
InsertWalletLogged(r) ==
    /\ signup[r] = "wallet"
    /\ Proceed(r, "commit") /\ Tell(r, "session")
    /\ broken' \in {broken, broken \cup {r}}
    /\ UNCHANGED <<users, wallets, lostCommit, pinvars>>

\* The wallet is inserted, and the session is made without the database.
InsertWallet(r) ==
    /\ signup[r] = "wallet"
    /\ \/ Proceed(r, "commit") /\ Tell(r, "session") /\ UNCHANGED broken
       \/ Proceed(r, "commit") /\ Tell(r, "error") /\ UNCHANGED broken
       \/ StatementFails(r)
    /\ UNCHANGED <<users, wallets, lostCommit, pinvars>>

\* Seeded fault: what was inserted before the failed statement is kept.
CommitBroken(r) ==
    /\ signup[r] = "commit"
    /\ Proceed(r, "end")
    /\ users' = IF Taken(r) THEN users ELSE users \cup {r}
    /\ wallets' = IF r \in broken THEN wallets ELSE wallets \cup {r}
    /\ UNCHANGED <<broken, told, lostCommit, pinvars>>

\* The deferred Commit.  PostgreSQL answers the COMMIT of an aborted
\* transaction with a rollback.
Commit(r) ==
    /\ signup[r] = "commit"
    /\ Proceed(r, "end")
    /\ users' = IF r \in broken THEN users ELSE users \cup {r}
    /\ wallets' = IF r \in broken THEN wallets ELSE wallets \cup {r}
    /\ UNCHANGED <<broken, told, lostCommit, pinvars>>

\* Commit fails, or the process dies: nothing is stored, and what the caller
\* is told has been decided before.
CommitFails(r) ==
    /\ signup[r] = "commit"
    /\ Proceed(r, "end")
    /\ lostCommit' = lostCommit \cup {r}
    /\ UNCHANGED <<broken, users, wallets, told, pinvars>>

Register(r) ==
    CheckPhone(r) \/ InsertUser(r) \/ InsertWallet(r) \/ Commit(r) \/ CommitFails(r)

-----------------------------------------------------------------------------
(* Login and VerifyPIN *)

\* getIP answers "", for which RecentFailedPINAttemptsByIP counts nothing.
FailedByIP == 0

\* Seeded fault: the user's threshold is the one of the address.
LockedLate(u) == recent[u] >= MaxPINAttempts * 3

Locked(u) ==
    \/ recent[u] >= MaxPINAttempts
    \/ FailedByIP >= MaxPINAttempts * 3

\* Seeded fault: the attempt after the last one is allowed.
CountAttemptsOneMore(h, u, right) ==
    /\ entry[h] = Idle
    /\ u \in users
    /\ recent[u] <= MaxPINAttempts
    /\ entry' = [entry EXCEPT ![h] = [at |-> "compare", user |-> u, right |-> right]]
    /\ UNCHANGED <<signupvars, recent>>

\* The user is found and is not locked.
CountAttempts(h, u, right) ==
    /\ entry[h] = Idle
    /\ u \in users
    /\ ~Locked(u)
    /\ entry' = [entry EXCEPT ![h] = [at |-> "compare", user |-> u, right |-> right]]
    /\ UNCHANGED <<signupvars, recent>>

\* RecordPINAttempt; its error is dropped.  Then the handler is free again.
RecordFailure(h) ==
    /\ entry[h] # Idle
    /\ ~entry[h].right
    /\ recent' \in {recent, [recent EXCEPT ![entry[h].user] = @ + 1]}
    /\ entry' = [entry EXCEPT ![h] = Idle]
    /\ UNCHANGED signupvars

RecordSuccess(h) ==
    /\ entry[h] # Idle
    /\ entry[h].right
    /\ entry' = [entry EXCEPT ![h] = Idle]
    /\ UNCHANGED <<signupvars, recent>>

\* A failed attempt leaves the window of PINLockoutMins.
Age(u) ==
    /\ recent[u] > 0
    /\ recent' = [recent EXCEPT ![u] = @ - 1]
    /\ UNCHANGED <<signupvars, entry>>

EnterPIN(h) ==
    \/ \E u \in Signup, right \in BOOLEAN : CountAttempts(h, u, right)
    \/ RecordFailure(h)
    \/ RecordSuccess(h)

AuthNext ==
    \/ \E r \in Signup : Register(r) \/ Age(r)
    \/ \E h \in Handler : EnterPIN(h)

\* Time passes.
AuthFairness == \A u \in Signup : WF_authvars(Age(u))

AuthSpec == AuthInit /\ [][AuthNext]_authvars /\ AuthFairness

-----------------------------------------------------------------------------

SignupStages == {"start", "end"} \cup InTransaction

\* Types of the authentication service.
AuthTypeOK ==
    /\ signup \in [Signup -> SignupStages]
    /\ broken \subseteq Signup
    /\ users \subseteq Signup
    /\ wallets \subseteq Signup
    /\ told \in [Signup -> {"nothing", "session", "duplicate", "error"}]
    /\ lostCommit \subseteq Signup
    /\ entry \in [Handler -> {Idle} \cup
                        [at : {"compare"}, user : Signup, right : BOOLEAN]]
    /\ recent \in [Signup -> Nat]

\* Register, service/auth_service.go:75.  The transaction keeps user and wallet
\* together although its Rollback never runs: the deferred Commit of a
\* transaction with a failed statement stores nothing.  And registrations that
\* found the same number free at the same time are not both stored.
AccountsAreWhole ==
    /\ users = wallets
    /\ \A r, q \in users : PhoneOf[r] = PhoneOf[q] => r = q

\* Register, service/auth_service.go:90.  Whoever was given a session has an
\* account, with one exception: the result is not a named one, so an error of
\* Commit is lost and the session is returned for a user nobody stored.
SessionHasUser ==
    \A r \in Signup :
        told[r] = "session" /\ signup[r] = "end" => r \in users \cup lostCommit

Guessing(u) == {h \in Handler : entry[h] # Idle /\ entry[h].user = u /\ ~entry[h].right}

\* Login and VerifyPIN, service/auth_service.go:136 and 178.  Attempts that are
\* counted before any of them is recorded pass the lockout together: wrong PINs
\* that are compared or recorded within a window reach MaxPINAttempts - 1 and
\* one for each request that can run at once, and no more (as long as they are
\* recorded: the error of RecordPINAttempt is dropped).
GuessesBounded ==
    \A u \in Signup :
        recent[u] + Cardinality(Guessing(u)) <= MaxPINAttempts - 1 + Cardinality(Handler)

\* Login, service/auth_service.go:140.  A refused attempt is not recorded, so
\* a locked user gets in again once time has passed, even if somebody goes on
\* trying all the while.
LockoutEnds ==
    \A u \in Signup : recent[u] >= MaxPINAttempts ~> recent[u] < MaxPINAttempts

=============================================================================
