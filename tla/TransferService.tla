-------------------------- MODULE TransferService --------------------------
(***************************************************************************)
(* TransferService.InitiateTransfer, run by concurrent HTTP requests of    *)
(* one user against Postgres (READ COMMITTED), Paystack and Mono.          *)
(*                                                                         *)
(* Each request is one run of the function; pc says which call it is about *)
(* to make.  What it has written inside its database transaction is in     *)
(* work[r], invisible to the others until Commit.  The first UPDATE of the *)
(* wallets row takes the row lock, which the transaction keeps to its end. *)
(*                                                                         *)
(* The deferred commit and rollback of the code both test the `err` that   *)
(* `tx, err := s.pool.Begin(ctx)` declares, which no later failure sets:   *)
(* every return after Begin, with an error or not, goes through Commit.    *)
(* Only a failed SQL statement, a lost connection, a cancelled context or  *)
(* the end of the process discards the transaction (Abort, CommitFails).   *)
(***************************************************************************)
EXTENDS WalletRow, DebitPlan, Functions

CONSTANTS
    Req,            \* HTTP requests that reach InitiateTransfer
    NoReq,          \* nobody holds the row lock
    Key,            \* values of the Idempotency-Key header
    NoKey,          \* a request without the header
    KeyOf,          \* the header of each request
    AmountOf,       \* the amount each request asks for (kobo)
    NBanks,         \* linked bank accounts, in priority order 1..NBanks
    Avail,          \* stored balance less minimum of each account, 0 if none
    InitialBalance, \* the wallet's balance before the first request
    Deposits,       \* the sizes of the credits that arrive meanwhile
    MaxDeposited    \* bound of the model: deposits stop there

ASSUME ReqAssumption ==
    /\ NoReq \notin Req
    /\ NoKey \notin Key
    /\ KeyOf \in [Req -> Key \cup {NoKey}]
    /\ AmountOf \in [Req -> Nat \ {0}]

ASSUME BankAssumption ==
    /\ NBanks \in Nat
    /\ Avail \in [1..NBanks -> Nat]

ASSUME WalletAssumption ==
    /\ InitialBalance \in Nat
    /\ Deposits \subseteq Nat \ {0}
    /\ MaxDeposited \in Nat

VARIABLES
    wallet,     \* the committed wallets row of the user
    lock,       \* the transaction that holds the row lock, or NoReq
    image,      \* the row as the lock holder has updated it
    txn,        \* the committed transactions rows of each request
    work,       \* the rows each open database transaction has written
    pc,         \* the call each request is about to make
    plan,       \* the debit plan each request has built
    paystack,   \* a Paystack client is configured (fixed at start-up)
    linked,     \* bank accounts that are still linked
    sessions,   \* Mono payments initiated for each request
    paid,       \* Paystack has accepted the payout of the request
    reply,      \* what the request returns to its caller
    found,      \* history: transfers of its key committed when it looked
    deposited   \* history: all that was ever credited to the wallet

dbvars == <<wallet, lock, image, txn, work>>
extvars == <<paystack, linked, sessions, paid>>
vars == <<wallet, lock, image, txn, work, pc, plan, paystack, linked, sessions,
          paid, reply, found, deposited>>

Banks == 1..NBanks

Statuses == {"NONE", "PENDING", "PROCESSING", "COMPLETED", "FAILED"}

\* The rows of one transfer: the parent, the payout child, and the debit legs
\* that have a child row (0 is the wallet).  Legs keep the status PENDING.
Transfers == [parent : Statuses, payout : Statuses, legs : SUBSET (0..NBanks)]

NoTransfer == [parent |-> "NONE", payout |-> "NONE", legs |-> {}]

\* What image holds while nobody has the lock.
NoImage == [balance |-> 0, ledger |-> 0]

NoPlan == [wallet |-> 0, banks |-> [b \in Banks |-> 0]]

InTx == {"legs", "settle", "commit"}

PlannedLegs(r) ==
    (IF plan[r].wallet > 0 THEN {0} ELSE {})
        \cup {b \in Banks : plan[r].banks[b] > 0}

\* The legs loop has done everything before leg i.
NextLeg(r, i) ==
    /\ i \in PlannedLegs(r) \ work[r].legs
    /\ \A j \in PlannedLegs(r) \ work[r].legs : i <= j

Init ==
    /\ wallet = [balance |-> InitialBalance, ledger |-> InitialBalance]
    /\ lock = NoReq
    /\ image = NoImage
    /\ txn = [r \in Req |-> NoTransfer]
    /\ work = [r \in Req |-> NoTransfer]
    /\ pc = [r \in Req |-> "check"]
    /\ plan = [r \in Req |-> NoPlan]
    /\ paystack \in BOOLEAN
    /\ linked = Banks
    /\ sessions = [r \in Req |-> {}]
    /\ paid = [r \in Req |-> FALSE]
    /\ reply = [r \in Req |-> "none"]
    /\ found = [r \in Req |-> {}]
    /\ deposited = InitialBalance

----------------------------------------------------------------------------
(* The steps of a request.                                                 *)

Return(r, answer) ==
    /\ pc' = [pc EXCEPT ![r] = "done"]
    /\ reply' = [reply EXCEPT ![r] = answer]

\* Rows of other transfers with the request's key that are already committed.
CommittedWithKey(r) ==
    {q \in Req : KeyOf[q] = KeyOf[r] /\ KeyOf[r] # NoKey /\ txn[q].parent # "NONE"}

\* Seeded fault: the key is looked up but the result is not used.
CheckKeyUnchecked(r) ==
    /\ pc[r] = "check"
    /\ found' = [found EXCEPT ![r] = CommittedWithKey(r)]
    /\ pc' = [pc EXCEPT ![r] = "plan"]
    /\ UNCHANGED <<dbvars, plan, extvars, reply, deposited>>

\* GetByIdempotencyKey: an existing row, whatever its status, is the answer.
CheckKey(r) ==
    /\ pc[r] = "check"
    /\ found' = [found EXCEPT ![r] = CommittedWithKey(r)]
    /\ \/ /\ CommittedWithKey(r) = {}
          /\ pc' = [pc EXCEPT ![r] = "plan"]
          /\ UNCHANGED reply
       \/ \E q \in CommittedWithKey(r) : Return(r, txn[q].parent)
    /\ UNCHANGED <<dbvars, plan, extvars, deposited>>

\* BuildDebitPlan reads the committed row outside the transaction.  A shortfall
\* ends the request (the audit row it writes is not modelled).
BuildPlan(r) ==
    /\ pc[r] = "plan"
    /\ LET fromWallet == WalletShare(wallet.ledger, AmountOf[r])
           usable == [b \in Banks |-> IF b \in linked THEN Avail[b] ELSE 0]
       IN \E rem \in Remainders(AmountOf[r] - fromWallet, usable, NBanks) :
            \/ /\ rem[NBanks] = 0
               /\ plan' = [plan EXCEPT ![r] =
                     [wallet |-> fromWallet, banks |-> BankShares(rem, NBanks)]]
               /\ pc' = [pc EXCEPT ![r] = "begin"]
               /\ UNCHANGED reply
            \/ /\ rem[NBanks] > 0
               /\ Return(r, "error")
               /\ UNCHANGED plan
    /\ UNCHANGED <<dbvars, extvars, found, deposited>>

\* Begin, then the parent row with its idempotency key, inside the transaction.
Begin(r) ==
    /\ pc[r] = "begin"
    /\ work' = [work EXCEPT ![r] = [NoTransfer EXCEPT !.parent = "PENDING"]]
    /\ pc' = [pc EXCEPT ![r] = "legs"]
    /\ UNCHANGED <<wallet, lock, image, txn, plan, extvars, reply, found, deposited>>

\* Seeded fault: the row is read and written back without a lock.
RowNotLocked == TRUE

\* An UPDATE of the row waits for the transaction that has updated it before.
RowFree == lock = NoReq

\* The wallet leg.  If the row still has the money, the transaction holds it
\* and owns the lock; if another transfer has taken it meanwhile, no row
\* matches and the function returns its error, which commits the parent.
\* GetByUserID before it finds a wallet: a user has one from registration on.
WalletLeg(r) ==
    /\ pc[r] = "legs"
    /\ NextLeg(r, 0)
    /\ RowFree
    /\ \/ /\ CanHold(wallet, plan[r].wallet)
          /\ lock' = r
          /\ image' = Hold(wallet, plan[r].wallet)
          /\ work' = [work EXCEPT ![r].legs = @ \cup {0}]
          /\ UNCHANGED <<pc, reply>>
       \/ /\ ~CanHold(wallet, plan[r].wallet)
          /\ pc' = [pc EXCEPT ![r] = "commit"]
          /\ reply' = [reply EXCEPT ![r] = "error"]
          /\ UNCHANGED <<lock, image, work>>
    /\ UNCHANGED <<wallet, txn, plan, extvars, found, deposited>>

\* A bank leg: the child row, then Mono's PaymentInitiate for the leg.
BankLeg(r, b) ==
    /\ pc[r] = "legs"
    /\ NextLeg(r, b)
    /\ b \in linked
    /\ work' = [work EXCEPT ![r].legs = @ \cup {b}]
    /\ sessions' = [sessions EXCEPT ![r] = @ \cup {b}]
    /\ UNCHANGED <<wallet, lock, image, txn, pc, plan, paystack, linked, paid,
                   reply, found, deposited>>

\* Seeded fault: a failed bank debit is logged and the loop goes on.
BankLegFailsOn(r, b) ==
    /\ pc[r] = "legs"
    /\ NextLeg(r, b)
    /\ b \in linked
    /\ work' = [work EXCEPT ![r].legs = @ \cup {b}]
    /\ UNCHANGED <<wallet, lock, image, txn, pc, plan, extvars, reply, found,
                   deposited>>

\* The same leg when executeBankDebit fails: no token, a provider other than
\* Mono, no client, or a call that fails, with or without Mono having acted.
BankLegFails(r, b) ==
    /\ pc[r] = "legs"
    /\ NextLeg(r, b)
    /\ b \in linked
    /\ work' = [work EXCEPT ![r].legs = @ \cup {b}]
    /\ \E opened \in SUBSET {b} :
            sessions' = [sessions EXCEPT ![r] = @ \cup opened]
    /\ pc' = [pc EXCEPT ![r] = "commit"]
    /\ reply' = [reply EXCEPT ![r] = "error"]
    /\ UNCHANGED <<wallet, lock, image, txn, plan, paystack, linked, paid,
                   found, deposited>>

\* GetByID finds no account: it was unlinked after the plan was built.
BankGone(r, b) ==
    /\ pc[r] = "legs"
    /\ NextLeg(r, b)
    /\ b \notin linked
    /\ pc' = [pc EXCEPT ![r] = "commit"]
    /\ reply' = [reply EXCEPT ![r] = "error"]
    /\ UNCHANGED <<dbvars, plan, extvars, found, deposited>>

\* Seeded fault: the payout does not wait for the last leg.
LegsDoneEarly(r) == pc[r] = "legs" /\ work[r].legs # {}

LegsDone(r) == pc[r] = "legs" /\ PlannedLegs(r) \subseteq work[r].legs

\* The parent becomes PROCESSING, the payout row is written, and SendPayout
\* returns a provider reference (a made-up one without a Paystack client).
SendPayout(r) ==
    /\ LegsDone(r)
    /\ work' = [work EXCEPT ![r].parent = "PROCESSING", ![r].payout = "PENDING"]
    /\ paid' = [paid EXCEPT ![r] = paystack]
    /\ pc' = [pc EXCEPT ![r] = "settle"]
    /\ UNCHANGED <<wallet, lock, image, txn, plan, paystack, linked, sessions,
                   reply, found, deposited>>

\* Seeded fault: the release is left to the rollback ("rolled back anyway").
NotReleased(r) == image

\* The row after ReleaseHold for the wallet leg, if the plan has one.
Released(r) ==
    IF 0 \in PlannedLegs(r) THEN ReleaseHold(image, plan[r].wallet) ELSE image

\* SendPayout returns an error; Paystack may have accepted the payout all the
\* same.  Both rows fail, the holds are released, the error is returned.
PayoutFails(r) ==
    /\ LegsDone(r)
    /\ paystack
    /\ \E accepted \in BOOLEAN : paid' = [paid EXCEPT ![r] = accepted]
    /\ work' = [work EXCEPT ![r].parent = "FAILED", ![r].payout = "FAILED"]
    /\ image' = Released(r)
    /\ pc' = [pc EXCEPT ![r] = "commit"]
    /\ reply' = [reply EXCEPT ![r] = "error"]
    /\ UNCHANGED <<wallet, lock, txn, plan, paystack, linked, sessions, found,
                   deposited>>

\* "Complete wallet debit": Debit asks for the amount in both columns although
\* the hold has already taken it from one; its error is not looked at.  Then
\* the parent and the payout become COMPLETED.
Settle(r) ==
    /\ pc[r] = "settle"
    /\ image' = IF 0 \in PlannedLegs(r) /\ CanDebit(image, plan[r].wallet)
                   THEN Debit(image, plan[r].wallet) ELSE image
    /\ work' = [work EXCEPT ![r].parent = "COMPLETED", ![r].payout = "COMPLETED"]
    /\ pc' = [pc EXCEPT ![r] = "commit"]
    /\ reply' = [reply EXCEPT ![r] = "COMPLETED"]
    /\ UNCHANGED <<wallet, lock, txn, plan, extvars, found, deposited>>

\* Seeded fault: a way out of the function that ends no transaction.
LeftOpen(r) == UNCHANGED <<lock, image>>

\* The end of a transaction, of either kind, lets go of the row.
Unlock(r) ==
    /\ lock' = IF lock = r THEN NoReq ELSE lock
    /\ image' = IF lock = r THEN NoImage ELSE image

\* The deferred commit, on every way out of the function.
Commit(r) ==
    /\ pc[r] = "commit"
    /\ txn' = [txn EXCEPT ![r] = work[r]]
    /\ wallet' = IF lock = r THEN image ELSE wallet
    /\ Unlock(r)
    /\ work' = [work EXCEPT ![r] = NoTransfer]
    /\ pc' = [pc EXCEPT ![r] = "done"]
    /\ UNCHANGED <<plan, extvars, reply, found, deposited>>

\* Postgres rolls the transaction back.
Discard(r) ==
    /\ work' = [work EXCEPT ![r] = NoTransfer]
    /\ Unlock(r)
    /\ pc' = [pc EXCEPT ![r] = "done"]
    /\ UNCHANGED <<wallet, txn, plan, extvars, found, deposited>>

\* Commit itself fails: the shadowed `err` keeps the failure from the caller,
\* who gets the reply that was computed before.
CommitFails(r) ==
    /\ pc[r] = "commit"
    /\ Discard(r)
    /\ UNCHANGED reply

\* A statement fails, the 30 s context of the Timeout middleware is cancelled,
\* the connection breaks or the process dies, before the commit.
Abort(r) ==
    /\ pc[r] \in {"check", "plan", "begin", "legs", "settle"}
    /\ Discard(r)
    /\ reply' = [reply EXCEPT ![r] = "error"]

----------------------------------------------------------------------------
(* What the rest of the system does to this state meanwhile.               *)

\* CreditWallet, from a deposit or a top-up: one UPDATE outside any explicit
\* transaction, which waits for the row lock like any other.
Deposit(x) ==
    /\ RowFree
    /\ deposited + x <= MaxDeposited
    /\ wallet' = Credit(wallet, x)
    /\ deposited' = deposited + x
    /\ UNCHANGED <<lock, image, txn, work, pc, plan, extvars, reply, found>>

\* UnlinkBank deletes an account.
Unlink(b) ==
    /\ b \in linked
    /\ linked' = linked \ {b}
    /\ UNCHANGED <<dbvars, pc, plan, paystack, sessions, paid, reply, found,
                   deposited>>

RequestStep(r) ==
    \/ CheckKey(r) \/ BuildPlan(r) \/ Begin(r) \/ WalletLeg(r)
    \/ \E b \in Banks : BankLeg(r, b) \/ BankLegFails(r, b) \/ BankGone(r, b)
    \/ SendPayout(r) \/ PayoutFails(r) \/ Settle(r) \/ Commit(r)

Next ==
    \/ \E r \in Req : RequestStep(r) \/ CommitFails(r) \/ Abort(r)
    \/ \E x \in Deposits : Deposit(x)
    \/ \E b \in Banks : Unlink(b)

Spec == Init /\ [][Next]_vars

\* A handler goroutine keeps running; a statement that waits for the row lock
\* is served once the lock is free.  Nothing is assumed of the environment.
FairSpec == Spec /\ \A r \in Req : WF_vars(RequestStep(r))

----------------------------------------------------------------------------
(* Properties.                                                             *)

\* Every variable has its type; both images of the row pass the CHECKs.
TypeOK ==
    /\ wallet \in Rows
    /\ image \in Rows
    /\ lock \in Req \cup {NoReq}
    /\ txn \in [Req -> Transfers]
    /\ work \in [Req -> Transfers]
    /\ pc \in [Req -> {"check", "plan", "begin", "done"} \cup InTx]
    /\ plan \in [Req -> [wallet : Nat, banks : [Banks -> Nat]]]
    /\ paystack \in BOOLEAN
    /\ linked \subseteq Banks
    /\ sessions \in [Req -> SUBSET Banks]
    /\ paid \in [Req -> BOOLEAN]
    /\ reply \in [Req -> {"none", "error"} \cup Statuses]
    /\ found \in [Req -> SUBSET Req]
    /\ deposited \in Nat

WalletLegs(status) ==
    {r \in Req : txn[r].parent \in status /\ 0 \in txn[r].legs}

WalletTotal(status) ==
    SumFunctionOnSet([r \in Req |-> plan[r].wallet], WalletLegs(status))

\* The kobo from n up to the last one credited can be dealt out, each to one
\* wallet leg at most: leg r gets those numbered from[r] on.
DealtOnce(legs, n) ==
    \E from \in [legs -> n..deposited] :
        /\ \A r \in legs : from[r] + plan[r].wallet <= deposited
        /\ \A q, r \in legs : q = r \/ from[q] + plan[q].wallet <= from[r]
                                   \/ from[r] + plan[r].wallet <= from[q]

\* They can be dealt out to the legs, and none is left over.
DealtOut(legs, n) ==
    \E from \in [legs -> 0..deposited] :
        \A k \in n..(deposited - 1) :
            \E r \in legs : from[r] <= k /\ k < from[r] + plan[r].wallet

\* InitiateTransfer, service/transfer_service.go:171 and 290.  No kobo that was
\* credited is promised to two committed transfers that have not failed, or is
\* promised and still available: two transfers planned from the same balance
\* do not both get it.  And what the balance has lost, a completed transfer
\* has had.
NoOverspend ==
    /\ wallet.ledger <= deposited
    /\ DealtOnce(WalletLegs({"PENDING", "PROCESSING", "COMPLETED"}), wallet.ledger)
    /\ DealtOut(WalletLegs({"COMPLETED"}), wallet.balance)

\* What other transactions see of a transfer is one of its ends: all of it
\* settled, all of it failed, or the legs written before a debit leg failed.
\* In particular nobody ever reads a parent that is PROCESSING.
NoHalfWrittenTransfer ==
    \A r \in Req : LET t == txn[r] IN
        /\ t.parent # "PROCESSING"
        /\ t.parent \in {"COMPLETED", "FAILED"} =>
                t.payout = t.parent /\ t.legs = PlannedLegs(r)
        /\ t.parent \in {"NONE", "PENDING"} => t.payout = "NONE"

\* A transfer the ledger shows as COMPLETED had its whole amount planned from
\* some source, every bank leg initiated at Mono, and its payout accepted.
CompletedIsPaidFor ==
    \A r \in Req : txn[r].parent = "COMPLETED" =>
        /\ AddsUp(plan[r].wallet, plan[r].banks, NBanks, AmountOf[r])
        /\ {b \in Banks : plan[r].banks[b] > 0} \subseteq sessions[r]
        /\ paystack => paid[r]

\* A retry that comes after the transfer of its key has committed moves no
\* money: it pays nothing out, opens no bank payment and writes no row.
LateRetryIsHarmless ==
    \A r \in Req : found[r] # {} =>
        ~paid[r] /\ sessions[r] = {} /\ txn[r] = NoTransfer

\* On the committed wallet a transfer is one atomic step, taken at most once
\* and computed from the row as it then is, however the requests interleave.
Book == INSTANCE TransferBook
    WITH row <- wallet, outcome <- [r \in Req |-> txn[r].parent]

AtomicOnTheBook == Book!Spec

\* Every request is answered, so the row lock is never kept for ever.
EveryRequestAnswered == \A r \in Req : <>(pc[r] = "done" /\ lock # r)

----------------------------------------------------------------------------
(* What the documents promise and the code does not do.                    *)

\* ARCHITECTURE.md, Security: "Idempotency-Key prevents duplicate transfers".
OneTransferPerKey ==
    \A q, r \in Req :
        q # r /\ KeyOf[q] = KeyOf[r] /\ KeyOf[r] # NoKey =>
            ~(txn[q].parent = "COMPLETED" /\ txn[r].parent = "COMPLETED")

\* ARCHITECTURE.md, Key Flows, of the debit legs: "On failure: release holds,
\* mark failed".
FailureReleasesHolds ==
    \A r \in Req : pc[r] = "done" /\ reply[r] = "error" =>
        ~(txn[r].parent = "PENDING" /\ 0 \in txn[r].legs)

\* Migration 000001: ledger_balance is "(balance - holds)", the holds being the
\* wallet legs of transfers that are neither completed nor failed.
LedgerIsBalanceMinusHolds ==
    wallet.ledger = wallet.balance - WalletTotal({"PENDING", "PROCESSING"})

=============================================================================
