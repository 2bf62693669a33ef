# Formal verification of weave-server

weave-server is the Go backend of a Nigerian payments assistant: a user has a
wallet, links bank accounts, and sends money over HTTP or through a chat
assistant. One transfer may draw on the wallet and on several linked accounts
at once. The server talks to Postgres, Redis, Paystack (payouts, virtual
accounts, deposit webhooks), Mono (linked accounts, direct debits, their
webhooks) and an LLM.

This directory holds TLA+ models of the server's money-moving core, of the chat
assistant and of what stands before the handlers, the TLC configurations that check
them on small instances, and TLAPS proofs of their main properties for every value of the
constants. `PROJECT.json` maps every definition to the source lines it models.

Contents: [1 The system](#1-the-system), [2 Modules](#2-modules),
[3 Runs](#3-runs-bounds-and-fairness), [4 Proofs](#4-proofs),
[5 Disagreements](#5-where-the-code-and-its-documents-disagree),
[6 Limits](#6-what-is-not-modelled-and-why), [7 Order of the work](#7-order-of-the-work).

## 1. The system

Every request passes the same middleware chain (`internal/server/server.go:73-116`), from the
outside in: real IP, tracing, content type, body size, security headers, request id, recovery,
logging, CORS, rate limit, idempotency, auth, timeout (30 s). Handlers call services, services call repositories and
provider clients. There are no background workers: everything that happens is
an HTTP request, a webhook, a goroutine that outlives its request, or the end of
the process.

| Component | State | Operations | Talks to | What makes it correct |
|---|---|---|---|---|
| Transfer service | `transactions` rows (parent, legs, payout) | `InitiateTransfer`, two getters | sourcing engine, wallet row, Mono, payout service | money is promised once; a transfer is whole or absent; a retry with the same key moves nothing |
| Wallet row | `balance`, `ledger_balance` | credit, debit, hold, release | all of the above | `0 <= ledger_balance <= balance`; updates of concurrent requests do not get lost |
| Sourcing engine | none (reads the wallet and `bank_accounts`) | `BuildDebitPlan`, `refreshBankBalances` | Mono for live balances | the legs sum to the amount, in priority order, none beyond what is available |
| Bank top-ups | `bank_fund_requests.status` | `FundFromBank`, `CompleteFundFromBank`, webhooks | Mono, wallet row | an authorised debit is credited, and once; no other is |
| Deposits, virtual accounts | `wallet_accounts`, `wallet_deposits` | `IssueWalletAccount`, `ProcessDepositWebhook` | Paystack, wallet row | a deposit is credited, and once; a number that is handed out is known |
| Wallet service (rest) | wallet row | `GetBalance`, `DebitWallet`, holds | wallet repository | wrappers of the wallet row |
| Payout service | recipient cache, a map in memory (`payout_service.go:16`) | `SendPayout` | Paystack | one payout per transfer |
| Linked accounts | `bank_accounts`, link sessions in Redis | link, unlink, priority, refresh | Mono | a stored balance is the account's own; what was unlinked is gone |
| Authentication | `users`, recorded PIN attempts | register, login, verify PIN, refresh | Postgres | registration is atomic; guesses are bounded and a lockout ends |
| Idempotency middleware and store | cached responses, in Redis or in memory | lookup, store | all handlers | what is cached is what a handler reported; who was answered is not served twice |
| Rate limiter | token bucket per key, in memory | `Allow` | all handlers | an allotment is not exceeded; a client that waits is admitted |
| Timeout and recovery | one response per request | wrap the handler | all handlers | every request that is served ends, whatever its handler does |
| Chat assistant | pending action and history in Redis, `chat_messages` | message, confirm, cancel, clear | LLM agent, transfer service, linked accounts | a success was paid for; a plan is paid once; every message is answered |
| LLM agent | conversation of one call | at most eight rounds of tool calls | chat tools | terminates; no tool moves money unconfirmed |
| Provider clients | none | HTTP calls | Mono, Paystack, LLM | an answer may be lost after the provider has acted |
| Audit log, chat messages | append-only tables | insert, list | - | nothing is read back to decide anything |
| Migrations | the schema, `schema_migrations` | `RunMigrations` at each start | Postgres | record and schema agree |
| Server, configuration, logger, tracer, health, validator | start-up state | - | - | the order of the middleware |

### What is hard here

* **Concurrency.** Requests of one user run in parallel at READ COMMITTED. The
  idempotency key, the balance a plan is made from, the daily limit and the
  status of a top-up are all read in one statement and relied on in a later one.
* **Failure half-way.** A transfer makes external calls inside its database
  transaction; the deferred commit and rollback look at a shadowed `err`. Top-ups
  and deposits are sequences of single statements with no transaction at all.
* **Delivery.** Webhooks are repeated, delayed, concurrent, and retried only
  when they are not answered with 200; one endpoint takes them without a signature too.
* **Timeouts.** The timeout middleware cancels the context and answers, while the
  handler goroutine goes on; the connection has a deadline of its own.
* **Shared memory in Redis.** One pending action and one context per user are loaded,
  acted on and written back by messages that run at the same time, and expire.
* **Two threads, one response.** The timeout answers while the handler still writes.
* **Starts.** Scripts run in a transaction that one of them ends.
* **Money arithmetic.** Holds, debits and releases of two columns have to compose
  to one deduction.

`PROJECT.json` lists 40 such hazards, each at its line, with the properties that
are about it or the reason there is none.

## 2. Modules

```
WalletRow  DebitPlan                the row's UPDATEs; what a debit plan is
    |   \   /   \
    |    \ /     SourcingEngine     the loop that computes a debit plan
    |     X            |
TransferBook           |            what a transfer does to the committed row
    ^     |            |
    |  TransferService |            InitiateTransfer, concurrently
    +---- refines      |
          |
    TransferKeys -- refines --> KeyLedger      what an idempotency key promises
                                    ^
LinkedBanks <-- extends -- Chat ----+ refines  bank_accounts and Mono; the assistant
ChatHistory                         chat_messages and the model's context
    Chat and ChatHistory are checked by MCAssistant

BankFunding                         top-ups from a linked bank and Mono's webhooks
Deposits -- refines --> DepositLedger          virtual accounts and Paystack's webhooks;
                                    what the row of a charge promises

Migrations  RateLimiter  Pipeline  AuthService
    start       |            |          registration and PIN entry
                bucket       idempotency, auth, timeout, handler
    all checked by MCServer
```

`MC<X>` gives module X the values TLC checks it with; `<X>Proofs` holds its theorems.
Definitions marked *Seeded fault* are plausible bugs of the code that no
specification uses; putting one in the place of the definition it varies
shows that a property would notice. `ServerProofs` and `AssistantProofs` are about the
modules that `MCServer` and `MCAssistant` put together; `KeyLedger` holds its own theorems.

### WalletRow, DebitPlan

`WalletRow` has the four UPDATE statements of `wallet_repo.go` as functions of
the row, their WHERE clauses as `CanDebit` and `CanHold`, and the CHECK constraints of the
first migration as `Rows`. `DebitPlan` defines the debit plan without a loop: the
wallet's share, then the unique function of remainders in which each account gives all
it can. `SourcingEngine` is shown to compute it; `TransferService` uses it in the step
`BuildPlan`, so that the loop does not have to be interleaved with everything else.

### TransferService, TransferBook

One `InitiateTransfer` per element of `Req`. `pc[r]` is the next call of the
function; the actions follow its text:

| Action | Code |
|---|---|
| `CheckKey` | lookup by idempotency key, before the transaction |
| `BuildPlan` | the wallet row and the accounts are read, the plan is made |
| `Begin` | `pool.Begin`, insert of the parent |
| `WalletLeg` | child row and `Hold`; waits for the row lock |
| `BankLeg`, `BankLegFails`, `BankGone` | child row, account lookup, Mono's direct debit, each may fail |
| `SendPayout`, `PayoutFails` | PROCESSING, payout row, Paystack; on failure the hold is released and everything marked FAILED |
| `Settle` | COMPLETED, and `Debit` of the wallet leg with its error ignored |
| `Commit`, `CommitFails`, `Abort` | the deferred functions; a broken connection, cancelled context or dead process |
| `Deposit`, `Unlink` | what other requests do meanwhile to the wallet and the accounts |

`wallet` and `txn` are the committed rows; `image` and `work` are what open
transactions have written. The first UPDATE of the wallets row takes its `lock`,
which only the end of the transaction gives back, and later readers of a READ
COMMITTED database see the row as it then is. The deferred functions test an
`err` that later failures never set, so every return after `Begin` goes through
`Commit`; only what prevents the commit itself discards the work.

`TransferBook` is the contract a reader of the committed data may rely on: a
transfer is one atomic step, taken at most once, that leaves a hold behind, or
nothing, or a hold followed by a full debit, computed from the row it meets.
`AtomicOnTheBook` says that `TransferService` implements it, with the committed row and the
parents' statuses as the refinement mapping.

### TransferKeys, KeyLedger

`KeyLedger` is what those may rely on who send an idempotency key again: a look at the key's
committed rows, which answers if there is one (whatever its status) and, if there is
none, an outcome later, in which the payout leaves the system and its row is committed or lost.
Between the two nothing protects the key. A key for which two lookups
overlapped, or a payout lost its row, is `excused`; every other key is paid out at most once.

`TransferKeys` extends `TransferService` by that one history variable and reads the ledger off
its state: who is past the lookup, which parents are committed, how many payouts are out.
`KeysAreLedger` says that `TransferService` implements `KeyLedger`, and `Chat` instantiates
the same module for what it takes `InitiateTransfer` to do with the key of a plan (`KeepsKeyLedger`). The
two models meet in that module: what the assistant assumes of a transfer is
what a transfer is shown to do.

### SourcingEngine

One call of `BuildDebitPlan`: wallet leg, list of accounts, refresh of the
balances, loop. The list comes without provider tokens, because the SELECT does
not name that column; what follows from it is section 5. `remaining`, `taken`, `fees`
are the loop's variables.

### BankFunding

`Check`, `Create`, `Initiate`, `RecordPending`, `RecordFailure` are the statements
of `FundFromBank`; `Pay` is the user at Mono's page; `Deliver`, `Repeat` bring
webhooks to a handler by either endpoint; `ReadStatus`, `Credit`, `MarkCompleted`
are the three statements of `CompleteFundFromBank`. `CompleteFails` is answered
with an error by one endpoint (`MonoWebhook`) and with 200 by the other
(`MonoDirectDebit`); `MarkFails` is only logged; `Crash` is a handler that is cut off.
`MonoDirectDebit` verifies the signature of a webhook only if it has one. `Unsigned` is a webhook
of another sender than Mono, who has a bearer token and a reference `FundFromBank` has handed out, at
any time after that, whether or not Mono's session of it was paid; `unsigned` remembers the reference. What it
credits is the amount of its payload; the model counts credits and not kobo. `Others = FALSE` leaves such senders
out of the two runs that are about Mono's own webhooks.
`Bearer` says whether the webhooks get past the Auth middleware. The page's
address reaches the user only when `FundFromBank` has returned, so a webhook can
never come before its last write; that is what `CompletedIsFinal` depends on.

### Deposits

`Look`, `Assign`, `Save` are `IssueWalletAccount`, twice concurrently: Paystack assigns
one number per customer or a new one, the insert is refused for a number that exists, and a
caller only sees a number that was stored. `Lookup`, `Record`, `Credit` are
`ProcessDepositWebhook`: account, `wallet_deposits` row with its UNIQUE reference,
credit of the net amount. `PaystackDeposit` answers 200 whatever happens;
`ProcessFails` includes statements that were executed but whose answer was lost.

`DepositLedger` is what that order of statements amounts to: the row is a claim on the wallet that
is made once, held by the run that wrote it, and spent once, for the credit or for nothing.
`Claims` is the refinement mapping: no row, a row whose run is at the credit, a row without one.

### LinkedBanks

The rows of one user with their ids, priorities, tokens and what is known of their
balance: `"own"`, `"hundredfold"`, `"foreign"` or `"none"`. `CreateBank`, `DeleteBank`,
`WithPriority`, `WithBalance` are the repository's statements, with the `ON CONFLICT` that keeps
the id of a row and the foreign key that keeps a row which was topped up from.
`InitiateLink`, `CompleteLink`, `SaveAccount`, `FinishLink` are Mono Connect with its
session in Redis, one round of the saving loop per step; `ExchangeCode` is the other way to
link; `RefreshRead`, `RefreshAsk`, `RefreshStore` are the three steps of `RefreshBalance`,
between which the row may be relinked or unlinked. `Connect` and `Revoke` are the customer who adds an
account to Mono's list, on the page `InitiateLink` opens, for the first time or again, and takes it away.
`strayed` remembers the rows whose account was off that list at some time since they were made.

### Chat

Handlers of one user's messages that run at once. `turn[h]` is where a handler is, in which
round of the agent loop, with how many tool calls left, and what it holds of what it loaded.

| Action | Code |
|---|---|
| `AskAgent`, `AskDirectly`, `SayYes`, `SayNo` | `HandleMessage` and its shortcuts; `POST /chat/confirm` |
| `AgentEnds`, `AgentCallsTools`, `NextRound` | `RunAgent`; what the model answers is arbitrary |
| `ToolInitiateTransfer`, `ToolInitiateUnlink`, `ToolCancelAction` | the tools that write the pending action |
| `ToolUpdateBankPriority`, `ToolFundWallet`, `ToolReads` | the other tools |
| `LoadTransfer`, `LookUp`, `TransferMade`, `TransferFails`, `ClearPending` | `toolConfirmTransfer`: load, `InitiateTransfer`, clear |
| `LoadUnlink`, `DeleteUnlinked` | `toolConfirmUnlink` |
| `ExpirePending` | Redis, after ten minutes |

`InitiateTransfer` is here the lookup of the key, and later its outcome with the parent row it
leaves; which outcomes there are is what `TransferService` shows, the state of its rows at
each of its ends. `excused` names the plans for which two confirmations overlapped, or a payout
lost its transaction: for those `transfer_same_key` already shows what happens.
To the accounts the assistant is one more client: `AssistantIsAClient` proves that each
of its steps is a step of `LinkedBanks` or leaves the accounts alone.

### ChatHistory

`LoadHistory` takes the context from Redis or the table, `Rewarm` writes it back,
`PersistPair` appends to the table, `SaveHistory` writes what was loaded and the new turn.
`ClearRows` and `FlushContext` are `DELETE /chat/history`. Every Redis and SQL error the code
logs or drops is an alternative of its step. `raced` says that a message was in flight during the last
clear, or that its flush failed; the next undisturbed clear makes up for it.

### Migrations, RateLimiter, Pipeline, AuthService

`Migrations` follows `RunMigrations` script by script, on a fresh database, for
servers that start together, fail and die at any step. A script is its number; of its content the model
keeps the objects whose `CREATE` would fail and whether it ends the transaction.

`RateLimiter` is `Allow`. Time is the number of ticks since an address last called, which is what the
code's `last` keeps; pauses beyond `Horizon` are not told apart.

`Pipeline` is one POST through Idempotency, Auth and Timeout. `stage` is the main thread,
`worker` the goroutine Timeout starts, `rw` the recording writer they share. Their appends to
`rw.body` are not ordered by anything, so either may be lost (`Appended`). A handler may report a success
whatever it has done (`WriteHead`): transfers and registrations lose the error of their Commit, some handlers
answer 200 on an error. `Overdue` is the connection that takes no answer any more, because the client has gone or the
server's `WriteTimeout` has passed; it starts before Timeout's own 30 s, so a 504 is recorded in `rw` and then goes nowhere
(`"lost"`). `Expire` is Redis, which drops a response after 24 hours. `Panic` ends the
process, and with it a store in memory (`durable`).

`AuthService` has `Register` as the three statements of its transaction and the deferred
`Commit`, which runs after a failed statement too and is then answered by Postgres with a rollback
(`broken`). The UNIQUE phone number makes an insert wait for the transaction that
has inserted it before (`PhoneFree`). `CountAttempts` and `RecordFailure` are the two
ends of Login and VerifyPIN; `Age` is a failed attempt that leaves the window.

## 3. Runs, bounds and fairness

### Passing runs

| Run | Property | What it says |
|---|---|---|
| `transfer` | `TypeOK` | both images of the wallets row pass the CHECKs at all times |
| | `NoOverspend` | what is available plus what is promised never exceeds what was credited, although plans are made from stale balances |
| | `NoHalfWrittenTransfer` | the committed rows of a transfer are at one of its ends |
| | `CompletedIsPaidFor` | a COMPLETED transfer had all its legs planned, initiated and paid out |
| | `KeysAreLedger` | refinement of `KeyLedger`: what a client may rely on who sends a key again |
| | `AtomicOnTheBook` | refinement of `TransferBook` |
| | `EveryRequestAnswered` | every request returns and gives back the row lock |
| `sourcing` | `AgreesWithReference` | the loop returns the plan of `DebitPlan`, and refuses only when the sources are short |
| | `PriorityRespected` | nothing is drawn while a higher priority could still give |
| | `CallReturns` | the loop ends |
| `bankfund` | `StatusMatchesMoney` | completed, failed and credited agree with what happened at Mono, but for credits that an unsigned webhook asked for |
| | `SeparateDeliveriesCreditOnce` | deliveries that do not overlap, and whose mark is written, credit once |
| | `CompletedIsFinal` | `FundFromBank` never overwrites a completion |
| | `PaidIsCredited` | an authorised debit is credited unless an error was answered with 200 |
| `deposit` | `CreditedAtMostOnce` | no charge is credited twice under any delivery, fault or crash |
| | `ShownIsKnown` | a number given to a caller is stored |
| | `ClaimsAreLedger` | refinement of `DepositLedger`: the row of a charge is claimed once and spent once, and a deposit lost between row and credit stays lost |
| | `DepositArrives` | every other deposit is credited |
| `server` | `RecordedIsApplied` | the migrations' record and the schema agree after every crash, but for the script that ends the transaction |
| | `FreshDatabaseIsNotServed` | no start serves from a fresh database |
| | `OneAllotmentPerPause`, `PauseIsEnough` | at most `Rate` admissions between two pauses of a window, and a pause is always enough |
| | `CachedWasReported` | what is cached under a key a handler of that key reported: never the writer's initial 200, never the 504; its body is the handler's unless the request timed out. Whether the report is true is not claimed |
| | `AnsweredIsNotRepeated` | after a success in time, no request with the key reaches the handler, unless the store failed, was lost, or has dropped it |
| | `ServedEnds` | a hanging handler does not keep its request open: it is answered, its connection is closed, or the process ends |
| | `AccountsAreWhole`, `SessionHasUser` | user and wallet together, one per phone number; a session has a user unless Commit failed |
| | `GuessesBounded`, `LockoutEnds` | how many wrong PINs concurrent requests can try; a locked user gets in again |
| `assistant` | `BalanceIsOwn` | what a transfer is planned from is the account's own balance, but for kobo times a hundred, and for accounts that were off Mono's list |
| | `UnlinkedIsGone` | the row somebody was told is unlinked is gone; a row made later for the same account is another |
| | `SuccessWasPaid` | who is told of a success had it paid, unless a failed attempt left its row |
| | `PaidOncePerKey` | a plan is paid at most once over repeats, failures and expiries |
| | `ClearedStaysCleared` | a cleared turn does not come back, unless the last clear was disturbed |
| | `MessageAnswered` | every message is answered |

Each run also checks the type invariant of its module. `CHECK_DEADLOCK FALSE` is
set because every call ends and nobody has to start another: the system may
stop.

### Bounds

* `transfer` (133,838 distinct states): three requests, two of them with one key; a
  wallet that pays for one of them alone, so that the later ones need a
  bank leg, run short, or find the money gone; one deposit of 2 (`MaxDeposited = 5`; 8 in
  the violation runs, where two deposits may make the second debit possible);
  two bank accounts that may be unlinked. Two requests are the least for a
  race, the third is the bystander that the row lock and the
  money left over matter to. Failures are not bounded.
* `sourcing` (15,146): every list of three accounts out of five kinds (something
  above the reserve, exactly all, below the reserve, inactive, unverified) with amounts
  and wallets that are exactly covered, over- and under-covered. It takes
  three accounts to skip one and stop before another.
* `bankfund` (319,166): two requests that exceed the daily limit only together; two
  handlers, the least for an overlap; `MaxRepeats = 2` and `MaxFaults = 2`
  bound repeated or unsigned webhooks and failed runs, so that a fault can hit a repeat, and an unsigned
  webhook can come beside Mono's own, twice, or alone.
* `deposit` (248,957): two racing calls for an account, two numbers, two charges
  of which the second leaves nothing after the fee; handlers, repeats, faults as above.
* `server` (63,873 distinct states): two servers that start, the least for a race; two
  addresses, two requests per window of two ticks, pauses up to five ticks, so that shorter and
  longer ones and more than a full bucket occur; a request and its retry, with the store in Redis
  and in memory; three registrations, two of them with one number, two PIN requests at once
  and a limit of two.
* `assistant` (224,998): two handlers, the least for an overlap; one plan (a second one is
  only another key); two rounds and two calls of the agent loop, so that a round can follow a
  round and a call a call; `MaxPaid = 2`, one more than is allowed; two ids, so that an account
  can be linked again; two numbers of which Mono may list none, one or both, and a row without a
  number; three turns with a context of two, so that one has to be trimmed.
* In both, the variable `focus` of the MC module lets a behaviour follow one part, so what is explored
  is the sum of the parts. Those of `server`, and the history in `assistant`, share no state with
  the others. The linked accounts alone, conversations about transfers and conversations about accounts
  (with unlinking, top-ups and priorities behind the assistant's back) are followed apart although a
  handler may mix them: their product is beyond a run, and `ChatInvHolds`, which is proved for the whole
  `ChatNext`, covers the mixtures.

### Fairness

* A handler goroutine that is running takes its next step: weak fairness of each
  request's own steps. The Go scheduler guarantees that. A statement that waits for the row lock is
  *enabled* only while the lock is free; with finitely many requests each of
  which ends its transaction, weak fairness is enough.
* Mono and Paystack keep sending a webhook until it is answered with 200: weak fairness of
  `Deliver` for each unanswered one. This is those services' documented
  behaviour, and the only assumption about them.
* The main thread of a request goes on, because the timer of Timeout fires whatever the handler does: weak
  fairness of `MainStep`, and of `Overdue`, the 30 s that pass before it. Nothing is assumed of the handler's
  goroutine.
* A chat handler goes on, and each of its calls returns, if only when its context ends.
* Time passes: a recorded PIN failure leaves the window.
* Nothing is assumed of users, failures, crashes, deposits or unlinking. Failures
  are never fair; they are bounded where unbounded failure would make
  the liveness property vacuous (a webhook that fails every time is never processed).

## 4. Proofs

All the components are proved about, in eight modules, for every value of their constants: any number
of requests, accounts, handlers, messages, numbers, charges, amounts, repeats and faults. The only
assumptions are the named ones in the modules: constants have their types, and the
model value for "nobody" is not somebody. Every safety property that a passing run checks is
also the statement of a theorem here; what TLC alone answers for is at the end of this section.

**TransferProofs.** The inductive invariant `TInv` is `TypeOK` with three parts.
`RowsInv` ties each value of `pc` to the rows written so far; `LockInv` says that the
lock holder is the transaction past its wallet leg, and that `image` is a function of
the *committed* row (`ImageOf`); `FoundInv` that who finds its key has written nothing.
`TypeOK` alone is not inductive: that the debit at the end keeps the row within its
CHECKs needs to know that the row was held by the same amount. From `TInv`:
`TypeCorrect`, `NoHalfWrittenAlways`, `LateRetryAlways`, and `ImplementsBook`, the refinement:
each `Commit` is one step of the book, since `image = ImageOf(r)`, and everything
else but a deposit is a stutter. `NoOverspend` and `CompletedIsPaidFor` are about sums over sets of
requests and of accounts, for which the prover has no induction. They are stated without a sum: a
promise is a range of numbered kobo (`DealtOnce`: the ranges are disjoint and above what is
available; `DealtOut`: the completed ones cover what the balance has lost), and the legs of a plan add up when
a running total leads from the wallet leg to the amount (`AddsUp`). A wallet leg takes the
kobo just above the ledger, so the next dealing is found by a step, not by an
induction: `NoOverspendAlways`, `CompletedIsPaidForAlways`.

`KeepsTheLedger` is the second refinement: a request of `TransferKeys` at each of its steps is one
step of `KeyLedger` for its key, or none. The history variable makes this provable without
knowing the past: whatever puts a second request past the lookup, or a payout outside its rows,
excuses the key in the same step. Through it the theorems of the abstract module come
back as `KeyPaysOnce` and `KeyTellsTheTruth`.

**KeyLedger.** Its own inductive invariant says that a key that is not excused and is being moved
has neither rows nor a payout, and that a COMPLETED row has one (`MovingInv`, `CompletedInv`): `KeyPaidOnce`,
`KeyToldIsPaid`. Whoever is shown to implement the module gets both.

**SourcingProofs.** The loop invariant says that what the loop has taken is the
beginning of the plan of the definition: there is a function of remainders that
agrees with the loop on the accounts it has passed. `LoopComputesThePlan` extends it to the accounts
after the loop, which all get nothing. With `PriorityAlways` and
`SourcingTypeCorrect`, in which no leg is negative. `OneDebitPlan` shows that the reference definition is
one: for every amount and every list of accounts it has exactly one solution. There being no induction,
each half takes the least number of accounts for which it would fail (`LeastNatural`, from the
well-foundedness of the naturals) and refutes it. So `ThePlanIsReturned`: what `BuildDebitPlan`
returns depends on the amount, the wallet and the stored accounts alone.

**BankFundingProofs.** `FInv` adds `PageInv`, that nothing is paid or delivered before
`FundFromBank` has returned, and `CreditInv`, that of a request without an overlap at most one
handler is between the read and the mark. `PageInv` also says that a handler only works on a
request whose page was handed out and which was paid, or named by an unsigned webhook; both are
facts that no later step undoes. From it `StatusMatchesMoneyAlways`,
`SeparateDeliveriesAlways`, `CompletedStaysCompleted`, `FundingTypeCorrect`.

**DepositProofs.** `RowInv` treats the UNIQUE row as a lock that is never released: one
run at most is past it, and that run finds the charge uncredited. From it
`CreditedAtMostOnceAlways` and `ClaimsAreSpentOnce`, the refinement of `DepositLedger`, of which
`LostStaysLostAlways` is the price; `AccountInv` gives `ShownIsKnownAlways`.

**ChatProofs.** `BankInv` adds that an id names one row and that what a refresh holds is
about the row it will write, and that a foreign balance in its hands is for a row that has strayed, or for one that
is already gone: `BalancesAreOwn` and `UnlinkedStaysGone`, first for `LinkedBanks`.
`ChatInv` adds to it what a handler may hold at each place (`TurnOK`) and `MoneyInv`: while a plan that is
not excused is being transferred, by one handler, it has neither a row nor a payout; afterwards it has a
row for ever. From it `SuccessWasPaidAlways`, `PaidOnceAlways`, and `AssistantIsAClient`, by which
the theorems about `LinkedBanks` hold of the assistant too. `AssistantKeepsTheLedger` closes the gap
between the two models of `InitiateTransfer`: its outcomes in `Chat` are steps of the same
`KeyLedger` that `TransferService` implements.

**AssistantProofs.** A turn can come back from the table, from the context, or from what a running message
has loaded. `HistoryInv` says that, unless the last clear has raced, a cleared turn is in none of the three
(the context excepted between the two deletions), and that while a message runs nobody is
clearing: `ClearedStaysCleared` alone is not inductive, because it says nothing of what has been loaded. Its lemmas
(`AppendedTurn`, `RecentTurns`) say which turns the sequence operators keep.
`AssistantIsItsParts` shows that a behaviour of `MCAssistant` is one of `Chat` and one of `ChatHistory`,
so that all these theorems apply to what the run explores; `AssistantTypeCorrect` follows.

**ServerProofs.** For the limiter, `Conserved`: what a bucket has given since the last pause and what it
still holds make `Rate`. From it `AllotmentHolds`; `PauseSuffices` follows from `WholeWindows`, what the
integer division earns. For the migrations, `MigInv` adds to the agreement of record and schema how
far a start can have come (`Progress`), and that the fourth script can never be applied
(`FourthFails`): `RecordedScriptsAreApplied` and `NobodyServes`. `PipeInv` says what the shared writer
holds by where its two threads are (`RecordOK`): a
2xx at the store was reported by its handler, whoever wrote last; neither the initial 200 nor a 504 can be there
then. From it `CachedWasReportedAlways`
and `AnsweredIsNotRepeatedAlways`. `SignupInv` says that of registrations with one number at
most one holds it, and what is known of a row at each stage: `AccountsAreWholeAlways`,
`SessionHasUserAlways`. `GuessInv` is `GuessesBounded` itself with the types; its step needs only that
a set of handlers is no larger than all of them. `ServerIsItsParts` takes a behaviour of `MCServer` apart into
one of each of the four, and `ServerTypeCorrect` puts their types together.

**What is proved of liveness.** The prover does not reason about fairness. What can be taken from a
liveness property is its safety half: that what is to happen can be neither put off for ever nor lost.

| Liveness property | Theorem | What it says |
|---|---|---|
| `EveryRequestAnswered` | `RequestIsBounded` | whatever moves a request uses up one of `NBanks + 7` steps, and nothing another one does gives it back |
| | `HolderNeverWaits` | the holder of the row lock never waits for it, so requests never wait in a circle |
| `CallReturns` | `CallIsBounded` | every step of the sourcing call uses up one of `NAccts + 4` |
| `MessageAnswered` | `MessageIsBounded` | every step of a message's handler uses up one of `MaxRounds * (5 * MaxCalls + 2) + 1`, whatever the model asks for |
| `ServedEnds` | `ServingIsBounded` | a request passes from stage to stage to its answer, a closed connection or the end of the process, and nothing takes it back |
| `LockoutEnds` | `LockoutIsNotProlonged` | while a user is locked no guess begins, and what is still recorded had begun: one failure for each handler at the most |
| `DepositArrives` | `NoDepositIsForgotten` | a deposit of more than its fee is credited, or a run is about to, or Paystack has yet to deliver it, or one of its runs failed |
| `PaidIsCredited` | `NoTopUpIsForgotten` | a paid top-up is credited, or Mono has yet to deliver its webhook, or an error was answered with 200 |

That a bounded call ends needs weak fairness of its steps and that one of them is enabled until then; this
last step is not machine-checked. TLC checks the properties themselves.

**Only model-checked.** The seven liveness properties of the table, under their fairness, which is beyond the
prover. The bounds on repeats and faults are
constants in the theorems; that the interesting cases happen within those of the runs is TLC's part. And the sentences
of the next section, which are false.

## 5. Where the code and its documents disagree

Each of these is a run that checks one sentence of a document or comment and in which TLC
finds a counterexample.

| Run | The sentence | What the code does |
|---|---|---|
| `transfer_same_key` | ARCHITECTURE.md: "Idempotency-Key prevents duplicate transfers" | The key is looked up before the transaction and its index is not UNIQUE; two overlapping requests with one key both complete. |
| `transfer_stuck_hold` | ARCHITECTURE.md: "On failure: release holds, mark failed" | The deferred functions see a shadowed `err`; a failed bank leg commits the hold and a PENDING parent, and nothing releases it. |
| `transfer_double_debit` | migration 000001: `ledger_balance` is "(balance - holds)" | `Debit` subtracts from both columns what `Hold` has already taken from one. |
| `sourcing_live` | comment: "fetches live Mono balances for all active+verified accounts" | The SELECT leaves the token out, so no account is ever asked for its balance. |
| `bankfund_twice` | comment: "It is idempotent" | Read, credit and mark are separate statements; overlapping deliveries, or one repeated after the mark failed, credit again. |
| `bankfund_unauthorized` | comment: the webhook "triggers CompleteFundFromBank" | The Auth middleware answers webhooks, which have no bearer token, with 401. The run has no faults and fair delivery, so that nothing else can be the cause. |

The following were met in the passing runs `bankfund`, `server` and `assistant`: the property says what holds nevertheless, with the exception the
code forces.

| Property | The sentence | What the code does |
|---|---|---|
| `RecordedIsApplied` | AUDIT.md: "transactional application" | The first script commits by itself; a crash before its record leaves it applied and not recorded, and every later start fails on its `CREATE TRIGGER`. |
| `FreshDatabaseIsNotServed` | migration 000001: "each table uses IF NOT EXISTS" | The fourth script creates `audit_logs` again, without it: no server starts on a fresh database. |
| `StatusMatchesMoney` | ARCHITECTURE.md: "Webhook signatures verified"; AUDIT.md: "Forged webhooks are rejected with 401" | `MonoDirectDebit` verifies a signature only if there is one; a webhook without it completes any reference that is known, whatever Mono's session says. |
| `ServedEnds` | the middleware's own 504 "request_timeout" | The server's `WriteTimeout` ends before the timer of Timeout: the client of a hanging handler gets a closed connection. |
| `ServedEnds` | ARCHITECTURE.md: "Recovery middleware catches panics" | The handler runs in another goroutine; a panic ends the process. |
| `GuessesBounded` | ARCHITECTURE.md: "PIN lockout after N failed attempts (IP-tracked)" | Concurrent attempts pass the count together; the address is always empty. |
| `SessionHasUser` | the code's own "commit transaction: %w" | The error of Commit is lost, and a session is returned for nobody. |
| `OneAllotmentPerPause` | comment: "Token bucket rate limiter" | A client that calls more often than once a window is never refilled. |
| `BalanceIsOwn` | comments in `bank.go`: "store directly without multiplying"; "the first account if number is missing" | `ExchangeCode` multiplies by a hundred; a number that matches nothing takes the first account too, and the balance stays when the account is connected again, until it is saved or refreshed. |
| `SuccessWasPaid` | comment: "Clear pending only after success." | After a failed transfer a second yes finds its row and reports a success. |
| `ClearedStaysCleared` | comment: "flush the Redis LLM context so the agent starts fresh" | A message in flight writes the old context back; a failed flush is not noticed. Both last until the next clear. |

One more that no property needs: the `validate:"min=1,max=5"` tag of `UpdatePriority` (`handler/bank.go`) is never
consulted, so the REST route stores any priority; the assistant's tool does check it. And one that
`UnlinkedIsGone`, being about ids, does not deny: a pending unlink whose row was unlinked and linked again meanwhile
deletes no row, and is still reported as a success.

What holds beside the first table, the other passing runs state: that two transfers never get the same
money (`NoOverspend`), that deliveries one after the other are harmless, that a
completion is final.

## 6. What is not modelled, and why

* Wire formats, how a signature is computed, hashing, JSON, SQL text, logging, tracing, audit rows:
  no property depends on them. A provider's call succeeds, fails, or fails
  after it has acted.
* Listing, filtering, counting, health checks, getters: they change no state.
* Amounts are natural numbers; the code uses `int64` kobo, and validation keeps
  requests far below its limit.
* The wallet service's `DebitWallet`, `Hold` and `ReleaseHold` have no caller outside tests;
  the UPDATEs behind them are `WalletRow`.
* One `CompleteLink` and one `RefreshBalance` run at a time in `LinkedBanks` (they do interleave with
  each other and with everything else); one user at a time in `Chat` and `ChatHistory`.
* `ChangePIN` and `UpdateKYC` have no route; `RefreshToken` makes tokens no table keeps; `ParseIntent` has no caller.
* The recipient cache of the payout service: what two recipients for one account mean is Paystack's matter.
* Connecting to Postgres and Redis.
* In `Deposits`, who sent a charge. `PaystackDeposit` too verifies a signature only if there is one
  (`handler/wallet.go:258`); a charge of the model is a `provider_ref`, whoever reports it, and the properties are about
  what happens to it: that it is credited once, claimed once and not forgotten, not that Paystack knows it.
* In `LinkedBanks`, a user is one customer of Mono, as long as the sessions of `InitiateLink` name the same one.
* In `Pipeline`, two requests of different users with one key are not told apart, as in the code: the key does not name
  the user.
* Memory growth of the rate limiter is visible from the code, and not a property of
  a finite instance.
* What becomes of a payout whose commit is lost: the state is reachable in `transfer`, `KeyLedger` excuses
  the key from being paid once, and no document promises more.

## 7. Order of the work

The modules were written in the order of what matters most, each checked and then proved before
the next: `WalletRow`, `DebitPlan`, `TransferService` and `TransferBook`; `SourcingEngine`; `BankFunding`;
`Deposits`; `RateLimiter`, `Pipeline`, `AuthService` and `Migrations`; `LinkedBanks`, `Chat` and
`ChatHistory`; then what two of them promise each other, `KeyLedger` and `DepositLedger`. Worth
adding: the daily limit over several requests, once a document says what it promises; an abstract
specification of the cached response, as `KeyLedger` is one of the key behind it; the liveness
properties, whose safety halves are proved, when the prover reasons about fairness.
