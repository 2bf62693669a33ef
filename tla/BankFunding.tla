---------------------------- MODULE BankFunding ----------------------------
(***************************************************************************)
(* Topping up the wallet from a linked bank: WalletService.FundFromBank    *)
(* opens a payment session at Mono, the user authorises it at Mono's page, *)
(* Mono reports it by webhook, and CompleteFundFromBank credits the wallet *)
(* and marks the request completed.  Mono repeats a webhook until it is    *)
(* answered with 200, and may send it more than once; MonoDirectDebit also *)
(* takes a webhook that nobody signed.  Deliveries run concurrently and    *)
(* may die between any two of their statements.  Each statement is its own *)
(* database transaction.                                                   *)
(***************************************************************************)
EXTENDS Integers, Functions

CONSTANTS
    Fund,           \* calls of FundFromBank, of one user, within one day
    NoFund,         \* an idle handler serves no request
    Handler,        \* goroutines that serve Mono's webhooks
    AmountOf,       \* the amount of each request
    Bearer,         \* Mono's webhooks carry a token the Auth middleware takes
    Others,         \* clients other than Mono post webhooks too
    Usable,         \* requests whose account is the user's, active, verified
    MinAmount,      \* fundFromBankMinKobo
    MaxAmount,      \* fundFromBankMaxKobo
    DailyLimit,     \* fundFromBankDailyKobo
    MaxRepeats,     \* bound of the model: webhooks beyond those Mono owes
    MaxFaults       \* bound of the model: failed or lost handler runs

ASSUME FundAssumption ==
    /\ NoFund \notin Fund
    /\ AmountOf \in [Fund -> Nat]
    /\ {Bearer, Others} \subseteq BOOLEAN
    /\ Usable \subseteq Fund
    /\ {MinAmount, MaxAmount, DailyLimit, MaxRepeats, MaxFaults} \subseteq Nat

VARIABLES
    status,     \* the row of each request in bank_fund_requests
    call,       \* where each call of FundFromBank is
    url,        \* requests whose caller has been given the payment page
    session,    \* Mono's payment session of each request
    due,        \* requests whose webhook Mono has not seen answered with 200
    pc,         \* where each webhook handler is
    serves,     \* the request each handler works on
    route,      \* the endpoint the webhook came to
    credits,    \* how often the wallet was credited for each request
    overlapped, \* history: a delivery could not see that another had credited
    swallowed,  \* history: an error was answered to Mono with 200
    unsigned,   \* history: an unsigned webhook has named the request
    repeats,    \* webhooks sent again, or by another than Mono, so far
    faults      \* failed or lost handler runs so far

callvars == <<call, url, session>>
hvars == <<pc, serves, route>>
history == <<overlapped, swallowed, unsigned, repeats, faults>>
vars == <<status, callvars, due, hvars, credits, history>>

\* Mono calls "bank", MonoWebhook, which reports errors, or "direct",
\* MonoDirectDebit, which answers 200 whatever happens; "unsigned" is a webhook
\* at MonoDirectDebit whose sender is not Mono.
MonoRoutes == {"bank", "direct"}
Routes == MonoRoutes \cup {"unsigned"}

Init ==
    /\ status = [f \in Fund |-> "none"]
    /\ call = [f \in Fund |-> "check"]
    /\ url = {}
    /\ session = [f \in Fund |-> "none"]
    /\ due = {}
    /\ pc = [h \in Handler |-> "idle"]
    /\ serves = [h \in Handler |-> NoFund]
    /\ route = [h \in Handler |-> "bank"]
    /\ credits = [f \in Fund |-> 0]
    /\ overlapped = {}
    /\ swallowed = {}
    /\ unsigned = {}
    /\ repeats = 0
    /\ faults = 0

----------------------------------------------------------------------------
(* FundFromBank.                                                           *)

\* SumCompletedToday.
CompletedToday == SumFunctionOnSet(AmountOf, {f \in Fund : status[f] = "completed"})

Admitted(f) ==
    /\ AmountOf[f] \in MinAmount..MaxAmount
    /\ f \in Usable
    /\ CompletedToday + AmountOf[f] <= DailyLimit

\* The checks before anything is written.
Check(f) ==
    /\ call[f] = "check"
    /\ call' = [call EXCEPT ![f] = IF Admitted(f) THEN "create" ELSE "done"]
    /\ UNCHANGED <<status, url, session, due, hvars, credits, history>>

\* The request is stored as pending.
Create(f) ==
    /\ call[f] = "create"
    /\ status' = [status EXCEPT ![f] = "pending"]
    /\ call' = [call EXCEPT ![f] = "initiate"]
    /\ UNCHANGED <<url, session, due, hvars, credits, history>>

\* Seeded fault: the page is handed out before the answer is recorded.
InitiateEarly(f) ==
    /\ call[f] = "initiate"
    /\ session' = [session EXCEPT ![f] = "open"]
    /\ call' = [call EXCEPT ![f] = "record"]
    /\ url' = url \cup {f}
    /\ UNCHANGED <<status, due, hvars, credits, history>>

\* Mono opens a session and answers with its page.
Initiate(f) ==
    /\ call[f] = "initiate"
    /\ session' = [session EXCEPT ![f] = "open"]
    /\ call' = [call EXCEPT ![f] = "record"]
    /\ UNCHANGED <<status, url, due, hvars, credits, history>>

\* No client, no user, or PaymentInitiate returns an error, with or without a
\* session opened at Mono.
InitiateFails(f) ==
    /\ call[f] = "initiate"
    /\ \E s \in {"none", "open"} : session' = [session EXCEPT ![f] = s]
    /\ call' = [call EXCEPT ![f] = "fail"]
    /\ UNCHANGED <<status, url, due, hvars, credits, history>>

\* UpdateStatus(failed): its error is not looked at.
RecordFailure(f) ==
    /\ call[f] = "fail"
    /\ status' \in {status, [status EXCEPT ![f] = "failed"]}
    /\ call' = [call EXCEPT ![f] = "done"]
    /\ UNCHANGED <<url, session, due, hvars, credits, history>>

\* UpdateStatus(pending) with the provider reference, whatever the row says;
\* its error is not looked at.  Only then does the caller get the page.
RecordPending(f) ==
    /\ call[f] = "record"
    /\ status' \in {status, [status EXCEPT ![f] = "pending"]}
    /\ url' = url \cup {f}
    /\ call' = [call EXCEPT ![f] = "done"]
    /\ UNCHANGED <<session, due, hvars, credits, history>>

\* A query fails, the request times out or the process dies.
CallFails(f) ==
    /\ call[f] \in {"check", "create", "initiate", "fail", "record"}
    /\ call' = [call EXCEPT ![f] = "done"]
    /\ UNCHANGED <<status, url, session, due, hvars, credits, history>>

----------------------------------------------------------------------------
(* The user and Mono.                                                      *)

\* The user authorises the debit on the page.
Pay(f) ==
    /\ f \in url
    /\ session[f] = "open"
    /\ session' = [session EXCEPT ![f] = "paid"]
    /\ due' = due \cup {f}
    /\ UNCHANGED <<status, call, url, hvars, credits, history>>

\* A handler starts on a webhook that came to an endpoint.
Receive(h, f, to) ==
    /\ pc[h] = "idle"
    /\ pc' = [pc EXCEPT ![h] = "read"]
    /\ serves' = [serves EXCEPT ![h] = f]
    /\ route' = [route EXCEPT ![h] = to]
    /\ UNCHANGED <<status, callvars, due, credits, overlapped, swallowed, faults>>

\* The Auth middleware runs before the webhook routes, which are not among its
\* bypass paths: without a token the answer is 401 and no handler runs.
FromMono(h, f) ==
    /\ Bearer
    /\ \E to \in MonoRoutes : Receive(h, f, to)
    /\ UNCHANGED unsigned

\* A webhook that has not been answered with 200 is sent (again) when none of
\* its deliveries is under way.
Deliver(h, f) ==
    /\ f \in due
    /\ \A g \in Handler : serves[g] = f => route[g] = "unsigned"
    /\ FromMono(h, f)
    /\ UNCHANGED repeats

\* Mono repeats a webhook though it is answered, or before it is.
Repeat(h, f) ==
    /\ session[f] = "paid"
    /\ repeats < MaxRepeats
    /\ repeats' = repeats + 1
    /\ FromMono(h, f)

\* MonoDirectDebit checks the signature of a webhook only if there is one: it
\* also serves a webhook of a client with a token of its own, for any reference
\* FundFromBank has handed out, whatever Mono's session of it is.
Unsigned(h, f) ==
    /\ Others
    /\ f \in url
    /\ repeats < MaxRepeats
    /\ repeats' = repeats + 1
    /\ unsigned' = unsigned \cup {f}
    /\ Receive(h, f, "unsigned")

----------------------------------------------------------------------------
(* CompleteFundFromBank, called by MonoWebhook and MonoDirectDebit.        *)

\* Seeded fault: the handler is free again but keeps its delivery.
ReleaseHalf(h) == pc' = [pc EXCEPT ![h] = "idle"] /\ UNCHANGED <<serves, route>>

\* The handler is done with its delivery.
Release(h) ==
    /\ pc' = [pc EXCEPT ![h] = "idle"]
    /\ serves' = [serves EXCEPT ![h] = NoFund]
    /\ UNCHANGED route

\* Mono learns of a 200, and sends this webhook no more, if it was Mono's.
Acknowledge(h) == due' = IF route[h] = "unsigned" THEN due ELSE due \ {serves[h]}

\* Deliveries of f that have seen the request open and not yet closed it.
Crediting(f) == {g \in Handler : serves[g] = f /\ pc[g] \in {"credit", "mark"}}

\* Seeded fault: the status is not looked at.
ReadStatusIgnored(h) ==
    /\ pc[h] = "read"
    /\ pc' = [pc EXCEPT ![h] = "credit"]
    /\ overlapped' = IF Crediting(serves[h]) = {} THEN overlapped
                                                  ELSE overlapped \cup {serves[h]}
    /\ UNCHANGED <<status, callvars, due, serves, route, credits, swallowed,
                   unsigned, repeats, faults>>

\* GetByReference: a request that is unknown or completed is answered with 200
\* and nothing else happens.
ReadStatus(h) ==
    /\ pc[h] = "read"
    /\ \/ /\ status[serves[h]] \in {"none", "completed"}
          /\ Release(h)
          /\ Acknowledge(h)
          /\ UNCHANGED overlapped
       \/ /\ status[serves[h]] \notin {"none", "completed"}
          /\ pc' = [pc EXCEPT ![h] = "credit"]
          /\ overlapped' = IF Crediting(serves[h]) = {} THEN overlapped
                                                        ELSE overlapped \cup {serves[h]}
          /\ UNCHANGED <<serves, route, due>>
    /\ UNCHANGED <<status, callvars, credits, swallowed, unsigned, repeats, faults>>

\* Seeded fault: the request is closed first.
CreditLater(h) ==
    /\ pc[h] = "credit"
    /\ status' = [status EXCEPT ![serves[h]] = "completed"]
    /\ pc' = [pc EXCEPT ![h] = "mark"]
    /\ UNCHANGED <<callvars, due, serves, route, credits, history>>

\* CreditWallet: one UPDATE of the wallets row.
Credit(h) ==
    /\ pc[h] = "credit"
    /\ credits' = [credits EXCEPT ![serves[h]] = @ + 1]
    /\ pc' = [pc EXCEPT ![h] = "mark"]
    /\ UNCHANGED <<status, callvars, due, serves, route, history>>

\* UpdateStatus(completed), and the 200.
MarkCompleted(h) ==
    /\ pc[h] = "mark"
    /\ status' = [status EXCEPT ![serves[h]] = "completed"]
    /\ Acknowledge(h)
    /\ Release(h)
    /\ UNCHANGED <<callvars, credits, history>>

Fault ==
    /\ faults < MaxFaults
    /\ faults' = faults + 1

\* Seeded fault: both endpoints answer an error with 200.
CompleteFailsAcknowledged(h) ==
    /\ pc[h] \in {"read", "credit"}
    /\ Fault
    /\ due' = due \ {serves[h]}
    /\ Release(h)
    /\ UNCHANGED <<status, callvars, credits, overlapped, swallowed, unsigned,
                   repeats>>

\* The read or the credit fails: MonoWebhook answers 500 and Mono will send
\* the webhook again, MonoDirectDebit answers 200 and it will not.
CompleteFails(h) ==
    /\ pc[h] \in {"read", "credit"}
    /\ Fault
    /\ IF route[h] = "direct"
         THEN Acknowledge(h) /\ swallowed' = swallowed \cup {serves[h]}
         ELSE UNCHANGED <<due, swallowed>>
    /\ Release(h)
    /\ UNCHANGED <<status, callvars, credits, overlapped, unsigned, repeats>>

\* UpdateStatus(completed) fails after the credit: logged, answered with 200.
MarkFails(h) ==
    /\ pc[h] = "mark"
    /\ Fault
    /\ Acknowledge(h)
    /\ overlapped' = overlapped \cup {serves[h]}
    /\ Release(h)
    /\ UNCHANGED <<status, callvars, credits, swallowed, unsigned,
                   repeats>>

\* The handler dies, or is cut off by the Timeout middleware: no 200.
Crash(h) ==
    /\ pc[h] # "idle"
    /\ Fault
    /\ overlapped' = IF pc[h] = "mark" THEN overlapped \cup {serves[h]} ELSE overlapped
    /\ Release(h)
    /\ UNCHANGED <<status, callvars, due, credits, swallowed, unsigned,
                   repeats>>

HandlerStep(h) == ReadStatus(h) \/ Credit(h) \/ MarkCompleted(h)

Next ==
    \/ \E f \in Fund :
            \/ Check(f) \/ Create(f) \/ Initiate(f) \/ InitiateFails(f)
            \/ RecordFailure(f) \/ RecordPending(f) \/ CallFails(f) \/ Pay(f)
    \/ \E h \in Handler, f \in Fund :
            Deliver(h, f) \/ Repeat(h, f) \/ Unsigned(h, f)
    \/ \E h \in Handler :
            HandlerStep(h) \/ CompleteFails(h) \/ MarkFails(h) \/ Crash(h)

Spec == Init /\ [][Next]_vars

\* A handler that is running goes on, and Mono keeps sending what has not been
\* answered with 200.  The user may never pay.
FairSpec ==
    /\ Spec
    /\ \A h \in Handler : WF_vars(HandlerStep(h))
    /\ \A f \in Fund : WF_vars(\E h \in Handler : Deliver(h, f))

----------------------------------------------------------------------------
(* Properties.                                                             *)

\* Every variable has its type, and a busy handler has a request.
TypeOK ==
    /\ status \in [Fund -> {"none", "pending", "completed", "failed"}]
    /\ call \in [Fund -> {"check", "create", "initiate", "fail", "record", "done"}]
    /\ url \subseteq Fund
    /\ session \in [Fund -> {"none", "open", "paid"}]
    /\ due \subseteq Fund
    /\ pc \in [Handler -> {"idle", "read", "credit", "mark"}]
    /\ serves \in [Handler -> Fund \cup {NoFund}]
    /\ \A h \in Handler : pc[h] = "idle" <=> serves[h] = NoFund
    /\ route \in [Handler -> Routes]
    /\ credits \in [Fund -> Nat]
    /\ overlapped \subseteq Fund
    /\ swallowed \subseteq Fund
    /\ unsigned \subseteq Fund
    /\ repeats \in Nat
    /\ faults \in Nat

\* The row of a request tells the truth about the money: completed means that
\* the wallet was credited, failed that nothing was paid or credited.  The
\* wallet is not credited for a debit the user has not authorised, but for the
\* references that an unsigned webhook has named, which MonoDirectDebit takes
\* although ARCHITECTURE.md says "Webhook signatures verified".
StatusMatchesMoney ==
    \A f \in Fund :
        /\ status[f] = "completed" => credits[f] > 0
        /\ status[f] = "failed" => session[f] # "paid" /\ credits[f] = 0
        /\ credits[f] > 0 => session[f] = "paid" \/ f \in unsigned

\* No write of FundFromBank, which never looks at the row again, reopens or
\* fails a request that a webhook has completed.
CompletedIsFinal ==
    [][\A f \in Fund : status[f] = "completed" => status'[f] = "completed"]_vars

\* Deliveries that do not overlap and are recorded credit a request once, in
\* whatever number and order they come.
SeparateDeliveriesCreditOnce ==
    \A f \in Fund \ overlapped : credits[f] <= 1

\* A debit the user has authorised is credited in the end, unless an error was
\* answered with 200 (for webhooks that the Auth middleware lets through).
PaidIsCredited ==
    \A f \in Fund : session[f] = "paid" ~> credits[f] > 0 \/ f \in swallowed

\* wallet_service.go, FundFromBank: "Mono fires "payment.successful" on
\* completion, which triggers CompleteFundFromBank to credit the wallet".
CompletionCreditsTheWallet ==
    \A f \in Fund : session[f] = "paid" ~> credits[f] > 0

\* wallet_service.go, CompleteFundFromBank: "It is idempotent".
CreditedOnce == \A f \in Fund : credits[f] <= 1

=============================================================================
