------------------------------ MODULE Deposits ------------------------------
(***************************************************************************)
(* Deposits by bank transfer.  WalletService.IssueWalletAccount gives the  *)
(* user a dedicated virtual account at Paystack; money sent to it comes    *)
(* back as a `charge.success` webhook, and ProcessDepositWebhook records   *)
(* the deposit and credits the wallet.  Each statement is its own database *)
(* transaction; calls and deliveries run concurrently and may fail or die  *)
(* between any two of them.                                                *)
(*                                                                         *)
(* One user, and the webhooks that reach the handler: what the Auth        *)
(* middleware does to the others is in BankFunding.                        *)
(***************************************************************************)
EXTENDS Integers, FiniteSets

CONSTANTS
    Call,           \* calls of IssueWalletAccount
    Number,         \* account numbers Paystack may assign to the customer
    NoNumber,
    Charge,         \* transfers the user's senders make
    NoCharge,       \* an idle handler serves no charge
    Handler,        \* goroutines that serve Paystack's webhooks
    AmountOf,       \* the amount of each charge
    FeeOf,          \* what Paystack keeps of it
    MaxRepeats,     \* bound of the model: webhooks sent more than once
    MaxFaults       \* bound of the model: failed or lost handler runs

ASSUME DepositAssumption ==
    /\ NoNumber \notin Number
    /\ NoCharge \notin Charge
    /\ AmountOf \in [Charge -> Nat]
    /\ FeeOf \in [Charge -> Nat]
    /\ MaxRepeats \in Nat
    /\ MaxFaults \in Nat

VARIABLES
    accounts,   \* the numbers in wallet_accounts
    newest,     \* the one stored last
    issue,      \* where each call of IssueWalletAccount is
    got,        \* the number Paystack has assigned to it
    shown,      \* numbers a caller has been given
    to,         \* the account each charge was made to
    recorded,   \* the charges in wallet_deposits, all of them COMPLETED
    credits,    \* how often the wallet was credited for each charge
    due,        \* charges whose webhook Paystack has not seen answered with 200
    pc,         \* where each webhook handler is
    serves,     \* the charge each handler works on
    failed,     \* history: charges of which a handler run failed
    repeats,    \* webhooks sent again so far
    faults      \* failed or lost handler runs so far

issuevars == <<accounts, newest, issue, got, shown>>
depositvars == <<to, recorded, credits, due, pc, serves, failed, repeats, faults>>
vars == <<issuevars, depositvars>>

Init ==
    /\ accounts = {}
    /\ newest = NoNumber
    /\ issue = [k \in Call |-> "look"]
    /\ got = [k \in Call |-> NoNumber]
    /\ shown = {}
    /\ to = [c \in Charge |-> NoNumber]
    /\ recorded = {}
    /\ credits = [c \in Charge |-> 0]
    /\ due = {}
    /\ pc = [h \in Handler |-> "idle"]
    /\ serves = [h \in Handler |-> NoCharge]
    /\ failed = {}
    /\ repeats = 0
    /\ faults = 0

----------------------------------------------------------------------------
(* IssueWalletAccount.                                                     *)

\* GetWalletAccountByUserID: the newest account, if there is one, is the answer.
Look(k) ==
    /\ issue[k] = "look"
    /\ \/ /\ accounts = {}
          /\ issue' = [issue EXCEPT ![k] = "assign"]
          /\ UNCHANGED shown
       \/ /\ accounts # {}
          /\ issue' = [issue EXCEPT ![k] = "done"]
          /\ shown' = shown \cup {newest}
    /\ UNCHANGED <<accounts, newest, got, depositvars>>

\* Seeded fault: the caller gets the number before it is stored.
AssignShown(k) ==
    /\ issue[k] = "assign"
    /\ \E n \in Number : got' = [got EXCEPT ![k] = n] /\ shown' = shown \cup {n}
    /\ issue' = [issue EXCEPT ![k] = "save"]
    /\ UNCHANGED <<accounts, newest, depositvars>>

\* CreateCustomer and AssignDVA: Paystack may answer a second call with a new
\* number or with the one the customer has.
Assign(k) ==
    /\ issue[k] = "assign"
    /\ \E n \in Number : got' = [got EXCEPT ![k] = n]
    /\ issue' = [issue EXCEPT ![k] = "save"]
    /\ UNCHANGED <<accounts, newest, shown, depositvars>>

\* CreateWalletAccount: account numbers are UNIQUE, a second insert of the same
\* number is an error.
Save(k) ==
    /\ issue[k] = "save"
    /\ IF got[k] \in accounts
         THEN UNCHANGED <<accounts, newest, shown>>
         ELSE /\ accounts' = accounts \cup {got[k]}
              /\ newest' = got[k]
              /\ shown' = shown \cup {got[k]}
    /\ issue' = [issue EXCEPT ![k] = "done"]
    /\ UNCHANGED <<got, depositvars>>

\* No Paystack client, no user, a call or a statement that fails or whose
\* answer is lost, or the end of the process.
IssueFails(k) ==
    /\ issue[k] # "done"
    /\ issue' = [issue EXCEPT ![k] = "done"]
    /\ \/ UNCHANGED <<accounts, newest>>
       \/ /\ issue[k] = "save"
          /\ got[k] \notin accounts
          /\ accounts' = accounts \cup {got[k]}
          /\ newest' = got[k]
    /\ UNCHANGED <<got, shown, depositvars>>

----------------------------------------------------------------------------
(* The senders and Paystack.                                               *)

Pay(c) ==
    /\ to[c] = NoNumber
    /\ \E n \in shown : to' = [to EXCEPT ![c] = n]
    /\ due' = due \cup {c}
    /\ UNCHANGED <<issuevars, recorded, credits, pc, serves, failed, repeats, faults>>

Receive(h, c) ==
    /\ pc[h] = "idle"
    /\ pc' = [pc EXCEPT ![h] = "lookup"]
    /\ serves' = [serves EXCEPT ![h] = c]
    /\ UNCHANGED <<issuevars, to, recorded, credits, due, failed, faults>>

\* A webhook that has not been answered with 200 is sent (again).
Deliver(h, c) ==
    /\ c \in due
    /\ \A g \in Handler : serves[g] # c
    /\ Receive(h, c)
    /\ UNCHANGED repeats

\* Paystack repeats a webhook though it is answered, or before it is.
Repeat(h, c) ==
    /\ to[c] # NoNumber
    /\ repeats < MaxRepeats
    /\ repeats' = repeats + 1
    /\ Receive(h, c)

----------------------------------------------------------------------------
(* PaystackDeposit and ProcessDepositWebhook.                              *)

\* Seeded fault: the handler is free again but keeps its delivery.
ReleaseHalf(h) == pc' = [pc EXCEPT ![h] = "idle"] /\ UNCHANGED serves

\* The handler is done with its delivery.
Release(h) ==
    /\ pc' = [pc EXCEPT ![h] = "idle"]
    /\ serves' = [serves EXCEPT ![h] = NoCharge]

\* The answer is 200, "to prevent Paystack from retrying", whether
\* ProcessDepositWebhook returned an error or not.
Answer(h) ==
    /\ due' = due \ {serves[h]}
    /\ Release(h)

\* Seeded fault: the account is looked up as the user's newest one.
LookupNewest(h) ==
    /\ pc[h] = "lookup"
    /\ \/ /\ to[serves[h]] = newest
          /\ pc' = [pc EXCEPT ![h] = "record"]
          /\ UNCHANGED <<due, serves>>
       \/ /\ to[serves[h]] # newest
          /\ Answer(h)
    /\ UNCHANGED <<issuevars, to, recorded, credits, failed, repeats, faults>>

\* GetWalletAccountByNumber.
Lookup(h) ==
    /\ pc[h] = "lookup"
    /\ \/ /\ to[serves[h]] \in accounts
          /\ pc' = [pc EXCEPT ![h] = "record"]
          /\ UNCHANGED <<due, serves>>
       \/ /\ to[serves[h]] \notin accounts
          /\ Answer(h)
    /\ UNCHANGED <<issuevars, to, recorded, credits, failed, repeats, faults>>

\* Seeded fault: a reference that is already there is no error.
RecordAgain(h) ==
    /\ pc[h] = "record"
    /\ recorded' = recorded \cup {serves[h]}
    /\ pc' = [pc EXCEPT ![h] = "credit"]
    /\ UNCHANGED <<issuevars, to, credits, due, serves, failed, repeats, faults>>

\* RecordDeposit: provider_ref is UNIQUE, so the insert of a charge that has a
\* row is an error, which ends the run.
Record(h) ==
    /\ pc[h] = "record"
    /\ \/ /\ serves[h] \notin recorded
          /\ recorded' = recorded \cup {serves[h]}
          /\ pc' = [pc EXCEPT ![h] = "credit"]
          /\ UNCHANGED <<due, serves>>
       \/ /\ serves[h] \in recorded
          /\ Answer(h)
          /\ UNCHANGED recorded
    /\ UNCHANGED <<issuevars, to, credits, failed, repeats, faults>>

\* What is left for the wallet.
Net(c) == IF AmountOf[c] < FeeOf[c] THEN 0 ELSE AmountOf[c] - FeeOf[c]

\* GetByUserID, whose answer does not change, and CreditWallet, which refuses
\* to credit nothing.
Credit(h) ==
    /\ pc[h] = "credit"
    /\ credits' = IF Net(serves[h]) > 0
                    THEN [credits EXCEPT ![serves[h]] = @ + 1] ELSE credits
    /\ Answer(h)
    /\ UNCHANGED <<issuevars, to, recorded, failed, repeats, faults>>

Fault(h) ==
    /\ pc[h] # "idle"
    /\ faults < MaxFaults
    /\ faults' = faults + 1
    /\ failed' = failed \cup {serves[h]}

\* A statement fails, or has been executed and its answer is lost.
ProcessFails(h) ==
    /\ Fault(h)
    /\ \/ UNCHANGED <<recorded, credits>>
       \/ /\ pc[h] = "record"
          /\ recorded' = recorded \cup {serves[h]}
          /\ UNCHANGED credits
       \/ /\ pc[h] = "credit"
          /\ Net(serves[h]) > 0
          /\ credits' = [credits EXCEPT ![serves[h]] = @ + 1]
          /\ UNCHANGED recorded
    /\ Answer(h)
    /\ UNCHANGED <<issuevars, to, repeats>>

\* Seeded fault: the row of a run that dies is undone, as in one transaction.
CrashUndone(h) ==
    /\ Fault(h)
    /\ recorded' = recorded \ {serves[h]}
    /\ Release(h)
    /\ UNCHANGED <<issuevars, to, credits, due, repeats>>

\* The handler dies or is cut off by the Timeout middleware: no 200.
Crash(h) ==
    /\ Fault(h)
    /\ Release(h)
    /\ UNCHANGED <<issuevars, to, recorded, credits, due, repeats>>

HandlerStep(h) == Lookup(h) \/ Record(h) \/ Credit(h)

Next ==
    \/ \E k \in Call : Look(k) \/ Assign(k) \/ Save(k) \/ IssueFails(k)
    \/ \E c \in Charge : Pay(c)
    \/ \E h \in Handler, c \in Charge : Deliver(h, c) \/ Repeat(h, c)
    \/ \E h \in Handler : HandlerStep(h) \/ ProcessFails(h) \/ Crash(h)

Spec == Init /\ [][Next]_vars

\* A handler that is running goes on, and Paystack keeps sending what has not
\* been answered with 200.  Nobody has to ask for an account or to pay.
FairSpec ==
    /\ Spec
    /\ \A h \in Handler : WF_vars(HandlerStep(h))
    /\ \A c \in Charge : WF_vars(\E h \in Handler : Deliver(h, c))

----------------------------------------------------------------------------
(* Properties.                                                             *)

\* Every variable has its type, and a busy handler has a charge.
TypeOK ==
    /\ accounts \subseteq Number
    /\ newest \in Number \cup {NoNumber}
    /\ issue \in [Call -> {"look", "assign", "save", "done"}]
    /\ got \in [Call -> Number \cup {NoNumber}]
    /\ shown \subseteq Number
    /\ to \in [Charge -> Number \cup {NoNumber}]
    /\ recorded \subseteq Charge
    /\ credits \in [Charge -> Nat]
    /\ due \subseteq Charge
    /\ pc \in [Handler -> {"idle", "lookup", "record", "credit"}]
    /\ serves \in [Handler -> Charge \cup {NoCharge}]
    /\ \A h \in Handler : pc[h] = "idle" <=> serves[h] = NoCharge
    /\ failed \subseteq Charge
    /\ repeats \in Nat
    /\ faults \in Nat

\* However often and however concurrently a webhook is delivered, its charge is
\* credited at most once: the UNIQUE row, written first, lets one run through.
CreditedAtMostOnce == \A c \in Charge : credits[c] <= 1

\* A number that was given to a caller is stored, whatever races and failures
\* there were, so a charge made to it is never dropped as "not found".
ShownIsKnown == shown \subseteq accounts

\* The run that has written the row of c has not ended: it will credit c.
InHand(c) == \E h \in Handler : serves[h] = c /\ pc[h] = "credit"

\* The claim a charge has on the wallet is its row in wallet_deposits.
Claims == [c \in Charge |-> IF c \notin recorded THEN "open"
                            ELSE IF InHand(c) THEN "held" ELSE "spent"]

Ledger == INSTANCE DepositLedger WITH claim <- Claims

\* ProcessDepositWebhook, service/wallet_service.go: a charge is claimed by one
\* run, which credits it or does not, and that is the end of it: deliveries
\* that race, fail, die or come again add no credit and bring no claim back.
ClaimsAreLedger == Ledger!Spec

\* The row of c was written, and the run that wrote it is gone.
Lost(c) ==
    /\ c \in recorded
    /\ credits[c] = 0
    /\ ~InHand(c)

\* The price of that order: a deposit whose run ended between the row and the
\* credit stays without it, whatever is retried or delivered later.
LostStaysLost == [][\A c \in Charge : Lost(c) => Lost(c)']_vars

\* A charge that leaves something for the wallet is credited in the end,
\* unless one of its handler runs failed.
DepositArrives ==
    \A c \in Charge :
        to[c] # NoNumber /\ Net(c) > 0 ~> credits[c] > 0 \/ c \in failed

=============================================================================
