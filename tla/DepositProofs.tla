---------------------------- MODULE DepositProofs ----------------------------
(***************************************************************************)
(* Proofs about Deposits, for any number of calls, numbers, charges,       *)
(* handlers, repeats and faults.  The row in wallet_deposits works as a    *)
(* lock that is never released: at most one run is ever past it, and that  *)
(* run finds the charge uncredited (RowInv).  AccountInv says the same of  *)
(* the account numbers: they are stored before anybody sees them.          *)
(***************************************************************************)
EXTENDS Deposits, TLAPS

\* What is shown is stored, and a call that is about to store has a number.
AccountInv ==
    /\ ShownIsKnown
    /\ accounts # {} => newest \in accounts
    /\ \A k \in Call : issue[k] = "save" => got[k] \in Number

\* One run at a time is past the row of a charge, before its only credit.
RowInv ==
    /\ \A h \in Handler : pc[h] = "credit" =>
            serves[h] \in recorded /\ credits[serves[h]] = 0
    /\ \A g, h \in Handler :
            pc[g] = "credit" /\ pc[h] = "credit" /\ serves[g] = serves[h] => g = h
    /\ \A c \in Charge : credits[c] > 0 => credits[c] = 1 /\ c \in recorded

DInv == TypeOK /\ AccountInv /\ RowInv

----------------------------------------------------------------------------

\* The initial state satisfies the invariant.
LEMMA InitDInv == Init => DInv
  BY DepositAssumption DEF Init, DInv, TypeOK, AccountInv, ShownIsKnown, RowInv

\* Issuing accounts does not touch the deposits.
LEMMA IssueKeeps ==
    ASSUME DInv, NEW k \in Call, Look(k) \/ Assign(k) \/ Save(k) \/ IssueFails(k)
    PROVE  DInv' /\ UNCHANGED depositvars
  <1> USE DEF DInv, issuevars
  <1>1. UNCHANGED depositvars
    BY DEF Look, Assign, Save, IssueFails
  <1>2. TypeOK' /\ AccountInv'
    <2>1. CASE Look(k)
      BY <2>1, <1>1 DEF Look, TypeOK, AccountInv, ShownIsKnown, depositvars
    <2>2. CASE Assign(k)
      BY <2>2, <1>1 DEF Assign, TypeOK, AccountInv, ShownIsKnown, depositvars
    <2>3. CASE Save(k)
      BY <2>3, <1>1 DEF Save, TypeOK, AccountInv, ShownIsKnown, depositvars
    <2>4. CASE IssueFails(k)
      BY <2>4, <1>1 DEF IssueFails, TypeOK, AccountInv, ShownIsKnown, depositvars
    <2> QED  BY <2>1, <2>2, <2>3, <2>4
  <1>3. RowInv'
    BY <1>1 DEF RowInv, depositvars
  <1> QED  BY <1>1, <1>2, <1>3

\* A charge is made: nothing has been written about it.
LEMMA PayKeeps ==
    ASSUME DInv, NEW c \in Charge, Pay(c)
    PROVE  DInv' /\ UNCHANGED <<recorded, credits, pc, serves>>
  <1>1. TypeOK'
    BY DEF DInv, Pay, TypeOK, issuevars
  <1>2. AccountInv' /\ RowInv'
    BY DEF DInv, Pay, AccountInv, ShownIsKnown, RowInv, issuevars
  <1> QED  BY <1>1, <1>2 DEF DInv, Pay

\* A delivery begins at the first statement, before any row.
LEMMA ReceiveKeeps ==
    ASSUME DInv, NEW h \in Handler, NEW c \in Charge, Receive(h, c),
           repeats' \in Nat
    PROVE  DInv' /\ UNCHANGED <<recorded, credits>>
  <1>1. TypeOK'
    BY DepositAssumption DEF DInv, Receive, TypeOK, issuevars
  <1>2. AccountInv'
    BY DEF DInv, Receive, AccountInv, ShownIsKnown, issuevars
  <1>3. RowInv'
    BY DEF DInv, TypeOK, Receive, RowInv
  <1> QED  BY <1>1, <1>2, <1>3 DEF DInv, Receive

\* A run that ends leaves the other runs where they are.
LEMMA ReleaseKeeps ==
    ASSUME TypeOK, NEW h \in Handler, Release(h)
    PROVE  /\ pc' \in [Handler -> {"idle", "lookup", "record", "credit"}]
           /\ serves' \in [Handler -> Charge \cup {NoCharge}]
           /\ \A g \in Handler : pc'[g] = "idle" <=> serves'[g] = NoCharge
           /\ pc'[h] = "idle"
           /\ \A g \in Handler : g # h => pc'[g] = pc[g] /\ serves'[g] = serves[g]
  BY DEF TypeOK, Release

\* Looking up the account writes nothing.
LEMMA LookupKeeps ==
    ASSUME DInv, NEW h \in Handler, Lookup(h)
    PROVE  DInv'
  <1> USE DEF DInv, Lookup, issuevars
  <1>0. UNCHANGED <<issuevars, to, recorded, credits, failed, repeats, faults>>
    OBVIOUS
  <1>1. AccountInv'
    BY <1>0 DEF AccountInv, ShownIsKnown
  <1>2. CASE to[serves[h]] \in accounts /\ pc' = [pc EXCEPT ![h] = "record"]
              /\ UNCHANGED <<due, serves>>
    <2>1. TypeOK'
      BY <1>0, <1>2 DEF TypeOK
    <2>2. RowInv'
      BY <1>0, <1>2 DEF TypeOK, RowInv
    <2> QED  BY <1>1, <2>1, <2>2
  <1>3. CASE Answer(h)
    <2>1. TypeOK'
      BY <1>0, <1>3, ReleaseKeeps DEF Answer, TypeOK
    <2>2. RowInv'
      BY <1>0, <1>3, ReleaseKeeps DEF Answer, RowInv
    <2> QED  BY <1>1, <2>1, <2>2
  <1> QED  BY <1>2, <1>3

\* The row is written by one run only; it finds the charge uncredited.
LEMMA RecordKeeps ==
    ASSUME DInv, NEW h \in Handler, Record(h)
    PROVE  DInv'
  <1> USE DEF DInv, Record, issuevars
  <1>0. /\ UNCHANGED <<issuevars, to, credits, failed, repeats, faults>>
        /\ pc[h] = "record" /\ serves[h] \in Charge
    BY DepositAssumption DEF TypeOK
  <1>1. AccountInv'
    BY <1>0 DEF AccountInv, ShownIsKnown
  <1>2. CASE /\ serves[h] \notin recorded
             /\ recorded' = recorded \cup {serves[h]}
             /\ pc' = [pc EXCEPT ![h] = "credit"]
             /\ UNCHANGED <<due, serves>>
    <2>1. TypeOK'
      BY <1>0, <1>2 DEF TypeOK
    <2>2. credits[serves[h]] = 0
      BY <1>0, <1>2 DEF TypeOK, RowInv
    <2>3. RowInv'
      BY <1>0, <1>2, <2>2 DEF TypeOK, RowInv
    <2> QED  BY <1>1, <2>1, <2>3
  <1>3. CASE Answer(h) /\ UNCHANGED recorded
    <2>1. TypeOK'
      BY <1>0, <1>3, ReleaseKeeps DEF Answer, TypeOK
    <2>2. RowInv'
      BY <1>0, <1>3, ReleaseKeeps DEF Answer, RowInv
    <2> QED  BY <1>1, <2>1, <2>2
  <1> QED  BY <1>2, <1>3

\* The only credit of a charge: the run is gone afterwards, and its row stays.
LEMMA CreditKeeps ==
    ASSUME DInv, NEW h \in Handler, pc[h] = "credit", Answer(h),
           UNCHANGED <<issuevars, to, recorded, repeats>>,
           credits' \in {credits, [credits EXCEPT ![serves[h]] = @ + 1]},
           faults' \in Nat, failed' \subseteq Charge
    PROVE  DInv'
  <1>0. serves[h] \in Charge /\ credits[serves[h]] = 0 /\ serves[h] \in recorded
    BY DEF DInv, TypeOK, RowInv
  <1>1. TypeOK'
    BY <1>0, ReleaseKeeps DEF DInv, Answer, TypeOK, issuevars
  <1>2. AccountInv'
    BY DEF DInv, AccountInv, ShownIsKnown, issuevars
  <1>3. RowInv'
    <2>1. \A g \in Handler : pc'[g] = "credit" =>
              /\ g # h /\ pc[g] = "credit" /\ serves'[g] = serves[g]
              /\ serves[g] # serves[h] /\ serves[g] \in Charge
      BY <1>0, ReleaseKeeps DEF DInv, Answer, TypeOK, RowInv
    <2>2. \A c \in Charge : c # serves[h] => credits'[c] = credits[c]
      BY <1>0 DEF DInv, TypeOK
    <2>3. credits'[serves[h]] \in {0, 1}
      BY <1>0 DEF DInv, TypeOK
    <2> QED  BY <1>0, <2>1, <2>2, <2>3 DEF DInv, RowInv, TypeOK
  <1> QED  BY <1>1, <1>2, <1>3 DEF DInv

\* A run that fails or dies may leave its row or its credit behind.
LEMMA FailKeeps ==
    ASSUME DInv, NEW h \in Handler, ProcessFails(h) \/ Crash(h)
    PROVE  DInv'
  <1>0. /\ pc[h] # "idle" /\ serves[h] \in Charge
        /\ faults' \in Nat /\ failed' \subseteq Charge
        /\ UNCHANGED <<issuevars, to, repeats>>
        /\ Release(h) /\ due' \subseteq Charge
    BY DepositAssumption DEF DInv, TypeOK, ProcessFails, Crash, Fault, Answer
  <1>1. AccountInv'
    BY <1>0 DEF DInv, AccountInv, ShownIsKnown, issuevars
  <1>2. CASE UNCHANGED credits /\ recorded \subseteq recorded' /\ recorded' \subseteq Charge
    <2>1. TypeOK'
      BY <1>0, <1>2, ReleaseKeeps DEF DInv, TypeOK, issuevars
    <2>2. RowInv'
      BY <1>0, <1>2, ReleaseKeeps DEF DInv, RowInv
    <2> QED  BY <1>1, <2>1, <2>2 DEF DInv
  <1>3. CASE /\ pc[h] = "credit" /\ Answer(h) /\ UNCHANGED recorded
             /\ credits' = [credits EXCEPT ![serves[h]] = @ + 1]
    BY <1>0, <1>3, CreditKeeps
  <1> QED
    BY <1>0, <1>2, <1>3 DEF ProcessFails, Crash, DInv, TypeOK

\* Every step of a handler keeps the invariant.
LEMMA HandlerKeeps ==
    ASSUME DInv, NEW h \in Handler, HandlerStep(h) \/ ProcessFails(h) \/ Crash(h)
    PROVE  DInv'
  <1>1. CASE Credit(h)
    <2>1. failed' \subseteq Charge /\ faults' \in Nat
      BY <1>1 DEF Credit, DInv, TypeOK
    <2> QED  BY <1>1, <2>1, CreditKeeps DEF Credit
  <1> QED  BY <1>1, LookupKeeps, RecordKeeps, FailKeeps DEF HandlerStep

\* The invariant is inductive.
LEMMA StepDInv == DInv /\ [Next]_vars => DInv'
  <1> SUFFICES ASSUME DInv, [Next]_vars PROVE DInv'
    OBVIOUS
  <1>1. CASE UNCHANGED vars
    BY <1>1 DEF vars, issuevars, depositvars, DInv, TypeOK, AccountInv,
       ShownIsKnown, RowInv
  <1>2. ASSUME NEW k \in Call, Look(k) \/ Assign(k) \/ Save(k) \/ IssueFails(k)
        PROVE  DInv'
    BY <1>2, IssueKeeps
  <1>3. ASSUME NEW c \in Charge, Pay(c) PROVE DInv'
    BY <1>3, PayKeeps
  <1>4. ASSUME NEW h \in Handler, NEW c \in Charge, Deliver(h, c) \/ Repeat(h, c)
        PROVE  DInv'
    <2>1. Receive(h, c) /\ repeats' \in Nat
      BY <1>4 DEF Deliver, Repeat, DInv, TypeOK
    <2> QED  BY <2>1, ReceiveKeeps
  <1>5. ASSUME NEW h \in Handler, HandlerStep(h) \/ ProcessFails(h) \/ Crash(h)
        PROVE  DInv'
    BY <1>5, HandlerKeeps
  <1> QED  BY <1>1, <1>2, <1>3, <1>4, <1>5 DEF Next

\* The invariant holds in every reachable state.
THEOREM DInvAlways == Spec => []DInv
  BY InitDInv, StepDInv, PTL DEF Spec

\* Type correctness of the deposit model.
THEOREM DepositTypeCorrect == Spec => []TypeOK
  <1>1. DInv => TypeOK
    BY DEF DInv
  <1> QED  BY DInvAlways, <1>1, PTL

\* No charge is credited twice by ProcessDepositWebhook, whatever the number
\* and the interleaving of the deliveries, failures and crashes.
THEOREM CreditedAtMostOnceAlways == Spec => []CreditedAtMostOnce
  <1>1. DInv => CreditedAtMostOnce
    BY DEF DInv, TypeOK, RowInv, CreditedAtMostOnce
  <1> QED  BY DInvAlways, <1>1, PTL

\* IssueWalletAccount shows nobody a number that a deposit would not be found by.
THEOREM ShownIsKnownAlways == Spec => []ShownIsKnown
  <1>1. DInv => ShownIsKnown
    BY DEF DInv, AccountInv
  <1> QED  BY DInvAlways, <1>1, PTL

----------------------------------------------------------------------------
(* What a lost deposit can still hope for.                                 *)

\* A handler step of another run, or of a run that has not written the row,
\* cannot get past the row of a lost charge.
LEMMA LostByHandler ==
    ASSUME DInv, NEW h \in Handler, HandlerStep(h) \/ ProcessFails(h) \/ Crash(h),
           NEW c \in Charge, Lost(c)
    PROVE  Lost(c)'
  <1>1. ~(serves[h] = c /\ pc[h] = "credit")
    BY DEF Lost, InHand
  <1>2. c \in recorded'
    BY DEF Lost, InHand, HandlerStep, Lookup, Record, Credit, ProcessFails, Crash
  <1>3. credits'[c] = credits[c]
    BY <1>1 DEF HandlerStep, Lookup, Record, Credit, ProcessFails, Crash, DInv, TypeOK
  <1>4. ASSUME NEW g \in Handler PROVE ~(serves'[g] = c /\ pc'[g] = "credit")
    <2>1. CASE Release(h)
      BY <2>1, ReleaseKeeps DEF Lost, InHand, DInv
    <2>2. CASE UNCHANGED serves /\ pc' = [pc EXCEPT ![h] = "record"]
      BY <2>2 DEF Lost, InHand, DInv, TypeOK
    <2>3. CASE /\ UNCHANGED serves /\ pc' = [pc EXCEPT ![h] = "credit"]
               /\ serves[h] \notin recorded
      BY <2>3 DEF Lost, InHand, DInv, TypeOK
    <2> QED
      BY <2>1, <2>2, <2>3
      DEF HandlerStep, Lookup, Record, Credit, ProcessFails, Crash, Answer
  <1> QED  BY <1>2, <1>3, <1>4 DEF Lost, InHand

\* No step brings a lost deposit back.
LEMMA LostByStep ==
    ASSUME DInv, [Next]_vars, NEW c \in Charge, Lost(c)
    PROVE  Lost(c)'
  <1>1. CASE UNCHANGED <<recorded, credits, pc, serves>>
    BY <1>1 DEF Lost, InHand
  <1>2. ASSUME NEW h \in Handler, NEW d \in Charge, Receive(h, d)
        PROVE  Lost(c)'
    BY <1>2 DEF Receive, Lost, InHand, DInv, TypeOK
  <1>3. ASSUME NEW h \in Handler, HandlerStep(h) \/ ProcessFails(h) \/ Crash(h)
        PROVE  Lost(c)'
    BY <1>3, LostByHandler
  <1>4. ASSUME NEW k \in Call, Look(k) \/ Assign(k) \/ Save(k) \/ IssueFails(k)
        PROVE  Lost(c)'
    BY <1>4, <1>1, IssueKeeps DEF depositvars
  <1>5. ASSUME NEW d \in Charge, Pay(d) PROVE Lost(c)'
    BY <1>5, <1>1, PayKeeps
  <1> QED
    BY <1>1, <1>2, <1>3, <1>4, <1>5 DEF Next, Deliver, Repeat, vars, depositvars

\* A deposit whose run ended after RecordDeposit and before CreditWallet is
\* never credited: the UNIQUE row that keeps it from being credited twice also
\* turns away every delivery that could repair it.
THEOREM LostStaysLostAlways == Spec => LostStaysLost
  <1>1. DInv /\ [Next]_vars => [\A c \in Charge : Lost(c) => Lost(c)']_vars
    BY LostByStep
  <1> QED  BY DInvAlways, <1>1, PTL DEF Spec, LostStaysLost

----------------------------------------------------------------------------
(* The deposits implement the ledger of claims.                            *)

\* A step that writes no row and no credit, and starts or ends no run past its
\* row, is none of the ledger's.
LEMMA QuietOnTheLedger ==
    ASSUME DInv, UNCHANGED <<recorded, credits>>,
           \A g \in Handler : pc[g] = "credit" <=> pc'[g] = "credit",
           \A g \in Handler : pc[g] = "credit" => serves'[g] = serves[g]
    PROVE  UNCHANGED Ledger!ledgervars
  <1>1. \A c \in Charge : InHand(c)' <=> InHand(c)
    BY DEF InHand
  <1>2. Claims' = Claims
    BY <1>1 DEF Claims
  <1> QED  BY <1>2 DEF Ledger!ledgervars

\* What one run does to the charge it serves: it claims it, spends the claim
\* it holds, or does nothing to it; it does nothing to the others.
LEMMA RunIsLedgerStep ==
    ASSUME DInv, NEW h \in Handler, HandlerStep(h) \/ ProcessFails(h) \/ Crash(h)
    PROVE  [Ledger!LedgerNext]_Ledger!ledgervars
  <1>0. PICK c \in Charge : c = serves[h] /\ pc[h] # "idle"
    BY DEF DInv, TypeOK, HandlerStep, Lookup, Record, Credit, ProcessFails, Crash, Fault
  <1>1. \A g \in Handler \ {h} : pc'[g] = pc[g] /\ serves'[g] = serves[g]
    BY <1>0, ReleaseKeeps DEF HandlerStep, Lookup, Record, Credit, ProcessFails, Crash,
       Answer, DInv, TypeOK
  <1>2. \A d \in Charge \ {c} : InHand(d)' <=> InHand(d)
    <2>1. serves'[h] \in {c, NoCharge}
      BY <1>0, ReleaseKeeps DEF HandlerStep, Lookup, Record, Credit, ProcessFails,
         Crash, Answer, DInv, TypeOK
    <2> QED  BY <1>0, <1>1, <2>1, DepositAssumption DEF InHand
  <1>3. CASE pc[h] = "credit"
    <2>1. /\ Release(h) /\ UNCHANGED recorded
          /\ credits' \in {credits, [credits EXCEPT ![c] = @ + 1]}
      BY <1>0, <1>3 DEF HandlerStep, Lookup, Record, Credit, ProcessFails, Crash, Answer
    <2>2. pc'[h] = "idle" /\ c \in recorded /\ credits[c] = 0
      BY <1>0, <1>3, <2>1, ReleaseKeeps DEF DInv, RowInv
    <2>3. InHand(c) /\ ~InHand(c)'
      BY <1>0, <1>1, <1>3, <2>2 DEF InHand, DInv, RowInv
    <2>4. Claims[c] = "held" /\ Claims' = [Claims EXCEPT ![c] = "spent"]
      BY <1>0, <1>2, <2>1, <2>2, <2>3 DEF Claims
    <2>5. credits' \in {credits, [credits EXCEPT ![c] = 1]}
      BY <2>1, <2>2 DEF DInv, TypeOK
    <2> QED  BY <1>0, <2>4, <2>5 DEF Ledger!LedgerNext, Ledger!SpendClaim
  <1>4. CASE pc[h] = "record" /\ c \notin recorded
    <2>1. UNCHANGED credits /\ recorded' \in {recorded, recorded \cup {c}}
      BY <1>0, <1>4 DEF HandlerStep, Lookup, Record, Credit, ProcessFails, Crash, Answer
    <2>2. ~InHand(c)
      BY <1>0, <1>4 DEF InHand, DInv, RowInv
    <2>3. CASE recorded' = recorded
      <3>1. pc'[h] # "credit"
        BY <1>0, <1>4, <2>3, ReleaseKeeps DEF HandlerStep, Lookup, Record, Credit,
           ProcessFails, Crash, Answer, DInv
      <3> QED  BY <1>1, <1>4, <2>1, <2>3, <3>1, QuietOnTheLedger
    <2>4. CASE recorded' = recorded \cup {c}
      <3>1. Claims[c] = "open" /\ Claims'[c] \in {"held", "spent"}
        BY <1>0, <1>4, <2>4 DEF Claims
      <3>2. Claims' = [Claims EXCEPT ![c] = Claims'[c]]
        BY <1>0, <1>2, <2>4 DEF Claims
      <3> QED  BY <1>0, <2>1, <3>1, <3>2 DEF Ledger!LedgerNext, Ledger!MakeClaim
    <2> QED  BY <2>1, <2>3, <2>4
  <1>5. CASE pc[h] = "lookup" \/ (pc[h] = "record" /\ c \in recorded)
    <2>1. UNCHANGED <<recorded, credits>>
      BY <1>0, <1>5 DEF HandlerStep, Lookup, Record, Credit, ProcessFails, Crash, Answer
    <2>2. pc[h] # "credit" /\ pc'[h] # "credit"
      BY <1>0, <1>5, ReleaseKeeps DEF HandlerStep, Lookup, Record, Credit, ProcessFails,
         Crash, Answer, DInv, TypeOK
    <2> QED  BY <1>1, <2>1, <2>2, QuietOnTheLedger
  <1> QED  BY <1>0, <1>3, <1>4, <1>5 DEF DInv, TypeOK

\* ProcessDepositWebhook, service/wallet_service.go: whatever the number of
\* deliveries and however they race, fail and die, the row of a charge is a
\* claim that is made once and spent once.
THEOREM ClaimsAreSpentOnce == Spec => ClaimsAreLedger
  <1>1. Init => Ledger!LedgerInit
    BY DEF Init, Ledger!LedgerInit, Claims
  <1>2. DInv /\ [Next]_vars => [Ledger!LedgerNext]_Ledger!ledgervars
    <2> SUFFICES ASSUME DInv, [Next]_vars PROVE [Ledger!LedgerNext]_Ledger!ledgervars
      OBVIOUS
    <2>1. CASE UNCHANGED <<recorded, credits, pc, serves>>
      BY <2>1, QuietOnTheLedger
    <2>2. ASSUME NEW h \in Handler, NEW d \in Charge, Receive(h, d)
          PROVE  UNCHANGED Ledger!ledgervars
      <3>1. \A g \in Handler : pc[g] = "credit" => g # h
        BY <2>2 DEF Receive
      <3> QED  BY <2>2, <3>1, QuietOnTheLedger DEF Receive, DInv, TypeOK
    <2>3. ASSUME NEW h \in Handler, HandlerStep(h) \/ ProcessFails(h) \/ Crash(h)
          PROVE  [Ledger!LedgerNext]_Ledger!ledgervars
      BY <2>3, RunIsLedgerStep
    <2>4. ASSUME NEW k \in Call, Look(k) \/ Assign(k) \/ Save(k) \/ IssueFails(k)
          PROVE  UNCHANGED <<recorded, credits, pc, serves>>
      BY <2>4, IssueKeeps DEF depositvars
    <2>5. ASSUME NEW d \in Charge, Pay(d) PROVE UNCHANGED <<recorded, credits, pc, serves>>
      BY <2>5, PayKeeps
    <2> QED
      BY <2>1, <2>2, <2>3, <2>4, <2>5 DEF Next, Deliver, Repeat, vars, depositvars
  <1> QED
    BY <1>1, <1>2, DInvAlways, PTL DEF Spec, ClaimsAreLedger, Ledger!Spec

----------------------------------------------------------------------------
(* What becomes of a charge of which no run fails.                         *)

\* Money is sent to numbers that were shown, and a handler has been sent what
\* it serves.  A charge of which no run has failed is still due or recorded,
\* and recorded, its run has credited the wallet or is about to.
ArrivalInv ==
    /\ \A c \in Charge : to[c] # NoNumber => to[c] \in shown
    /\ \A h \in Handler : pc[h] # "idle" => to[serves[h]] # NoNumber
    /\ \A c \in due : to[c] # NoNumber
    /\ \A c \in Charge \ failed :
        /\ to[c] # NoNumber => c \in due \/ c \in recorded
        /\ c \in recorded /\ Net(c) > 0 => credits[c] > 0 \/ InHand(c)

\* Every charge that was made is on its way: until the wallet has been
\* credited, Paystack will send the webhook again or a run is about to credit
\* it, unless a run of the charge failed or the fee left nothing of it.
NothingForgotten ==
    \A c \in Charge \ failed :
        to[c] # NoNumber /\ Net(c) > 0 => credits[c] > 0 \/ c \in due \/ InHand(c)

\* The invariant is inductive, given what holds of the rows and the accounts.
LEMMA NextArrivalInv == DInv /\ ArrivalInv /\ [Next]_vars => ArrivalInv'
  <1> SUFFICES ASSUME DInv, ArrivalInv, [Next]_vars PROVE ArrivalInv'
    OBVIOUS
  <1>1. CASE UNCHANGED depositvars /\ shown \subseteq shown'
    BY <1>1 DEF depositvars, ArrivalInv, InHand
  <1>2. ASSUME NEW k \in Call, Look(k) \/ Assign(k) \/ Save(k) \/ IssueFails(k)
        PROVE  ArrivalInv'
    BY <1>1, <1>2, IssueKeeps DEF Look, Assign, Save, IssueFails
  <1>3. ASSUME NEW c \in Charge, Pay(c) PROVE ArrivalInv'
    <2>1. PICK n \in shown : to' = [to EXCEPT ![c] = n]
      BY <1>3 DEF Pay
    <2>2. n # NoNumber /\ due' = due \cup {c}
          /\ UNCHANGED <<shown, recorded, credits, pc, serves, failed>>
      BY <1>3, DepositAssumption DEF Pay, DInv, TypeOK, issuevars
    <2> QED  BY <2>1, <2>2 DEF ArrivalInv, DInv, TypeOK, InHand
  <1>4. ASSUME NEW h \in Handler, NEW c \in Charge, Receive(h, c), to[c] # NoNumber
        PROVE  ArrivalInv'
    <2>1. /\ pc' = [pc EXCEPT ![h] = "lookup"] /\ serves' = [serves EXCEPT ![h] = c]
          /\ pc[h] = "idle" /\ UNCHANGED <<shown, to, recorded, credits, due, failed>>
      BY <1>4 DEF Receive, issuevars
    <2>2. \A d \in Charge : InHand(d) => InHand(d)'
      BY <2>1 DEF InHand, DInv, TypeOK
    <2> QED  BY <1>4, <2>1, <2>2 DEF ArrivalInv, DInv, TypeOK
  <1>5. ASSUME NEW h \in Handler, HandlerStep(h) \/ ProcessFails(h) \/ Crash(h)
        PROVE  ArrivalInv'
    <2>1. PICK c \in Charge : c = serves[h]
      BY <1>5 DEF HandlerStep, Lookup, Record, Credit, ProcessFails, Crash, Fault, DInv, TypeOK
    <2>2. /\ pc[h] # "idle" /\ to[c] \in accounts
          /\ UNCHANGED <<shown, to>> /\ due \ {c} \subseteq due' /\ due' \subseteq due
          /\ failed \subseteq failed' /\ recorded \subseteq recorded'
          /\ recorded' \subseteq recorded \cup {c}
      BY <1>5, <2>1 DEF HandlerStep, Lookup, Record, Credit, ProcessFails, Crash, Fault,
         Answer, issuevars, DInv, TypeOK, AccountInv, ShownIsKnown, ArrivalInv
    <2>3. \A g \in Handler : pc'[g] # "idle" => pc[g] # "idle" /\ serves'[g] = serves[g]
      BY <1>5, <2>1, <2>2, ReleaseKeeps DEF HandlerStep, Lookup, Record, Credit,
         ProcessFails, Crash, Answer, DInv, TypeOK
    <2>4. ASSUME NEW d \in Charge \ {c}
          PROVE  credits'[d] = credits[d] /\ (InHand(d)' <=> InHand(d))
      <3>1. credits'[d] = credits[d]
        BY <1>5, <2>1, <2>2 DEF HandlerStep, Lookup, Record, Credit, ProcessFails, Crash,
           DInv, TypeOK
      <3>2. \A g \in Handler \ {h} : pc'[g] = pc[g] /\ serves'[g] = serves[g]
        BY <1>5, <2>1, <2>2, ReleaseKeeps DEF HandlerStep, Lookup, Record, Credit,
           ProcessFails, Crash, Answer, DInv, TypeOK
      <3>3. ~(serves[h] = d) /\ ~(serves'[h] = d)
        BY <1>5, <2>1, <2>2, ReleaseKeeps, DepositAssumption DEF HandlerStep, Lookup, Record,
           Credit, ProcessFails, Crash, Answer, DInv, TypeOK
      <3> QED  BY <3>1, <3>2, <3>3 DEF InHand
    <2>5. ASSUME c \notin failed'
          PROVE  /\ c \in due' \/ c \in recorded'
                 /\ c \in recorded' /\ Net(c) > 0 => credits'[c] > 0 \/ InHand(c)'
      <3>1. HandlerStep(h) /\ c \notin failed /\ (c \in due \/ c \in recorded)
        BY <1>5, <2>1, <2>2, <2>5 DEF ProcessFails, Crash, Fault, ArrivalInv
      <3>2. CASE Lookup(h)
        <4>1. pc' = [pc EXCEPT ![h] = "record"] /\ UNCHANGED <<due, serves>>
              /\ UNCHANGED <<recorded, credits>>
          BY <2>1, <2>2, <3>2 DEF Lookup
        <4>2. InHand(c) => InHand(c)'
          BY <2>1, <3>2, <4>1 DEF InHand, Lookup, DInv, TypeOK
        <4> QED  BY <2>1, <2>2, <3>1, <4>1, <4>2 DEF ArrivalInv
      <3>3. CASE Record(h) /\ c \notin recorded
        <4>1. pc'[h] = "credit" /\ serves'[h] = c /\ c \in recorded'
          BY <2>1, <3>3 DEF Record, DInv, TypeOK
        <4> QED  BY <4>1 DEF InHand
      <3>4. CASE Record(h) /\ c \in recorded
        <4>1. Release(h) /\ UNCHANGED <<recorded, credits>> /\ pc[h] = "record"
          BY <2>1, <3>4 DEF Record, Answer
        <4>2. InHand(c) => InHand(c)'
          BY <2>1, <4>1, ReleaseKeeps DEF InHand, DInv
        <4> QED  BY <2>1, <2>2, <3>1, <3>4, <4>1, <4>2 DEF ArrivalInv
      <3>5. CASE Credit(h)
        BY <2>1, <2>2, <3>5 DEF Credit, DInv, TypeOK, RowInv
      <3> QED  BY <3>1, <3>2, <3>3, <3>4, <3>5 DEF HandlerStep
    <2> QED  BY <2>1, <2>2, <2>3, <2>4, <2>5 DEF ArrivalInv, DInv, TypeOK
  <1> QED
    BY <1>1, <1>2, <1>3, <1>4, <1>5 DEF Next, Deliver, Repeat, ArrivalInv, vars, issuevars

\* The safety half of DepositArrives: no delivery of a charge is answered with
\* 200, which ends Paystack's retries, before the wallet was credited or one
\* run is about to do it, unless a run of that charge failed.
THEOREM NoDepositIsForgotten == Spec => []NothingForgotten
  <1>1. Init => ArrivalInv
    BY DEF Init, ArrivalInv
  <1>2. ArrivalInv => NothingForgotten
    BY DEF ArrivalInv, NothingForgotten
  <1> QED  BY <1>1, <1>2, NextArrivalInv, DInvAlways, PTL DEF Spec

=============================================================================
