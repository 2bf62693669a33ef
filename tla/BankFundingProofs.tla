-------------------------- MODULE BankFundingProofs --------------------------
(***************************************************************************)
(* Proofs about BankFunding, for any number of requests, handlers, repeats *)
(* and faults.  The inductive invariant has two halves: PageInv, that the  *)
(* payment page leaves FundFromBank last, so that no webhook, of Mono or   *)
(* of another, runs before its final write; and CreditInv, that deliveries *)
(* that do not overlap see one another's work.                             *)
(***************************************************************************)
EXTENDS BankFunding, TLAPS

\* Nothing is paid, delivered or credited before FundFromBank has returned.
PageInv ==
    \A f \in Fund :
        /\ f \in url => call[f] = "done" /\ status[f] \in {"pending", "completed"}
        /\ call[f] \in {"check", "create"} => status[f] = "none"
        /\ call[f] \in {"initiate", "fail", "record"} => status[f] = "pending"
        /\ session[f] = "paid" => f \in url
        /\ f \in due => session[f] = "paid"
        /\ f \in unsigned => f \in url
        /\ \A h \in Handler :
                serves[h] = f => f \in url /\ (session[f] = "paid" \/ f \in unsigned)

\* Handler h is between seeing f open and closing it.
Busy(h, f) == serves[h] = f /\ pc[h] \in {"credit", "mark"}

CreditInv ==
    /\ \A h \in Handler : pc[h] = "mark" => credits[serves[h]] > 0
    /\ \A f \in Fund \ overlapped :
        /\ credits[f] <= 1
        /\ \A h \in Handler : Busy(h, f) /\ pc[h] = "credit" => credits[f] = 0
        /\ \A g, h \in Handler : Busy(g, f) /\ Busy(h, f) => g = h
        /\ credits[f] > 0 =>
                \/ status[f] = "completed"
                \/ \E h \in Handler : Busy(h, f) /\ pc[h] = "mark"

FInv == TypeOK /\ StatusMatchesMoney /\ PageInv /\ CreditInv

----------------------------------------------------------------------------

\* The initial state satisfies the invariant.
LEMMA InitFInv == Init => FInv
  <1> SUFFICES ASSUME Init PROVE FInv
    OBVIOUS
  <1>1. TypeOK
    BY DEF Init, TypeOK, Routes, MonoRoutes
  <1>2. StatusMatchesMoney
    BY DEF Init, StatusMatchesMoney
  <1>3. PageInv
    BY FundAssumption DEF Init, PageInv
  <1>4. CreditInv
    BY DEF Init, CreditInv, Busy
  <1> QED  BY <1>1, <1>2, <1>3, <1>4 DEF FInv

\* FundFromBank and the user never touch what the handlers work on: while the
\* call runs, the request has no page, so no payment and no delivery.
LEMMA CallKeeps ==
    ASSUME FInv, NEW f \in Fund,
           \/ Check(f) \/ Create(f) \/ Initiate(f) \/ InitiateFails(f)
           \/ RecordFailure(f) \/ RecordPending(f) \/ CallFails(f) \/ Pay(f)
    PROVE  FInv'
  <1> USE DEF FInv, hvars, history
  <1>1. /\ UNCHANGED <<pc, serves, route, credits, overlapped, swallowed, unsigned,
                       repeats, faults>>
        /\ credits \in [Fund -> Nat]
    BY DEF Check, Create, Initiate, InitiateFails, RecordFailure, RecordPending,
       CallFails, Pay, TypeOK
  <1>2. TypeOK'
    <2>1. CASE Check(f)
      BY <2>1 DEF Check, TypeOK
    <2>2. CASE Create(f)
      BY <2>2 DEF Create, TypeOK
    <2>3. CASE Initiate(f) \/ InitiateFails(f)
      BY <2>3 DEF Initiate, InitiateFails, TypeOK
    <2>4. CASE RecordFailure(f)
      BY <2>4 DEF RecordFailure, TypeOK
    <2>5. CASE RecordPending(f)
      BY <2>5 DEF RecordPending, TypeOK
    <2>6. CASE CallFails(f)
      BY <2>6 DEF CallFails, TypeOK
    <2>7. CASE Pay(f)
      BY <2>7 DEF Pay, TypeOK
    <2> QED  BY <2>1, <2>2, <2>3, <2>4, <2>5, <2>6, <2>7
  <1>3. /\ status' \in {status, [status EXCEPT ![f] = "pending"],
                        [status EXCEPT ![f] = "failed"]}
        /\ status' # status => call[f] # "done"
        /\ session' \in {session, [session EXCEPT ![f] = "none"],
                         [session EXCEPT ![f] = "open"], [session EXCEPT ![f] = "paid"]}
        /\ session[f] = "paid" => session' = session
    BY DEF Check, Create, Initiate, InitiateFails, RecordFailure, RecordPending,
       CallFails, Pay, TypeOK, PageInv
  <1>4. call[f] # "done" => f \notin url /\ session[f] # "paid" /\ credits[f] = 0
    BY DEF PageInv, StatusMatchesMoney, TypeOK
  <1>5. \A g \in Fund : status[g] = "completed" => status'[g] = "completed"
    BY <1>3, <1>4 DEF TypeOK, StatusMatchesMoney
  <1>6. PageInv'
    <2>1. CASE Check(f)
      BY <2>1 DEF Check, TypeOK, PageInv
    <2>2. CASE Create(f)
      BY <2>2 DEF Create, TypeOK, PageInv
    <2>3. CASE Initiate(f) \/ InitiateFails(f)
      BY <2>3, <1>4 DEF Initiate, InitiateFails, TypeOK, PageInv
    <2>4. CASE RecordFailure(f)
      BY <2>4, <1>4 DEF RecordFailure, TypeOK, PageInv
    <2>5. CASE RecordPending(f)
      BY <2>5, <1>4 DEF RecordPending, TypeOK, PageInv
    <2>6. CASE CallFails(f)
      BY <2>6, <1>4 DEF CallFails, TypeOK, PageInv
    <2>7. CASE Pay(f)
      BY <2>7 DEF Pay, TypeOK, PageInv
    <2> QED  BY <2>1, <2>2, <2>3, <2>4, <2>5, <2>6, <2>7
  <1>7. StatusMatchesMoney'
    <2> SUFFICES ASSUME NEW g \in Fund
                 PROVE  /\ status'[g] = "completed" => credits[g] > 0
                        /\ status'[g] = "failed" => session'[g] # "paid" /\ credits[g] = 0
                        /\ credits[g] > 0 => session'[g] = "paid" \/ g \in unsigned
      BY <1>1 DEF StatusMatchesMoney
    <2>1. status'[g] = "completed" => status[g] = "completed"
      BY <1>3 DEF TypeOK
    <2>2. session[g] = "paid" => session'[g] = "paid"
      BY <1>3 DEF TypeOK
    <2>3. ASSUME status'[g] = "failed" PROVE session'[g] # "paid" /\ credits[g] = 0
      <3>1. session'[g] # "paid" /\ g \notin unsigned
        BY <1>1, <1>6, <2>3 DEF PageInv
      <3> QED  BY <3>1, <2>2, <1>1 DEF StatusMatchesMoney
    <2> QED  BY <2>1, <2>2, <2>3 DEF StatusMatchesMoney
  <1>8. CreditInv'
    BY <1>1, <1>5 DEF CreditInv, Busy
  <1> QED  BY <1>2, <1>6, <1>7, <1>8

\* A delivery only occupies an idle handler.
LEMMA DeliveryKeeps ==
    ASSUME FInv, NEW h \in Handler, NEW f \in Fund,
           Deliver(h, f) \/ Repeat(h, f) \/ Unsigned(h, f)
    PROVE  FInv'
  <1> USE DEF FInv, callvars
  <1>1. /\ pc[h] = "idle" /\ repeats' \in Nat /\ f \in url
        /\ unsigned \subseteq unsigned' /\ unsigned' \subseteq url
        /\ session[f] = "paid" \/ f \in unsigned'
    BY DEF Deliver, Repeat, Unsigned, FromMono, Receive, PageInv, TypeOK
  <1>2. PICK to \in Routes : Receive(h, f, to)
    BY DEF Deliver, Repeat, Unsigned, FromMono, Routes
  <1>3. TypeOK'
    BY <1>1, <1>2, FundAssumption DEF Receive, TypeOK
  <1>4. StatusMatchesMoney' /\ PageInv'
    BY <1>1, <1>2 DEF Receive, StatusMatchesMoney, PageInv, TypeOK
  <1>5. CreditInv'
    <2>1. \A k \in Handler : pc[k] \in {"credit", "mark"} =>
                pc'[k] = pc[k] /\ serves'[k] = serves[k]
      BY <1>1, <1>2 DEF Receive, TypeOK
    <2>2. \A k \in Handler : pc'[k] \in {"credit", "mark"} =>
                pc'[k] = pc[k] /\ serves'[k] = serves[k]
      BY <1>1, <1>2 DEF Receive, TypeOK
    <2>3. UNCHANGED <<credits, status, overlapped>>
      BY <1>2 DEF Receive
    <2> QED  BY <2>1, <2>2, <2>3 DEF CreditInv, Busy
  <1> QED  BY <1>3, <1>4, <1>5

\* What a handler works on: a request that has a page, and is paid unless
\* somebody else than Mono sent the webhook.
LEMMA ServedHasPage ==
    ASSUME FInv, NEW h \in Handler, pc[h] # "idle"
    PROVE  /\ serves[h] \in Fund
           /\ session[serves[h]] = "paid" \/ serves[h] \in unsigned
           /\ serves[h] \in url /\ status[serves[h]] \in {"pending", "completed"}
  BY DEF FInv, TypeOK, PageInv

\* A handler that leaves, and any change to due, overlapped and swallowed.
LEMMA ReleaseKeeps ==
    ASSUME FInv, NEW h \in Handler, Release(h),
           UNCHANGED <<status, call, url, session, credits, unsigned, repeats>>,
           due' \subseteq due, faults' \in Nat,
           overlapped' \in {overlapped, overlapped \cup {serves[h]}},
           swallowed' \in {swallowed, swallowed \cup {serves[h]}},
           pc[h] # "idle",
           pc[h] = "mark" => serves[h] \in overlapped'
    PROVE  FInv'
  <1> USE DEF FInv
  <1>1. serves[h] \in Fund
    BY ServedHasPage
  <1>2. TypeOK'
    BY <1>1, FundAssumption DEF Release, TypeOK
  <1>3. StatusMatchesMoney' /\ PageInv'
    BY FundAssumption DEF Release, StatusMatchesMoney, PageInv, TypeOK
  <1>4. CreditInv'
    <2>1. /\ overlapped \subseteq overlapped'
          /\ \A k \in Handler : k # h => pc'[k] = pc[k] /\ serves'[k] = serves[k]
          /\ pc'[h] = "idle"
      BY DEF Release, TypeOK
    <2>2. \A f \in Fund, k \in Handler : Busy(k, f)' => Busy(k, f) /\ k # h
      BY <2>1 DEF Busy
    <2>3. ASSUME NEW f \in Fund \ overlapped', NEW k \in Handler, Busy(k, f), pc[k] = "mark"
          PROVE  Busy(k, f)' /\ pc'[k] = "mark"
      BY <2>1, <2>3 DEF Busy
    <2>4. \A k \in Handler : pc'[k] = "mark" => credits[serves'[k]] > 0
      BY <2>1 DEF CreditInv
    <2> QED  BY <2>1, <2>2, <2>3, <2>4 DEF CreditInv
  <1> QED  BY <1>2, <1>3, <1>4

\* Reading the status: a delivery that goes on has seen no credit, unless it
\* is noted as overlapped.
LEMMA ReadKeeps ==
    ASSUME FInv, NEW h \in Handler, ReadStatus(h)
    PROVE  FInv'
  <1> USE DEF FInv
  <1> DEFINE f == serves[h]
  <1>1. pc[h] = "read" /\ f \in Fund /\ (session[f] = "paid" \/ f \in unsigned)
    BY ServedHasPage DEF ReadStatus
  <1>2. CASE Release(h) /\ Acknowledge(h) /\ UNCHANGED overlapped
    BY <1>1, <1>2, ReleaseKeeps DEF ReadStatus, Acknowledge, callvars, TypeOK
  <1>3. CASE /\ status[f] \notin {"none", "completed"}
             /\ pc' = [pc EXCEPT ![h] = "credit"]
             /\ overlapped' = IF Crediting(f) = {} THEN overlapped
                                                   ELSE overlapped \cup {f}
             /\ UNCHANGED <<serves, route, due>>
    <2>1. /\ UNCHANGED <<status, call, url, session, credits, swallowed, unsigned,
                       repeats, faults>>
          /\ overlapped \subseteq overlapped' /\ overlapped' \subseteq Fund
      BY <1>1, <1>3 DEF ReadStatus, callvars, TypeOK
    <2>2. TypeOK'
      BY <1>1, <1>3, <2>1, FundAssumption DEF TypeOK
    <2>3. StatusMatchesMoney' /\ PageInv'
      BY <1>3, <2>1 DEF StatusMatchesMoney, PageInv
    <2>4. /\ pc'[h] = "credit"
          /\ \A k \in Handler : k # h => pc'[k] = pc[k]
      BY <1>3 DEF TypeOK
    <2>5. \A g \in Fund, k \in Handler : k # h \/ g # f => (Busy(k, g)' <=> Busy(k, g))
      BY <1>1, <1>3, <2>4 DEF Busy
    <2>6. ASSUME f \notin overlapped'
          PROVE  /\ \A k \in Handler : ~Busy(k, f)
                 /\ credits[f] = 0
      <3>1. \A k \in Handler : ~Busy(k, f)
        BY <1>1, <1>3, <2>6 DEF Crediting, Busy
      <3>2. f \in Fund \ overlapped
        BY <1>1, <2>1, <2>6
      <3>3. ~(credits[f] > 0)
        BY <1>3, <3>1, <3>2 DEF CreditInv
      <3> QED  BY <3>1, <3>3, <1>1 DEF TypeOK
    <2>7. \A k \in Handler : pc'[k] = "mark" => credits'[serves'[k]] > 0
      BY <1>3, <2>1, <2>4 DEF CreditInv
    <2>8. ASSUME NEW g \in Fund \ overlapped'
          PROVE  /\ credits'[g] <= 1
                 /\ \A k \in Handler : Busy(k, g)' /\ pc'[k] = "credit" => credits'[g] = 0
                 /\ \A j, k \in Handler : Busy(j, g)' /\ Busy(k, g)' => j = k
                 /\ credits'[g] > 0 =>
                        \/ status'[g] = "completed"
                        \/ \E k \in Handler : Busy(k, g)' /\ pc'[k] = "mark"
      <3>1. CASE g = f
        BY <3>1, <2>1, <2>5, <2>6
      <3>2. CASE g # f
        <4>1. \A k \in Handler : Busy(k, g)' <=> Busy(k, g)
          BY <3>2, <2>5
        <4>2. \A k \in Handler : Busy(k, g) => k # h
          BY <3>2 DEF Busy
        <4> QED  BY <4>1, <4>2, <2>1, <2>4 DEF CreditInv
      <3> QED  BY <3>1, <3>2
    <2>9. CreditInv'
      BY <2>7, <2>8 DEF CreditInv
    <2> QED  BY <2>2, <2>3, <2>9
  <1> QED  BY <1>2, <1>3 DEF ReadStatus

\* The credit: a handler alone on its request credits it for the first time.
LEMMA CreditKeeps ==
    ASSUME FInv, NEW h \in Handler, Credit(h)
    PROVE  FInv'
  <1> USE DEF FInv
  <1> DEFINE f == serves[h]
  <1>1. pc[h] = "credit" /\ f \in Fund /\ (session[f] = "paid" \/ f \in unsigned)
        /\ status[f] \in {"pending", "completed"} /\ credits[f] \in Nat
    BY ServedHasPage DEF Credit, TypeOK
  <1>2. /\ credits' = [credits EXCEPT ![f] = credits[f] + 1]
        /\ pc' = [pc EXCEPT ![h] = "mark"]
        /\ UNCHANGED <<status, call, url, session, due, serves, route, overlapped,
                       swallowed, unsigned, repeats, faults>>
    BY DEF Credit, callvars, history
  <1>3. TypeOK'
    <2>1. credits' \in [Fund -> Nat]
      BY <1>1, <1>2 DEF TypeOK
    <2>2. \A k \in Handler : pc'[k] = "idle" <=> serves'[k] = NoFund
      BY <1>1, <1>2 DEF TypeOK
    <2> QED  BY <1>2, <2>1, <2>2 DEF TypeOK
  <1>4. StatusMatchesMoney' /\ PageInv'
    <2>1. \A g \in Fund : credits'[g] >= credits[g] /\ (g # f => credits'[g] = credits[g])
      BY <1>1, <1>2 DEF TypeOK
    <2>2. status[f] # "failed"
      BY <1>1
    <2>3. StatusMatchesMoney'
      BY <1>1, <1>2, <1>3, <2>1, <2>2 DEF StatusMatchesMoney, TypeOK
    <2>4. PageInv'
      BY <1>2 DEF PageInv
    <2> QED  BY <2>3, <2>4
  <1>5. CreditInv'
    <2>1. credits'[f] = credits[f] + 1 /\ \A g \in Fund \ {f} : credits'[g] = credits[g]
      BY <1>1, <1>2 DEF TypeOK
    <2>2. pc'[h] = "mark" /\ \A k \in Handler \ {h} : pc'[k] = pc[k]
      BY <1>2 DEF TypeOK
    <2>3. \A k \in Handler, g \in Fund : Busy(k, g)' <=> Busy(k, g)
      BY <1>1, <1>2, <2>2 DEF Busy
    <2>4. Busy(h, f)
      BY <1>1 DEF Busy
    <2>5. ASSUME NEW k \in Handler, pc'[k] = "mark" PROVE credits'[serves'[k]] > 0
      <3>1. CASE k = h
        BY <3>1, <1>1, <1>2, <2>1
      <3>2. CASE k # h
        <4>1. pc[k] = "mark" /\ credits[serves[k]] > 0 /\ serves[k] \in Fund
          BY <3>2, <2>2, <2>5, ServedHasPage DEF CreditInv
        <4> QED  BY <4>1, <1>1, <1>2, <2>1
      <3> QED  BY <3>1, <3>2
    <2>6. ASSUME NEW g \in Fund \ overlapped
          PROVE  /\ credits'[g] <= 1
                 /\ \A k \in Handler : Busy(k, g)' /\ pc'[k] = "credit" => credits'[g] = 0
                 /\ \A j, k \in Handler : Busy(j, g)' /\ Busy(k, g)' => j = k
                 /\ credits'[g] > 0 =>
                        \/ status'[g] = "completed"
                        \/ \E k \in Handler : Busy(k, g)' /\ pc'[k] = "mark"
      <3>1. CASE g = f
        <4>1. credits[f] = 0 /\ \A k \in Handler : Busy(k, f) => k = h
          BY <3>1, <1>1, <2>4 DEF CreditInv
        <4> QED  BY <3>1, <4>1, <2>1, <2>2, <2>3, <2>4
      <3>2. CASE g # f
        <4>1. \A k \in Handler : Busy(k, g) => k # h
          BY <3>2 DEF Busy
        <4> QED  BY <3>2, <4>1, <1>2, <2>1, <2>2, <2>3 DEF CreditInv
      <3> QED  BY <3>1, <3>2
    <2> QED  BY <1>2, <2>5, <2>6 DEF CreditInv
  <1> QED  BY <1>3, <1>4, <1>5

\* Closing the request: it has been credited by this very handler.
LEMMA MarkKeeps ==
    ASSUME FInv, NEW h \in Handler, MarkCompleted(h)
    PROVE  FInv'
  <1> USE DEF FInv
  <1> DEFINE f == serves[h]
  <1>1. pc[h] = "mark" /\ f \in Fund /\ f \in url /\ credits[f] > 0
    BY ServedHasPage DEF MarkCompleted, CreditInv
  <1>2. /\ status' = [status EXCEPT ![f] = "completed"] /\ due' \subseteq due
        /\ pc' = [pc EXCEPT ![h] = "idle"] /\ serves' = [serves EXCEPT ![h] = NoFund]
        /\ UNCHANGED <<call, url, session, route, credits, overlapped, swallowed,
                       unsigned, repeats, faults>>
    BY DEF MarkCompleted, Acknowledge, Release, callvars, history
  <1>3. TypeOK'
    BY <1>1, <1>2, FundAssumption DEF TypeOK
  <1>4. StatusMatchesMoney' /\ PageInv'
    BY <1>1, <1>2, FundAssumption DEF StatusMatchesMoney, PageInv, TypeOK
  <1>5. CreditInv'
    <2>1. /\ pc'[h] = "idle"
          /\ \A k \in Handler \ {h} : pc'[k] = pc[k] /\ serves'[k] = serves[k]
          /\ status'[f] = "completed" /\ \A g \in Fund \ {f} : status'[g] = status[g]
      BY <1>1, <1>2 DEF TypeOK
    <2>2. \A g \in Fund, k \in Handler : Busy(k, g)' => Busy(k, g) /\ k # h
      BY <2>1 DEF Busy
    <2>3. \A g \in Fund \ {f}, k \in Handler : Busy(k, g) => Busy(k, g)' /\ pc'[k] = pc[k]
      BY <2>1 DEF Busy
    <2>4. \A k \in Handler : pc'[k] = "mark" => credits'[serves'[k]] > 0
      BY <1>2, <2>1 DEF CreditInv
    <2>5. ASSUME NEW g \in Fund \ overlapped
          PROVE  /\ credits'[g] <= 1
                 /\ \A k \in Handler : Busy(k, g)' /\ pc'[k] = "credit" => credits'[g] = 0
                 /\ \A j, k \in Handler : Busy(j, g)' /\ Busy(k, g)' => j = k
                 /\ credits'[g] > 0 =>
                        \/ status'[g] = "completed"
                        \/ \E k \in Handler : Busy(k, g)' /\ pc'[k] = "mark"
      BY <1>2, <2>1, <2>2, <2>3 DEF CreditInv
    <2> QED  BY <1>2, <2>4, <2>5 DEF CreditInv
  <1> QED  BY <1>3, <1>4, <1>5

\* A failed or lost handler run: what it leaves undone is noted.
LEMMA FaultKeeps ==
    ASSUME FInv, NEW h \in Handler, CompleteFails(h) \/ MarkFails(h) \/ Crash(h)
    PROVE  FInv'
  <1>1. CASE CompleteFails(h)
    BY <1>1, ReleaseKeeps DEF CompleteFails, Acknowledge, Fault, callvars, FInv, TypeOK
  <1>2. CASE MarkFails(h)
    BY <1>2, ReleaseKeeps DEF MarkFails, Acknowledge, Fault, callvars, FInv, TypeOK
  <1>3. CASE Crash(h)
    BY <1>3, ReleaseKeeps DEF Crash, Fault, callvars, FInv, TypeOK
  <1> QED  BY <1>1, <1>2, <1>3

\* Every step keeps the invariant.
LEMMA NextFInv == FInv /\ [Next]_vars => FInv'
  <1> SUFFICES ASSUME FInv, [Next]_vars PROVE FInv'
    OBVIOUS
  <1>1. CASE UNCHANGED vars
    BY <1>1 DEF vars, callvars, hvars, history, FInv, TypeOK, StatusMatchesMoney,
       PageInv, CreditInv, Busy
  <1> QED
    BY <1>1, CallKeeps, DeliveryKeeps, ReadKeeps, CreditKeeps, MarkKeeps, FaultKeeps
    DEF Next, HandlerStep

----------------------------------------------------------------------------
(* The theorems.                                                           *)

\* The invariant holds in every reachable state.
THEOREM FInvAlways == Spec => []FInv
  BY InitFInv, NextFInv, PTL DEF Spec

\* The type invariant holds for every instance.
THEOREM FundingTypeCorrect == Spec => []TypeOK
  <1>1. FInv => TypeOK
    BY DEF FInv
  <1> QED  BY <1>1, FInvAlways, PTL

\* The row of a request tells the truth about the money, for any number of
\* repeated, concurrent and failing deliveries, of Mono and of others; only a
\* reference that an unsigned webhook named is credited for an unpaid debit.
THEOREM StatusMatchesMoneyAlways == Spec => []StatusMatchesMoney
  <1>1. FInv => StatusMatchesMoney
    BY DEF FInv
  <1> QED  BY <1>1, FInvAlways, PTL

\* Deliveries that do not overlap credit a request at most once.
THEOREM SeparateDeliveriesAlways == Spec => []SeparateDeliveriesCreditOnce
  <1>1. FInv => SeparateDeliveriesCreditOnce
    BY DEF FInv, CreditInv, SeparateDeliveriesCreditOnce
  <1> QED  BY <1>1, FInvAlways, PTL

\* No step takes a request out of completed, FundFromBank's own late write of
\* pending included.
THEOREM CompletedStaysCompleted == Spec => CompletedIsFinal
  <1>1. ASSUME FInv, [Next]_vars, NEW f \in Fund, status[f] = "completed"
        PROVE  status'[f] = "completed"
    <2>1. call[f] = "done"
      BY <1>1 DEF FInv, PageInv, StatusMatchesMoney
    <2>2. ASSUME NEW g \in Fund,
                 \/ Check(g) \/ Create(g) \/ Initiate(g) \/ InitiateFails(g)
                 \/ RecordFailure(g) \/ RecordPending(g) \/ CallFails(g) \/ Pay(g)
          PROVE  status'[f] = status[f]
      <3>1. status' = status \/ (g # f /\ \E v : status' = [status EXCEPT ![g] = v])
        BY <2>1, <2>2 DEF Check, Create, Initiate, InitiateFails, RecordFailure,
           RecordPending, CallFails, Pay
      <3> QED  BY <3>1, <1>1 DEF FInv, TypeOK
    <2>3. ASSUME NEW h \in Handler, NEW g \in Fund,
                 Deliver(h, g) \/ Repeat(h, g) \/ Unsigned(h, g)
          PROVE  status' = status
      BY <2>3 DEF Deliver, Repeat, Unsigned, FromMono, Receive
    <2>4. ASSUME NEW h \in Handler, MarkCompleted(h) PROVE status'[f] = "completed"
      BY <2>4, <1>1 DEF MarkCompleted, FInv, TypeOK
    <2>5. ASSUME NEW h \in Handler,
                 \/ ReadStatus(h) \/ Credit(h) \/ CompleteFails(h) \/ MarkFails(h) \/ Crash(h)
          PROVE  status' = status
      BY <2>5 DEF ReadStatus, Credit, CompleteFails, MarkFails, Crash
    <2>6. CASE UNCHANGED vars
      BY <2>6, <1>1 DEF vars
    <2> QED  BY <1>1, <2>2, <2>3, <2>4, <2>5, <2>6 DEF Next, HandlerStep
  <1>2. FInv /\ [Next]_vars =>
            [\A f \in Fund : status[f] = "completed" => status'[f] = "completed"]_vars
    BY <1>1
  <1> QED  BY <1>2, FInvAlways, PTL DEF Spec, CompletedIsFinal

----------------------------------------------------------------------------
(* What becomes of a debit the user has authorised.                        *)

\* Until the wallet has been credited, Mono will send the webhook again,
\* unless MonoDirectDebit has answered an error with 200.  The answer to an
\* unsigned webhook takes nothing from what Mono owes.
NothingForgotten ==
    \A f \in Fund : session[f] = "paid" => credits[f] > 0 \/ f \in due \/ f \in swallowed

\* Only these three steps end the repeats of a webhook: reading a request that
\* is completed, closing one that is credited, and an error that is swallowed.
LEMMA NextNothingForgotten == FInv /\ NothingForgotten /\ [Next]_vars => NothingForgotten'
  <1> SUFFICES ASSUME FInv, NothingForgotten, [Next]_vars PROVE NothingForgotten'
    OBVIOUS
  <1>1. CASE UNCHANGED <<session, credits, due, swallowed>>
    BY <1>1 DEF NothingForgotten
  <1>2. ASSUME NEW f \in Fund,
               \/ Check(f) \/ Create(f) \/ Initiate(f) \/ InitiateFails(f)
               \/ RecordFailure(f) \/ RecordPending(f) \/ CallFails(f) \/ Pay(f)
        PROVE  NothingForgotten'
    <2>1. /\ UNCHANGED <<credits, swallowed>> /\ due \subseteq due'
          /\ \A g \in Fund : session'[g] = "paid" => session[g] = "paid" \/ g \in due'
      BY <1>2 DEF Check, Create, Initiate, InitiateFails, RecordFailure, RecordPending,
         CallFails, Pay, history, FInv, TypeOK
    <2> QED  BY <2>1 DEF NothingForgotten
  <1>3. ASSUME NEW h \in Handler, NEW f \in Fund,
               Deliver(h, f) \/ Repeat(h, f) \/ Unsigned(h, f)
        PROVE  NothingForgotten'
    BY <1>1, <1>3 DEF Deliver, Repeat, Unsigned, FromMono, Receive, callvars
  <1>4. ASSUME NEW h \in Handler,
               \/ HandlerStep(h) \/ CompleteFails(h) \/ MarkFails(h) \/ Crash(h)
        PROVE  NothingForgotten'
    <2>1. PICK f \in Fund : f = serves[h] /\ status[f] \in {"pending", "completed"}
      BY <1>4, ServedHasPage DEF HandlerStep, ReadStatus, Credit, MarkCompleted,
         CompleteFails, MarkFails, Crash
    <2>2. /\ UNCHANGED session /\ due \ {f} \subseteq due' /\ swallowed \subseteq swallowed'
          /\ \A g \in Fund : credits[g] > 0 => credits'[g] > 0
      BY <1>4, <2>1 DEF HandlerStep, ReadStatus, Credit, MarkCompleted, CompleteFails,
         MarkFails, Crash, Acknowledge, callvars, history, FInv, TypeOK
    <2>3. f \notin due' => credits[f] > 0 \/ f \in swallowed' \/ f \notin due
      BY <1>4, <2>1 DEF HandlerStep, ReadStatus, Credit, MarkCompleted, CompleteFails,
         MarkFails, Crash, Acknowledge, FInv, StatusMatchesMoney, CreditInv
    <2> QED  BY <2>1, <2>2, <2>3 DEF NothingForgotten
  <1> QED  BY <1>1, <1>2, <1>3, <1>4 DEF Next, vars, callvars, history

\* The safety half of PaidIsCredited, CompleteFundFromBank,
\* service/wallet_service.go: a webhook is not answered with 200 before the
\* wallet was credited, but by the endpoint that swallows errors.
THEOREM NoTopUpIsForgotten == Spec => []NothingForgotten
  <1>1. Init => NothingForgotten
    BY DEF Init, NothingForgotten
  <1> QED  BY <1>1, NextNothingForgotten, FInvAlways, PTL DEF Spec

=============================================================================
