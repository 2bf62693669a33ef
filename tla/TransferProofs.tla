--------------------------- MODULE TransferProofs ---------------------------
(***************************************************************************)
(* Proofs about TransferService, for every number of requests, accounts    *)
(* and amounts.  TInv is the inductive invariant: it ties the program      *)
(* counter of a request to the rows it has written (RowsInv), the row lock *)
(* to the wallet leg and the updated image to the committed row (LockInv), *)
(* and what a request found under its key to what it did next (FoundInv).  *)
(***************************************************************************)
EXTENDS TransferKeys, FiniteSetTheorems, TLAPS

\* A request that has not begun its transaction has left no trace.
Untouched(r) ==
    work[r] = NoTransfer /\ txn[r] = NoTransfer /\ ~paid[r] /\ sessions[r] = {}

\* The rows of a transfer that has reached one of its ends.
Ended(r, t) ==
    /\ t.parent \in {"PENDING", "COMPLETED", "FAILED"}
    /\ t.parent = "PENDING" => t.payout = "NONE"
    /\ t.parent # "PENDING" => t.payout = t.parent /\ t.legs = PlannedLegs(r)

RowsInv ==
    \A r \in Req :
        /\ plan[r].wallet <= AmountOf[r]
        /\ pc[r] \in {"check", "plan", "begin"} => Untouched(r)
        /\ pc[r] # "done" => txn[r] = NoTransfer
        /\ pc[r] = "legs" =>
            work[r].parent = "PENDING" /\ work[r].payout = "NONE"
                /\ work[r].legs \subseteq PlannedLegs(r)
        /\ pc[r] = "settle" =>
            work[r].parent = "PROCESSING" /\ work[r].legs = PlannedLegs(r)
        /\ pc[r] = "commit" =>
            Ended(r, work[r]) /\ work[r].legs \subseteq PlannedLegs(r)
        /\ pc[r] = "done" =>
            work[r] = NoTransfer /\ (txn[r] = NoTransfer \/ Ended(r, txn[r]))

\* The row as a transaction has updated it, from the committed row alone.
ImageOf(r) ==
    LET held == Hold(wallet, plan[r].wallet)
    IN CASE work[r].parent \in {"PENDING", "PROCESSING"} -> held
         [] work[r].parent = "FAILED" -> wallet
         [] OTHER -> IF CanDebit(held, plan[r].wallet)
                       THEN Debit(held, plan[r].wallet) ELSE held

LockInv ==
    /\ \A r \in Req : lock = r <=> (pc[r] \in InTx /\ 0 \in work[r].legs)
    /\ \A r \in Req : lock = r =>
            CanHold(wallet, plan[r].wallet) /\ image = ImageOf(r)
    /\ lock = NoReq => image = NoImage

FoundInv ==
    \A r \in Req :
        found[r] # {} =>
            pc[r] = "done" /\ ~paid[r] /\ sessions[r] = {} /\ txn[r] = NoTransfer

TInv == TypeOK /\ RowsInv /\ LockInv /\ FoundInv

----------------------------------------------------------------------------
(* Facts about the operators.                                              *)

\* No bank contributes a negative amount to a debit plan.
LEMMA SharesType ==
    ASSUME NEW n \in Nat, NEW first \in Nat, NEW avail \in [1..n -> Nat],
           NEW rem \in Remainders(first, avail, n)
    PROVE  BankShares(rem, n) \in [1..n -> Nat]
  <1>1. rem \in [0..n -> 0..first]
    BY DEF Remainders
  <1>2. ASSUME NEW i \in 1..n PROVE rem[i - 1] - rem[i] \in Nat
    <2>1. rem[i - 1] \in Nat /\ avail[i] \in Nat
      BY <1>1
    <2>2. rem[i] = rem[i - 1] - Smaller(avail[i], rem[i - 1])
      BY DEF Remainders
    <2> QED  BY <2>1, <2>2 DEF Smaller
  <1> QED  BY <1>2 DEF BankShares

\* The wallet never pays more than the amount, nor more than it has.
LEMMA ShareBounds ==
    ASSUME NEW a \in Nat, NEW b \in Nat
    PROVE  /\ WalletShare(a, b) \in Nat
           /\ WalletShare(a, b) <= a /\ WalletShare(a, b) <= b
  BY DEF WalletShare, Smaller

\* Where the WHERE clauses match, the four updates keep the CHECKs, and a
\* release undoes a hold.
LEMMA RowUpdates ==
    ASSUME NEW w \in Rows, NEW x \in Nat
    PROVE  /\ Credit(w, x) \in Rows
           /\ CanHold(w, x) => Hold(w, x) \in Rows /\ ReleaseHold(Hold(w, x), x) = w
           /\ CanDebit(w, x) => Debit(w, x) \in Rows
  <1>1. w \in [balance : Nat, ledger : Nat] /\ w.ledger <= w.balance
    BY DEF Rows, Checked
  <1>2. Credit(w, x) \in Rows
    BY <1>1 DEF Rows, Checked, Credit
  <1>3. CanHold(w, x) => Hold(w, x) \in Rows
    BY <1>1 DEF Rows, Checked, CanHold, Hold
  <1>4. ReleaseHold(Hold(w, x), x) = w
    <2>1. Hold(w, x) = [balance |-> w.balance, ledger |-> w.ledger - x]
      BY <1>1 DEF Hold
    <2>2. ReleaseHold(Hold(w, x), x) = [balance |-> w.balance, ledger |-> w.ledger]
      BY <1>1, <2>1 DEF ReleaseHold
    <2> QED  BY <1>1, <2>2
  <1>5. CanDebit(w, x) => Debit(w, x) \in Rows
    BY <1>1 DEF Rows, Checked, CanDebit, Debit
  <1> QED  BY <1>2, <1>3, <1>4, <1>5

\* Whatever a transaction has done to the row it holds passes the CHECKs.
LEMMA ImageIsRow ==
    ASSUME TypeOK, LockInv, NEW r \in Req, lock = r
    PROVE  ImageOf(r) \in Rows
  <1> DEFINE x == plan[r].wallet
  <1>1. wallet \in Rows /\ x \in Nat /\ CanHold(wallet, x)
    BY DEF TypeOK, LockInv
  <1>2. Hold(wallet, x) \in Rows
    BY <1>1, RowUpdates
  <1>3. CanDebit(Hold(wallet, x), x) => Debit(Hold(wallet, x), x) \in Rows
    BY <1>1, <1>2, RowUpdates
  <1> QED  BY <1>1, <1>2, <1>3 DEF ImageOf

\* Writing statuses into a transfer's rows, or adding a leg, keeps their type.
LEMMA TransferUpdates ==
    ASSUME NEW t \in Transfers
    PROVE  /\ \A p, o \in Statuses :
                    [t EXCEPT !.parent = p, !.payout = o] \in Transfers
           /\ \A i \in 0..NBanks : [t EXCEPT !.legs = @ \cup {i}] \in Transfers
  <1>1. t.parent \in Statuses /\ t.payout \in Statuses /\ t.legs \in SUBSET (0..NBanks)
    BY DEF Transfers
  <1>2. ASSUME NEW p \in Statuses, NEW o \in Statuses
        PROVE  [t EXCEPT !.parent = p, !.payout = o] \in Transfers
    <2>1. [t EXCEPT !.parent = p, !.payout = o]
            = [parent |-> p, payout |-> o, legs |-> t.legs]
      <3> DEFINE u == [t EXCEPT !.parent = p]
      <3>1. u = [parent |-> p, payout |-> t.payout, legs |-> t.legs]
        BY DEF Transfers
      <3> HIDE DEF u
      <3>2. [u EXCEPT !.payout = o] = [parent |-> p, payout |-> o, legs |-> t.legs]
        BY <3>1
      <3>3. [t EXCEPT !.parent = p, !.payout = o] = [u EXCEPT !.payout = o]
        BY DEF u, Transfers
      <3> QED  BY <3>2, <3>3
    <2> QED  BY <1>1, <2>1 DEF Transfers
  <1>3. ASSUME NEW i \in 0..NBanks
        PROVE  [t EXCEPT !.legs = @ \cup {i}] \in Transfers
    <2>1. [t EXCEPT !.legs = @ \cup {i}]
            = [parent |-> t.parent, payout |-> t.payout, legs |-> t.legs \cup {i}]
      BY DEF Transfers
    <2> QED  BY <1>1, <2>1 DEF Transfers
  <1> QED  BY <1>2, <1>3

----------------------------------------------------------------------------
(* The invariant holds at the start and every step keeps it.               *)

\* The initial state satisfies the invariant.
LEMMA InitTInv == Init => TInv
  <1> SUFFICES ASSUME Init PROVE TInv
    OBVIOUS
  <1>1. NoImage \in Rows /\ wallet \in Rows
    BY WalletAssumption DEF Init, NoImage, Rows, Checked
  <1>2. NoTransfer \in Transfers /\ NoPlan \in [wallet : Nat, banks : [Banks -> Nat]]
    BY DEF NoTransfer, Transfers, Statuses, NoPlan
  <1>3. TypeOK
    BY <1>1, <1>2, WalletAssumption DEF Init, TypeOK, InTx
  <1>4. RowsInv
    BY ReqAssumption DEF Init, RowsInv, Untouched, NoPlan
  <1>5. LockInv
    BY ReqAssumption DEF Init, LockInv, InTx
  <1>6. FoundInv
    BY DEF Init, FoundInv
  <1> QED  BY <1>3, <1>4, <1>5, <1>6 DEF TInv

\* Looking up the key: what is found decides whether the request goes on.
LEMMA KeyStep ==
    ASSUME TInv, NEW r \in Req, CheckKey(r)
    PROVE  TInv'
  <1> USE DEF TInv, CheckKey, dbvars, extvars
  <1>1. CommittedWithKey(r) \subseteq Req
    BY DEF CommittedWithKey
  <1>2. TypeOK'
    BY <1>1 DEF TypeOK, Return, Transfers
  <1>3. RowsInv'
    BY DEF RowsInv, Untouched, Ended, PlannedLegs, Return, TypeOK
  <1>4. LockInv'
    BY DEF LockInv, ImageOf, Return, TypeOK, InTx
  <1>5. FoundInv'
    BY DEF FoundInv, RowsInv, Untouched, Return, TypeOK
  <1> QED  BY <1>2, <1>3, <1>4, <1>5

\* Building the plan outside the transaction changes no row.
LEMMA PlanStep ==
    ASSUME TInv, NEW r \in Req, BuildPlan(r)
    PROVE  TInv'
  <1> USE DEF TInv, dbvars, extvars
  <1> DEFINE first == AmountOf[r] - WalletShare(wallet.ledger, AmountOf[r])
             usable == [b \in Banks |-> IF b \in linked THEN Avail[b] ELSE 0]
  <1>1. /\ wallet.ledger \in Nat /\ AmountOf[r] \in Nat
        /\ WalletShare(wallet.ledger, AmountOf[r]) \in Nat
        /\ WalletShare(wallet.ledger, AmountOf[r]) <= AmountOf[r]
    BY ShareBounds, ReqAssumption DEF TypeOK, Rows
  <1>2. first \in Nat /\ usable \in [1..NBanks -> Nat] /\ NBanks \in Nat
    BY <1>1, BankAssumption DEF Banks
  <1>3. PICK rem \in Remainders(first, usable, NBanks) :
            \/ /\ plan' = [plan EXCEPT ![r] =
                     [wallet |-> WalletShare(wallet.ledger, AmountOf[r]),
                      banks |-> BankShares(rem, NBanks)]]
               /\ pc' = [pc EXCEPT ![r] = "begin"]
               /\ UNCHANGED reply
            \/ Return(r, "error") /\ UNCHANGED plan
    BY DEF BuildPlan
  <1>4. BankShares(rem, NBanks) \in [Banks -> Nat]
    BY <1>2, SharesType DEF Banks
  <1>5. plan' \in [Req -> [wallet : Nat, banks : [Banks -> Nat]]]
    <2> DEFINE new == [wallet |-> WalletShare(wallet.ledger, AmountOf[r]),
                       banks |-> BankShares(rem, NBanks)]
    <2>1. new \in [wallet : Nat, banks : [Banks -> Nat]]
      BY <1>1, <1>4
    <2>2. plan' = [plan EXCEPT ![r] = new] \/ plan' = plan
      BY <1>3
    <2> QED  BY <2>1, <2>2 DEF TypeOK
  <1>6. TypeOK'
    BY <1>3, <1>5 DEF BuildPlan, TypeOK, Return
  <1>7. RowsInv'
    BY <1>1, <1>3 DEF BuildPlan, RowsInv, Untouched, Ended, PlannedLegs, Return, TypeOK
  <1>8. LockInv'
    BY <1>3 DEF BuildPlan, LockInv, ImageOf, Return, TypeOK, InTx
  <1>9. FoundInv'
    BY <1>3 DEF BuildPlan, FoundInv, RowsInv, Untouched, Return, TypeOK
  <1> QED  BY <1>6, <1>7, <1>8, <1>9

\* The transaction starts with a PENDING parent and without the row lock.
LEMMA BeginStep ==
    ASSUME TInv, NEW r \in Req, Begin(r)
    PROVE  TInv'
  <1> USE DEF TInv, Begin, extvars
  <1>1. [NoTransfer EXCEPT !.parent = "PENDING"] \in Transfers
    BY DEF NoTransfer, Transfers, Statuses
  <1>2. TypeOK'
    BY <1>1 DEF TypeOK, InTx
  <1>3. RowsInv'
    BY DEF RowsInv, Untouched, Ended, PlannedLegs, NoTransfer, TypeOK
  <1>4. LockInv'
    BY DEF LockInv, ImageOf, TypeOK, InTx, NoTransfer, RowsInv, Untouched
  <1>5. FoundInv'
    BY DEF FoundInv, TypeOK
  <1> QED  BY <1>2, <1>3, <1>4, <1>5

\* The wallet leg either takes the lock and updates the image, or ends the
\* request with an error and no hold.
LEMMA WalletStep ==
    ASSUME TInv, NEW r \in Req, WalletLeg(r)
    PROVE  TInv'
  <1> USE DEF TInv, extvars
  <1> DEFINE x == plan[r].wallet
  <1>1. x \in Nat /\ wallet \in Rows /\ 0 \in PlannedLegs(r) /\ lock = NoReq
    BY DEF WalletLeg, NextLeg, RowFree, TypeOK
  <1>2. pc[r] = "legs" /\ work[r].parent = "PENDING" /\ lock # r
    BY <1>1, ReqAssumption DEF WalletLeg, RowsInv
  <1>3. CASE CanHold(wallet, x) /\ lock' = r
    <2>1. /\ image' = Hold(wallet, x) /\ pc' = pc /\ reply' = reply
          /\ work' = [work EXCEPT ![r].legs = @ \cup {0}]
          /\ UNCHANGED <<wallet, txn, plan, paystack, linked, sessions, paid, found, deposited>>
      BY <1>3, <1>2 DEF WalletLeg
    <2>2. Hold(wallet, x) \in Rows
      BY <1>1, <1>3, RowUpdates
    <2>3. 0 \in 0..NBanks
      BY BankAssumption
    <2>4. TypeOK'
      BY <2>1, <2>2, <2>3, <1>3 DEF TypeOK, Transfers
    <2>5. RowsInv'
      BY <2>1, <1>1, <1>2 DEF RowsInv, Untouched, Ended, PlannedLegs, TypeOK, Transfers
    <2>6. LockInv'
      <3>1. \A q \in Req : q # r => lock # q
        BY <1>1, ReqAssumption
      <3>2. ImageOf(r)' = Hold(wallet, x)
        BY <2>1, <1>2 DEF ImageOf, TypeOK, Transfers
      <3>3. 0 \in work'[r].legs /\ pc'[r] \in InTx
        BY <2>1, <1>2 DEF InTx, TypeOK, Transfers
      <3>4. \A q \in Req : q # r => work'[q] = work[q] /\ pc'[q] = pc[q]
        BY <2>1 DEF TypeOK
      <3> QED  BY <3>1, <3>2, <3>3, <3>4, <2>1, <1>3, <1>1, ReqAssumption DEF LockInv
    <2>7. FoundInv'
      BY <2>1 DEF FoundInv
    <2> QED  BY <2>4, <2>5, <2>6, <2>7
  <1>4. CASE /\ pc' = [pc EXCEPT ![r] = "commit"]
             /\ reply' = [reply EXCEPT ![r] = "error"]
             /\ UNCHANGED <<lock, image, work>>
    <2>1. UNCHANGED <<wallet, txn, plan, paystack, linked, sessions, paid, found, deposited>>
      BY DEF WalletLeg
    <2>2. TypeOK'
      BY <1>4, <2>1 DEF TypeOK, InTx
    <2>3. RowsInv'
      BY <1>4, <1>2, <2>1 DEF RowsInv, Untouched, Ended, PlannedLegs, TypeOK
    <2>4. LockInv'
      BY <1>4, <1>2, <2>1 DEF LockInv, ImageOf, InTx, TypeOK
    <2>5. FoundInv'
      BY <1>4, <1>2, <2>1 DEF FoundInv, TypeOK
    <2> QED  BY <2>2, <2>3, <2>4, <2>5
  <1> QED  BY <1>3, <1>4 DEF WalletLeg

\* A bank leg, however it ends, touches neither the lock nor the image.
LEMMA BankStep ==
    ASSUME TInv, NEW r \in Req, NEW b \in Banks,
           BankLeg(r, b) \/ BankLegFails(r, b) \/ BankGone(r, b)
    PROVE  TInv'
  <1> USE DEF TInv
  <1>1. /\ pc[r] = "legs" /\ b \in PlannedLegs(r) /\ b # 0 /\ b \in 0..NBanks
        /\ work[r].parent = "PENDING" /\ work[r].payout = "NONE"
    BY BankAssumption DEF BankLeg, BankLegFails, BankGone, NextLeg, Banks, RowsInv
  <1>2. /\ work' = [work EXCEPT ![r].legs = @ \cup {b}] \/ work' = work
        /\ pc' = [pc EXCEPT ![r] = "commit"] \/ pc' = pc
        /\ reply' = [reply EXCEPT ![r] = "error"] \/ reply' = reply
        /\ \E s \in SUBSET {b} : sessions' = [sessions EXCEPT ![r] = @ \cup s]
        /\ UNCHANGED <<wallet, lock, image, txn, plan, paystack, linked, paid, found, deposited>>
    <2>1. \E s \in SUBSET {b} : sessions' = [sessions EXCEPT ![r] = @ \cup s]
      <3>1. CASE BankLeg(r, b)
        BY <3>1 DEF BankLeg
      <3>2. CASE BankLegFails(r, b)
        BY <3>2 DEF BankLegFails
      <3>3. CASE BankGone(r, b)
        <4>1. sessions = [sessions EXCEPT ![r] = @ \cup {}]
          BY DEF TypeOK
        <4> QED  BY <3>3, <4>1 DEF BankGone, extvars
      <3> QED  BY <3>1, <3>2, <3>3
    <2> QED  BY <2>1 DEF BankLeg, BankLegFails, BankGone, dbvars, extvars
  <1>3. TypeOK'
    <2>1. work' \in [Req -> Transfers]
      <3>1. work[r] \in Transfers /\ work \in [Req -> Transfers]
        BY DEF TypeOK
      <3>2. [work[r] EXCEPT !.legs = @ \cup {b}] \in Transfers
        BY <3>1, <1>1, TransferUpdates
      <3> QED  BY <3>1, <3>2, <1>2
    <2>2. sessions' \in [Req -> SUBSET Banks]
      BY <1>2 DEF TypeOK
    <2> QED  BY <2>1, <2>2, <1>2 DEF TypeOK, InTx
  <1>4. RowsInv'
    BY <1>1, <1>2 DEF RowsInv, Untouched, Ended, PlannedLegs, TypeOK, Transfers
  <1>5. LockInv'
    <2>1. \A q \in Req :
            /\ work'[q].parent = work[q].parent
            /\ 0 \in work'[q].legs <=> 0 \in work[q].legs
            /\ pc'[q] \in InTx <=> pc[q] \in InTx
      <3>1. work[r] \in Transfers /\ work \in [Req -> Transfers]
        BY DEF TypeOK
      <3>2. \/ work'[r] = [work[r] EXCEPT !.legs = @ \cup {b}]
            \/ work'[r] = work[r]
        BY <3>1, <1>2
      <3>3. work'[r].parent = work[r].parent /\ (0 \in work'[r].legs <=> 0 \in work[r].legs)
        BY <3>1, <3>2, <1>1 DEF Transfers
      <3>4. \A q \in Req \ {r} : work'[q] = work[q] /\ pc'[q] = pc[q]
        BY <1>2 DEF TypeOK
      <3>5. pc'[r] \in InTx /\ pc[r] \in InTx
        BY <1>1, <1>2 DEF TypeOK, InTx
      <3> QED  BY <3>3, <3>4, <3>5
    <2>2. \A q \in Req : ImageOf(q)' = ImageOf(q)
      BY <2>1, <1>2 DEF ImageOf
    <2> QED  BY <2>1, <2>2, <1>2 DEF LockInv
  <1>6. FoundInv'
    BY <1>1, <1>2 DEF FoundInv, TypeOK
  <1> QED  BY <1>3, <1>4, <1>5, <1>6

\* The payout, sent or simulated, changes statuses only.
LEMMA PayoutStep ==
    ASSUME TInv, NEW r \in Req, SendPayout(r)
    PROVE  TInv'
  <1> USE DEF TInv, SendPayout, LegsDone
  <1>1. work[r].legs = PlannedLegs(r) /\ pc[r] = "legs" /\ work[r].parent = "PENDING"
    BY DEF RowsInv
  <1>2. TypeOK'
    <2>1. work' \in [Req -> Transfers]
      <3>1. work[r] \in Transfers /\ work \in [Req -> Transfers]
        BY DEF TypeOK
      <3>2. [work[r] EXCEPT !.parent = "PROCESSING", !.payout = "PENDING"] \in Transfers
        BY <3>1, TransferUpdates DEF Statuses
      <3> QED  BY <3>1, <3>2
    <2>2. paid' \in [Req -> BOOLEAN]
      BY DEF TypeOK
    <2> QED  BY <2>1, <2>2 DEF TypeOK, InTx
  <1>3. RowsInv'
    BY <1>1 DEF RowsInv, Untouched, Ended, PlannedLegs, TypeOK, Transfers
  <1>4. LockInv'
    BY <1>1 DEF LockInv, ImageOf, InTx, TypeOK, Transfers
  <1>5. FoundInv'
    BY <1>1 DEF FoundInv, TypeOK
  <1> QED  BY <1>2, <1>3, <1>4, <1>5

\* When the payout fails the image goes back to the committed row.
LEMMA PayoutFailsStep ==
    ASSUME TInv, NEW r \in Req, PayoutFails(r)
    PROVE  TInv'
  <1> USE DEF TInv
  <1>1. /\ work[r].legs = PlannedLegs(r) /\ pc[r] = "legs"
        /\ work[r].parent = "PENDING"
        /\ work' = [work EXCEPT ![r].parent = "FAILED", ![r].payout = "FAILED"]
        /\ pc' = [pc EXCEPT ![r] = "commit"]
        /\ reply' = [reply EXCEPT ![r] = "error"]
        /\ image' = Released(r)
        /\ UNCHANGED <<wallet, lock, txn, plan, paystack, linked, sessions, found, deposited>>
    BY DEF RowsInv, PayoutFails, LegsDone
  <1>2. paid' \in [Req -> BOOLEAN] /\ \A q \in Req \ {r} : paid'[q] = paid[q]
    BY DEF PayoutFails, TypeOK
  <1>3. lock = r <=> 0 \in PlannedLegs(r)
    BY <1>1 DEF LockInv, InTx
  <1>4. lock = r => Released(r) = wallet
    <2> SUFFICES ASSUME lock = r PROVE Released(r) = wallet
      OBVIOUS
    <2>1. image = Hold(wallet, plan[r].wallet) /\ CanHold(wallet, plan[r].wallet)
      BY <1>1 DEF LockInv, ImageOf
    <2>2. ReleaseHold(Hold(wallet, plan[r].wallet), plan[r].wallet) = wallet
      BY <2>1, RowUpdates DEF TypeOK
    <2> QED  BY <2>1, <2>2, <1>3 DEF Released
  <1>5. lock # r => Released(r) = image
    BY <1>3 DEF Released
  <1>6. TypeOK'
    <2>1. work' \in [Req -> Transfers]
      <3>1. work[r] \in Transfers /\ work \in [Req -> Transfers]
        BY DEF TypeOK
      <3>2. [work[r] EXCEPT !.parent = "FAILED", !.payout = "FAILED"] \in Transfers
        BY <3>1, TransferUpdates DEF Statuses
      <3> QED  BY <3>1, <3>2, <1>1
    <2>2. image' \in Rows
      BY <1>1, <1>4, <1>5 DEF TypeOK
    <2> QED  BY <2>1, <2>2, <1>1, <1>2 DEF TypeOK, InTx
  <1>7. RowsInv'
    BY <1>1, <1>2 DEF RowsInv, Untouched, Ended, PlannedLegs, TypeOK, Transfers
  <1>8. LockInv'
    <2>1. \A q \in Req :
            /\ 0 \in work'[q].legs <=> 0 \in work[q].legs
            /\ pc'[q] \in InTx <=> pc[q] \in InTx
            /\ q # r => work'[q] = work[q]
      BY <1>1 DEF TypeOK, Transfers, InTx
    <2>2. ImageOf(r)' = wallet
      BY <1>1 DEF ImageOf, TypeOK, Transfers
    <2>3. \A q \in Req : q # r => ImageOf(q)' = ImageOf(q)
      BY <2>1, <1>1 DEF ImageOf
    <2>4. lock = NoReq => lock # r
      BY ReqAssumption
    <2> QED  BY <2>1, <2>2, <2>3, <2>4, <1>1, <1>4, <1>5 DEF LockInv
  <1>9. FoundInv'
    BY <1>1, <1>2 DEF FoundInv, TypeOK
  <1> QED  BY <1>6, <1>7, <1>8, <1>9

\* Settling debits the held row where the WHERE clause of Debit allows it.
LEMMA SettleStep ==
    ASSUME TInv, NEW r \in Req, Settle(r)
    PROVE  TInv'
  <1> USE DEF TInv
  <1> DEFINE x == plan[r].wallet
             new == IF CanDebit(image, x) THEN Debit(image, x) ELSE image
  <1>1. /\ work[r].legs = PlannedLegs(r) /\ pc[r] = "settle"
        /\ work[r].parent = "PROCESSING"
        /\ work' = [work EXCEPT ![r].parent = "COMPLETED", ![r].payout = "COMPLETED"]
        /\ pc' = [pc EXCEPT ![r] = "commit"]
        /\ reply' = [reply EXCEPT ![r] = "COMPLETED"]
        /\ UNCHANGED <<wallet, lock, txn, plan, paystack, linked, sessions, paid, found, deposited>>
    BY DEF RowsInv, Settle, extvars
  <1>2. lock = r <=> 0 \in PlannedLegs(r)
    BY <1>1 DEF LockInv, InTx
  <1>3. image' = IF lock = r THEN new ELSE image
    BY <1>2 DEF Settle
  <1>4. new \in Rows
    BY RowUpdates DEF TypeOK
  <1>5. TypeOK'
    <2>1. work' \in [Req -> Transfers]
      <3>1. work[r] \in Transfers /\ work \in [Req -> Transfers]
        BY DEF TypeOK
      <3>2. [work[r] EXCEPT !.parent = "COMPLETED", !.payout = "COMPLETED"] \in Transfers
        BY <3>1, TransferUpdates DEF Statuses
      <3> QED  BY <3>1, <3>2, <1>1
    <2>2. image' \in Rows
      BY <1>3, <1>4 DEF TypeOK
    <2> QED  BY <2>1, <2>2, <1>1 DEF TypeOK, InTx, Statuses
  <1>6. RowsInv'
    BY <1>1 DEF RowsInv, Untouched, Ended, PlannedLegs, TypeOK, Transfers
  <1>7. LockInv'
    <2>1. \A q \in Req :
            /\ 0 \in work'[q].legs <=> 0 \in work[q].legs
            /\ pc'[q] \in InTx <=> pc[q] \in InTx
            /\ q # r => work'[q] = work[q]
      BY <1>1 DEF TypeOK, Transfers, InTx
    <2>2. lock = r => image = Hold(wallet, x)
      BY <1>1 DEF LockInv, ImageOf
    <2>3. work'[r].parent = "COMPLETED"
      BY <1>1 DEF TypeOK, Transfers
    <2>4. lock = r => ImageOf(r)' = new
      BY <2>2, <2>3, <1>1 DEF ImageOf
    <2>5. \A q \in Req : q # r => ImageOf(q)' = ImageOf(q)
      BY <2>1, <1>1 DEF ImageOf
    <2>6. lock = NoReq => lock # r
      BY ReqAssumption
    <2> QED  BY <2>1, <2>4, <2>5, <2>6, <1>1, <1>3 DEF LockInv
  <1>8. FoundInv'
    BY <1>1 DEF FoundInv, TypeOK
  <1> QED  BY <1>5, <1>6, <1>7, <1>8

\* Unlocking at the end of r's transaction: r leaves the lock, and for the
\* others nothing changes.
LEMMA UnlockKeepsLockInv ==
    ASSUME TInv, NEW r \in Req, Unlock(r),
           pc' = [pc EXCEPT ![r] = "done"],
           \A q \in Req \ {r} : work'[q] = work[q],
           lock # r => wallet' = wallet, plan' = plan
    PROVE  LockInv' /\ image' \in Rows /\ lock' \in Req \cup {NoReq}
  <1> USE DEF TInv
  <1>1. NoImage \in Rows
    BY DEF NoImage, Rows, Checked
  <1>2. pc'[r] \notin InTx /\ \A q \in Req \ {r} : pc'[q] = pc[q]
    BY DEF TypeOK, InTx
  <1>3. CASE lock = r
    <2>1. lock' = NoReq /\ image' = NoImage
      BY <1>3 DEF Unlock
    <2>2. \A q \in Req : q # r => ~(pc[q] \in InTx /\ 0 \in work[q].legs)
      BY <1>3 DEF LockInv
    <2> QED  BY <1>1, <1>2, <2>1, <2>2, ReqAssumption DEF LockInv
  <1>4. CASE lock # r
    <2>1. lock' = lock /\ image' = image /\ wallet' = wallet
      BY <1>4 DEF Unlock
    <2>2. \A q \in Req : q # r => ImageOf(q)' = ImageOf(q)
      BY <2>1 DEF ImageOf
    <2> QED  BY <1>2, <1>4, <2>1, <2>2 DEF LockInv, TypeOK
  <1> QED  BY <1>3, <1>4

\* Committing publishes the rows, and the image if the transaction has one.
LEMMA CommitStep ==
    ASSUME TInv, NEW r \in Req, Commit(r)
    PROVE  TInv'
  <1> USE DEF TInv, Commit, extvars
  <1>1. NoTransfer \in Transfers
    BY DEF NoTransfer, Transfers, Statuses
  <1>2. LockInv' /\ image' \in Rows /\ lock' \in Req \cup {NoReq}
    BY UnlockKeepsLockInv DEF TypeOK
  <1>3. TypeOK'
    BY <1>1, <1>2 DEF TypeOK
  <1>4. RowsInv'
    BY DEF RowsInv, Untouched, Ended, PlannedLegs, TypeOK
  <1>5. FoundInv'
    BY DEF FoundInv, TypeOK
  <1> QED  BY <1>2, <1>3, <1>4, <1>5

\* A transaction that is discarded, by a failed commit or before, leaves the
\* committed rows as they were.
LEMMA DiscardStep ==
    ASSUME TInv, NEW r \in Req, CommitFails(r) \/ Abort(r)
    PROVE  TInv'
  <1> USE DEF TInv, Discard, extvars
  <1>1. Discard(r) /\ pc[r] # "done"
    BY DEF CommitFails, Abort
  <1>2. reply' = reply \/ reply' = [reply EXCEPT ![r] = "error"]
    BY DEF CommitFails, Abort
  <1>3. NoTransfer \in Transfers
    BY DEF NoTransfer, Transfers, Statuses
  <1>4. LockInv' /\ image' \in Rows /\ lock' \in Req \cup {NoReq}
    BY <1>1, UnlockKeepsLockInv DEF TypeOK
  <1>5. TypeOK'
    BY <1>1, <1>2, <1>3, <1>4 DEF TypeOK
  <1>6. RowsInv'
    BY <1>1 DEF RowsInv, Untouched, Ended, PlannedLegs, TypeOK
  <1>7. FoundInv'
    BY <1>1 DEF FoundInv, TypeOK
  <1> QED  BY <1>4, <1>5, <1>6, <1>7

\* Credits wait for the row lock, and unlinking an account is not seen by the
\* rows of a transfer.
LEMMA OtherStep ==
    ASSUME TInv, (\E x \in Deposits : Deposit(x)) \/ (\E b \in Banks : Unlink(b))
    PROVE  TInv'
  <1> USE DEF TInv, extvars, dbvars
  <1>1. CASE \E x \in Deposits : Deposit(x)
    <2>1. PICK x \in Deposits : Deposit(x)
      BY <1>1
    <2>2. x \in Nat /\ wallet' \in Rows /\ deposited' \in Nat
      BY <2>1, WalletAssumption, RowUpdates DEF TypeOK, Deposit
    <2>3. TypeOK'
      BY <2>1, <2>2 DEF TypeOK, Deposit
    <2>4. RowsInv' /\ FoundInv'
      BY <2>1 DEF RowsInv, FoundInv, Untouched, Ended, PlannedLegs, Deposit
    <2>5. LockInv'
      BY <2>1, ReqAssumption DEF LockInv, Deposit, RowFree
    <2> QED  BY <2>3, <2>4, <2>5
  <1>2. CASE \E b \in Banks : Unlink(b)
    <2>1. PICK b \in Banks : Unlink(b)
      BY <1>2
    <2>2. TypeOK'
      BY <2>1 DEF TypeOK, Unlink
    <2>3. RowsInv' /\ FoundInv' /\ LockInv'
      BY <2>1 DEF RowsInv, FoundInv, LockInv, ImageOf, Untouched, Ended, PlannedLegs, Unlink
    <2> QED  BY <2>2, <2>3
  <1> QED  BY <1>1, <1>2

\* Every step of the specification keeps the invariant.
LEMMA NextTInv == TInv /\ [Next]_vars => TInv'
  <1> SUFFICES ASSUME TInv, [Next]_vars PROVE TInv'
    OBVIOUS
  <1>1. ASSUME NEW r \in Req, RequestStep(r) PROVE TInv'
    BY <1>1, KeyStep, PlanStep, BeginStep, WalletStep, BankStep, PayoutStep,
       PayoutFailsStep, SettleStep, CommitStep DEF RequestStep
  <1>2. ASSUME NEW r \in Req, CommitFails(r) \/ Abort(r) PROVE TInv'
    BY <1>2, DiscardStep
  <1>3. CASE UNCHANGED vars
    BY <1>3 DEF vars, TInv, TypeOK, RowsInv, LockInv, FoundInv, ImageOf,
       Untouched, Ended, PlannedLegs
  <1> QED  BY <1>1, <1>2, <1>3, OtherStep DEF Next

----------------------------------------------------------------------------
(* What a completed transfer is paid with.                                 *)

Backed(r) ==
    /\ AddsUp(plan[r].wallet, plan[r].banks, NBanks, AmountOf[r])
    /\ {b \in Banks : plan[r].banks[b] > 0} \subseteq sessions[r]
    /\ paystack => paid[r]

PaidInv ==
    \A r \in Req :
        /\ pc[r] \in {"begin"} \cup InTx =>
                AddsUp(plan[r].wallet, plan[r].banks, NBanks, AmountOf[r])
        /\ pc[r] = "legs" => work[r].legs \ {0} \subseteq sessions[r]
        /\ pc[r] = "settle" \/ work[r].parent = "COMPLETED" \/ txn[r].parent = "COMPLETED"
                => Backed(r)

\* A plan that leaves nothing to be sourced adds up to the amount.
LEMMA PlanAddsUp ==
    ASSUME NEW n \in Nat, NEW amount \in Nat, NEW w \in 0..amount,
           NEW avail \in [1..n -> Nat],
           NEW rem \in Remainders(amount - w, avail, n), rem[n] = 0
    PROVE  AddsUp(w, BankShares(rem, n), n, amount)
  <1> DEFINE total == [i \in 0..n |-> amount - rem[i]]
  <1>1. rem \in [0..n -> 0..(amount - w)] /\ rem[0] = amount - w
    BY DEF Remainders
  <1>2. total \in [0..n -> 0..amount]
    BY <1>1
  <1>3. total[0] = w /\ total[n] = amount
    BY <1>1
  <1>4. ASSUME NEW i \in 1..n
        PROVE  total[i] = total[i - 1] + BankShares(rem, n)[i]
    <2>1. i \in 0..n /\ i - 1 \in 0..n
      OBVIOUS
    <2>2. BankShares(rem, n)[i] = rem[i - 1] - rem[i]
      BY DEF BankShares
    <2>3. rem[i] \in Nat /\ rem[i - 1] \in Nat
      BY <1>1, <2>1
    <2> QED  BY <2>1, <2>2, <2>3
  <1> HIDE DEF total
  <1> QED  BY <1>2, <1>3, <1>4 DEF AddsUp

\* Every step keeps PaidInv.
LEMMA NextPaidInv == TInv /\ PaidInv /\ [Next]_vars => PaidInv'
  <1> SUFFICES ASSUME TInv, PaidInv, [Next]_vars PROVE PaidInv'
    OBVIOUS
  <1> USE DEF TInv
  <1>1. ASSUME NEW r \in Req, CheckKey(r) PROVE PaidInv'
    BY <1>1 DEF CheckKey, Return, PaidInv, Backed, dbvars, extvars, TypeOK, InTx
  <1>2. ASSUME NEW r \in Req, BuildPlan(r) PROVE PaidInv'
    <2> DEFINE w == WalletShare(wallet.ledger, AmountOf[r])
               usable == [b \in Banks |-> IF b \in linked THEN Avail[b] ELSE 0]
    <2>1. w \in 0..AmountOf[r] /\ AmountOf[r] \in Nat
      BY ShareBounds, ReqAssumption DEF TypeOK, Rows
    <2>2. usable \in [1..NBanks -> Nat] /\ NBanks \in Nat
      BY BankAssumption DEF Banks
    <2>3. pc[r] = "plan" /\ Untouched(r) /\ UNCHANGED <<txn, work, sessions, paystack, paid>>
      BY <1>2 DEF BuildPlan, RowsInv, dbvars, extvars
    <2>4. PICK rem \in Remainders(AmountOf[r] - w, usable, NBanks) :
            \/ /\ rem[NBanks] = 0
               /\ plan' = [plan EXCEPT ![r] = [wallet |-> w, banks |-> BankShares(rem, NBanks)]]
               /\ pc' = [pc EXCEPT ![r] = "begin"]
            \/ /\ pc' = [pc EXCEPT ![r] = "done"]
               /\ UNCHANGED plan
      BY <1>2 DEF BuildPlan, Return
    <2>5. \A q \in Req \ {r} : pc'[q] = pc[q] /\ plan'[q] = plan[q]
      BY <2>4 DEF TypeOK
    <2>6. rem[NBanks] = 0 => AddsUp(w, BankShares(rem, NBanks), NBanks, AmountOf[r])
      BY <2>1, <2>2, PlanAddsUp
    <2>7. pc'[r] = "done" \/ (pc'[r] = "begin"
                /\ AddsUp(plan'[r].wallet, plan'[r].banks, NBanks, AmountOf[r]))
      BY <2>4, <2>6 DEF TypeOK
    <2> QED  BY <2>3, <2>5, <2>7 DEF PaidInv, Backed, Untouched, NoTransfer, InTx
  <1>3. ASSUME NEW r \in Req, Begin(r) PROVE PaidInv'
    BY <1>3 DEF Begin, PaidInv, Backed, extvars, TypeOK, NoTransfer, InTx, RowsInv, Untouched
  <1>4. ASSUME NEW r \in Req, WalletLeg(r) PROVE PaidInv'
    <2>1. /\ work' = work \/ work' = [work EXCEPT ![r].legs = @ \cup {0}]
          /\ pc' = pc \/ pc' = [pc EXCEPT ![r] = "commit"]
          /\ pc[r] = "legs" /\ work[r].parent = "PENDING"
          /\ UNCHANGED <<txn, plan, sessions, paystack, paid>>
      BY <1>4 DEF WalletLeg, extvars, RowsInv
    <2>2. \A q \in Req : /\ work'[q].parent = work[q].parent
                         /\ work'[q].legs \ {0} = work[q].legs \ {0}
      <3>1. work[r] \in Transfers /\ work \in [Req -> Transfers]
        BY DEF TypeOK
      <3>2. work'[r] = work[r] \/ work'[r] = [work[r] EXCEPT !.legs = @ \cup {0}]
        BY <2>1, <3>1
      <3>3. work'[r].parent = work[r].parent /\ work'[r].legs \ {0} = work[r].legs \ {0}
        BY <3>1, <3>2 DEF Transfers
      <3> QED  BY <2>1, <3>1, <3>3
    <2>3. \A q \in Req : pc'[q] = pc[q] \/ (pc'[q] = "commit" /\ pc[q] = "legs")
      BY <2>1 DEF TypeOK
    <2> QED  BY <2>1, <2>2, <2>3 DEF PaidInv, Backed, InTx
  <1>5. ASSUME NEW r \in Req, NEW b \in Banks,
               BankLeg(r, b) \/ BankLegFails(r, b) \/ BankGone(r, b)
        PROVE  PaidInv'
    <2>1. /\ work' = [work EXCEPT ![r].legs = @ \cup {b}] \/ work' = work
          /\ pc[r] = "legs" /\ work[r].parent = "PENDING" /\ txn[r] = NoTransfer
          /\ UNCHANGED <<txn, plan, paystack, paid>>
          /\ \/ pc' = [pc EXCEPT ![r] = "commit"]
             \/ pc' = pc /\ sessions' = [sessions EXCEPT ![r] = @ \cup {b}]
      BY <1>5 DEF BankLeg, BankLegFails, BankGone, extvars, dbvars, RowsInv
    <2>2. \A q \in Req : sessions[q] \subseteq sessions'[q]
      <3>1. CASE BankLeg(r, b)
        BY <3>1 DEF BankLeg, TypeOK
      <3>2. CASE BankLegFails(r, b)
        BY <3>2 DEF BankLegFails, TypeOK
      <3>3. CASE BankGone(r, b)
        BY <3>3 DEF BankGone, extvars
      <3> QED  BY <1>5, <3>1, <3>2, <3>3
    <2>3. \A q \in Req : /\ work'[q].parent = work[q].parent
                         /\ q # r => work'[q] = work[q] /\ pc'[q] = pc[q]
      BY <2>1 DEF TypeOK, Transfers
    <2>4. pc'[r] = "commit" \/ (pc'[r] = "legs" /\ work'[r].legs \ {0} \subseteq sessions'[r])
      <3>1. CASE pc' = [pc EXCEPT ![r] = "commit"]
        BY <3>1 DEF TypeOK
      <3>2. CASE pc' = pc /\ sessions' = [sessions EXCEPT ![r] = @ \cup {b}]
        <4>1. work'[r].legs \subseteq work[r].legs \cup {b}
          BY <2>1 DEF TypeOK, Transfers
        <4>2. sessions'[r] = sessions[r] \cup {b}
          BY <3>2 DEF TypeOK
        <4> QED  BY <2>1, <3>2, <4>1, <4>2 DEF PaidInv
      <3> QED  BY <2>1, <3>1, <3>2
    <2> QED  BY <2>1, <2>2, <2>3, <2>4 DEF PaidInv, Backed, InTx, NoTransfer
  <1>6. ASSUME NEW r \in Req, SendPayout(r) PROVE PaidInv'
    <2>1. /\ pc[r] = "legs" /\ work[r].legs = PlannedLegs(r) /\ txn[r] = NoTransfer
          /\ UNCHANGED <<txn, plan, paystack, sessions>>
          /\ pc' = [pc EXCEPT ![r] = "settle"] /\ paid' = [paid EXCEPT ![r] = paystack]
      BY <1>6 DEF SendPayout, LegsDone, RowsInv
    <2>2. Backed(r)'
      <3>1. {b \in Banks : plan[r].banks[b] > 0} \subseteq PlannedLegs(r) \ {0}
        BY BankAssumption DEF PlannedLegs, Banks
      <3> QED  BY <2>1, <3>1 DEF PaidInv, Backed, InTx, TypeOK
    <2>3. \A q \in Req \ {r} : work'[q] = work[q] /\ pc'[q] = pc[q] /\ paid'[q] = paid[q]
      BY <1>6, <2>1 DEF SendPayout, TypeOK
    <2>4. pc'[r] = "settle"
      BY <2>1 DEF TypeOK
    <2> QED  BY <2>1, <2>2, <2>3, <2>4 DEF PaidInv, Backed, InTx, NoTransfer
  <1>7. ASSUME NEW r \in Req, PayoutFails(r) PROVE PaidInv'
    <2>1. /\ pc[r] = "legs" /\ txn[r] = NoTransfer
          /\ UNCHANGED <<txn, plan, paystack, sessions>>
          /\ pc' = [pc EXCEPT ![r] = "commit"]
          /\ work' = [work EXCEPT ![r].parent = "FAILED", ![r].payout = "FAILED"]
      BY <1>7 DEF PayoutFails, LegsDone, RowsInv
    <2>2. /\ \A q \in Req \ {r} : work'[q] = work[q] /\ pc'[q] = pc[q] /\ paid'[q] = paid[q]
          /\ work'[r].parent = "FAILED" /\ pc'[r] = "commit"
      BY <1>7, <2>1 DEF PayoutFails, TypeOK, Transfers
    <2>3. \A q \in Req \ {r} : Backed(q)' = Backed(q)
      BY <2>1, <2>2 DEF Backed
    <2>4. AddsUp(plan[r].wallet, plan[r].banks, NBanks, AmountOf[r])
      BY <2>1 DEF PaidInv, InTx
    <2>5. txn[r].parent = "NONE"
      BY <2>1 DEF NoTransfer
    <2>6. ASSUME NEW q \in Req \ {r}
          PROVE  /\ pc'[q] \in {"begin"} \cup InTx =>
                        AddsUp(plan[q].wallet, plan[q].banks, NBanks, AmountOf[q])
                 /\ pc'[q] = "legs" => work'[q].legs \ {0} \subseteq sessions[q]
                 /\ pc'[q] = "settle" \/ work'[q].parent = "COMPLETED"
                        \/ txn[q].parent = "COMPLETED" => Backed(q)
      BY <2>2 DEF PaidInv
    <2> QED  BY <2>1, <2>2, <2>3, <2>4, <2>5, <2>6 DEF PaidInv
  <1>8. ASSUME NEW r \in Req, Settle(r) PROVE PaidInv'
    <2>1. /\ pc[r] = "settle" /\ UNCHANGED <<txn, plan, paystack, sessions, paid>>
          /\ \A q \in Req \ {r} : work'[q] = work[q]
      BY <1>8 DEF Settle, extvars, TypeOK
    <2>2. \A q \in Req : pc'[q] = IF q = r THEN "commit" ELSE pc[q]
      BY <1>8 DEF Settle, TypeOK
    <2>3. Backed(r) /\ \A q \in Req : Backed(q)' = Backed(q)
      BY <2>1 DEF PaidInv, Backed
    <2>4. \A q \in Req : pc'[q] \in {"begin"} \cup InTx =>
                AddsUp(plan[q].wallet, plan[q].banks, NBanks, AmountOf[q])
      BY <2>2, <2>3 DEF PaidInv, Backed
    <2> QED  BY <2>1, <2>2, <2>3, <2>4 DEF PaidInv
  <1>9. ASSUME NEW r \in Req, Commit(r) \/ CommitFails(r) \/ Abort(r) PROVE PaidInv'
    <2>1. /\ \A q \in Req : /\ pc'[q] = IF q = r THEN "done" ELSE pc[q]
                            /\ work'[q] = IF q = r THEN NoTransfer ELSE work[q]
                            /\ txn'[q] = txn[q] \/ (txn'[q] = work[q] /\ q = r)
          /\ UNCHANGED <<plan, paystack, sessions, paid>>
      BY <1>9 DEF Commit, CommitFails, Abort, Discard, extvars, TypeOK
    <2> QED  BY <2>1 DEF PaidInv, Backed, InTx, NoTransfer
  <1>10. CASE (\E x \in Deposits : Deposit(x)) \/ (\E b \in Banks : Unlink(b)) \/ UNCHANGED vars
    BY <1>10 DEF Deposit, Unlink, vars, dbvars, extvars, PaidInv, Backed
  <1> QED  BY <1>1, <1>2, <1>3, <1>4, <1>5, <1>6, <1>7, <1>8, <1>9, <1>10
           DEF Next, RequestStep

----------------------------------------------------------------------------
(* No kobo is spent twice.                                                 *)

\* Legs of these sizes, numbered from from[s] on, share no kobo, and end at top.
Apart(S, from, size) ==
    \A s, t \in S : s = t \/ from[s] + size[s] <= from[t] \/ from[t] + size[t] <= from[s]

Below(S, from, size, top) == \A s \in S : from[s] + size[s] <= top

\* The legs keep their kobo, and one more leg gets the lowest ones.
LEMMA OneMoreLeg ==
    ASSUME NEW S, NEW r, r \notin S, NEW size \in [S \cup {r} -> Nat],
           NEW m \in Nat, NEW n \in Nat, NEW top \in Nat,
           m + size[r] <= n, n <= top,
           NEW from \in [S -> n..top],
           Below(S, from, size, top), Apart(S, from, size)
    PROVE  \E g \in [S \cup {r} -> m..top] :
            Below(S \cup {r}, g, size, top) /\ Apart(S \cup {r}, g, size)
  <1> DEFINE g == [s \in S \cup {r} |-> IF s = r THEN m ELSE from[s]]
  <1>1. size[r] \in Nat /\ g[r] = m /\ m \in m..top
    OBVIOUS
  <1>2. \A s \in S : g[s] = from[s] /\ from[s] \in m..top /\ n <= from[s] /\ size[s] \in Nat
    BY <1>1
  <1>3. g \in [S \cup {r} -> m..top]
    BY <1>1, <1>2
  <1> HIDE DEF g
  <1>4. Below(S \cup {r}, g, size, top)
    BY <1>1, <1>2 DEF Below
  <1>5. \A s \in S : g[r] + size[r] <= g[s]
    BY <1>1, <1>2
  <1>6. Apart(S \cup {r}, g, size)
    BY <1>2, <1>5 DEF Apart
  <1> QED  BY <1>3, <1>4, <1>6

\* Between n and top, every kobo is some leg's.
Covered(S, from, size, n, top) ==
    \A k \in n..(top - 1) : \E s \in S : from[s] <= k /\ k < from[s] + size[s]

\* One more leg takes what is below what the others have had.
LEMMA OneMoreTaken ==
    ASSUME NEW S, NEW r, r \notin S, NEW size \in [S \cup {r} -> Nat],
           NEW m \in Nat, NEW n \in Nat, NEW top \in Nat, n <= m + size[r],
           NEW from \in [S -> 0..top],
           Covered(S, from, size, n, top)
    PROVE  \E g \in [S \cup {r} -> 0..top] : Covered(S \cup {r}, g, size, m, top)
  <1> DEFINE g == [s \in S \cup {r} |-> IF s = r THEN (IF m <= top THEN m ELSE 0) ELSE from[s]]
  <1>1. size[r] \in Nat /\ g[r] \in 0..top /\ (m <= top => g[r] = m)
    OBVIOUS
  <1>2. \A s \in S : g[s] = from[s]
    OBVIOUS
  <1>3. g \in [S \cup {r} -> 0..top]
    OBVIOUS
  <1> HIDE DEF g
  <1>4. ASSUME NEW k \in m..(top - 1)
        PROVE  \E s \in S \cup {r} : g[s] <= k /\ k < g[s] + size[s]
    <2>1. CASE k < n
      BY <1>1, <2>1
    <2>2. CASE ~(k < n)
      <3>1. k \in n..(top - 1)
        BY <2>2
      <3> QED  BY <1>2, <3>1 DEF Covered
    <2> QED  BY <2>1, <2>2
  <1> QED  BY <1>3, <1>4 DEF Covered

Promised == WalletLegs({"PENDING", "PROCESSING", "COMPLETED"})
Completed == WalletLegs({"COMPLETED"})
Sizes(S) == [s \in S |-> plan[s].wallet]

\* Steps that leave the committed rows and the plans behind them alone.
LEMMA RowsUntouched ==
    ASSUME NoOverspend, UNCHANGED <<wallet, deposited, txn>>,
           \A q \in Req : txn[q].parent # "NONE" => plan'[q] = plan[q]
    PROVE  NoOverspend'
  <1>1. Promised' = Promised /\ Completed' = Completed
    BY DEF Promised, Completed, WalletLegs
  <1>2. /\ \A r \in Promised : plan'[r] = plan[r]
        /\ \A r \in Completed : plan'[r] = plan[r]
    BY DEF Promised, Completed, WalletLegs
  <1>3. DealtOnce(Promised, wallet.ledger) /\ DealtOut(Completed, wallet.balance)
    BY DEF NoOverspend, Promised, Completed
  <1>4. DealtOnce(Promised, wallet.ledger)'
    BY <1>1, <1>2, <1>3 DEF DealtOnce
  <1>5. DealtOut(Completed, wallet.balance)'
    BY <1>1, <1>2, <1>3 DEF DealtOut
  <1> QED  BY <1>4, <1>5 DEF NoOverspend, Promised, Completed

\* A credit adds its kobo at the bottom of those that are available: what has
\* been dealt out is numbered higher.
LEMMA DepositOverspend ==
    ASSUME TypeOK, NoOverspend, NEW x \in Deposits, Deposit(x)
    PROVE  NoOverspend'
  <1>1. x \in Nat /\ wallet \in [balance : Nat, ledger : Nat] /\ deposited \in Nat
    BY WalletAssumption DEF TypeOK, Rows
  <1>2. /\ wallet' = [balance |-> wallet.balance + x, ledger |-> wallet.ledger + x]
        /\ deposited' = deposited + x /\ UNCHANGED <<txn, plan>>
    BY DEF Deposit, Credit
  <1>3. /\ Promised' = Promised /\ Completed' = Completed
        /\ wallet'.ledger = wallet.ledger + x /\ wallet'.balance = wallet.balance + x
    BY <1>2 DEF Promised, Completed, WalletLegs
  <1>4. \A r \in Promised \cup Completed : plan[r].wallet \in Nat
    BY DEF TypeOK, Promised, Completed, WalletLegs
  <1>5. wallet'.ledger <= deposited'
    BY <1>1, <1>2, <1>3 DEF NoOverspend
  <1>6. DealtOnce(Promised, wallet.ledger)'
    <2>1. PICK from \in [Promised -> wallet.ledger..deposited] :
            /\ \A r \in Promised : from[r] + plan[r].wallet <= deposited
            /\ \A q, r \in Promised : q = r \/ from[q] + plan[q].wallet <= from[r]
                                          \/ from[r] + plan[r].wallet <= from[q]
      BY DEF NoOverspend, DealtOnce, Promised
    <2> DEFINE g == [r \in Promised |-> from[r] + x]
    <2>2. \A r \in Promised : g[r] = from[r] + x /\ from[r] \in wallet.ledger..deposited
      OBVIOUS
    <2>3. g \in [Promised -> (wallet.ledger + x)..(deposited + x)]
      BY <1>1, <2>2
    <2> HIDE DEF g
    <2>4. \A r \in Promised : g[r] + plan[r].wallet <= deposited + x
      BY <1>1, <1>4, <2>1, <2>2
    <2>5. \A q, r \in Promised : q = r \/ g[q] + plan[q].wallet <= g[r]
                                       \/ g[r] + plan[r].wallet <= g[q]
      BY <1>1, <1>4, <2>1, <2>2
    <2> QED  BY <1>2, <1>3, <2>3, <2>4, <2>5 DEF DealtOnce
  <1>7. DealtOut(Completed, wallet.balance)'
    <2>1. PICK from \in [Completed -> 0..deposited] :
            \A k \in wallet.balance..(deposited - 1) :
                \E r \in Completed : from[r] <= k /\ k < from[r] + plan[r].wallet
      BY DEF NoOverspend, DealtOut, Completed
    <2> DEFINE g == [r \in Completed |-> from[r] + x]
    <2>2. \A r \in Completed : g[r] = from[r] + x /\ from[r] \in 0..deposited
      OBVIOUS
    <2>3. g \in [Completed -> 0..(deposited + x)]
      BY <1>1, <2>2
    <2> HIDE DEF g
    <2>4. ASSUME NEW k \in (wallet.balance + x)..(deposited + x - 1)
          PROVE  \E r \in Completed : g[r] <= k /\ k < g[r] + plan[r].wallet
      <3>1. k - x \in wallet.balance..(deposited - 1)
        BY <1>1
      <3>2. PICK r \in Completed : from[r] <= k - x /\ k - x < from[r] + plan[r].wallet
        BY <2>1, <3>1
      <3> QED  BY <1>1, <1>4, <2>2, <3>2
    <2>5. wallet'.balance..(deposited' - 1) = (wallet.balance + x)..(deposited + x - 1)
      BY <1>1, <1>2, <1>3
    <2> QED  BY <1>2, <1>3, <2>3, <2>4, <2>5 DEF DealtOut
  <1> QED  BY <1>5, <1>6, <1>7 DEF NoOverspend, Promised, Completed

\* A commit gives the wallet leg kobo that nobody had.
LEMMA CommitOverspend ==
    ASSUME TInv, NoOverspend, NEW r \in Req, Commit(r)
    PROVE  NoOverspend'
  <1> DEFINE x == plan[r].wallet
  <1>1. /\ pc[r] = "commit" /\ Ended(r, work[r]) /\ txn[r] = NoTransfer
        /\ wallet \in Rows /\ x \in Nat /\ deposited \in Nat
    BY DEF TInv, TypeOK, RowsInv, Commit
  <1>2. UNCHANGED <<plan, deposited>> /\ \A q \in Req : txn'[q] = IF q = r THEN work[r] ELSE txn[q]
    BY DEF Commit, TInv, TypeOK
  <1>3. r \notin Promised /\ r \notin Completed
    BY <1>1 DEF Promised, Completed, WalletLegs, NoTransfer
  <1>4. /\ Promised' = IF 0 \in work[r].legs /\ work[r].parent # "FAILED"
                       THEN Promised \cup {r} ELSE Promised
        /\ Completed' = IF 0 \in work[r].legs /\ work[r].parent = "COMPLETED"
                        THEN Completed \cup {r} ELSE Completed
    BY <1>1, <1>2, <1>3 DEF Promised, Completed, WalletLegs, Ended
  <1>5. lock = r <=> 0 \in work[r].legs
    BY <1>1 DEF TInv, LockInv, InTx
  <1>6. CASE lock # r \/ work[r].parent = "FAILED"
    <2>1. wallet' = wallet
      BY <1>6 DEF Commit, TInv, LockInv, ImageOf
    <2>2. Promised' = Promised /\ Completed' = Completed
      BY <1>4, <1>5, <1>6
    <2> QED  BY <1>2, <2>1, <2>2 DEF NoOverspend, DealtOnce, DealtOut, Promised, Completed
  <1>7. CASE lock = r /\ work[r].parent # "FAILED"
    <2>1. /\ wallet \in [balance : Nat, ledger : Nat] /\ wallet.ledger >= x
          /\ Hold(wallet, x) = [balance |-> wallet.balance, ledger |-> wallet.ledger - x]
      BY <1>1, <1>7 DEF TInv, LockInv, CanHold, Hold, Rows
    <2>2. wallet' = ImageOf(r) /\ ImageOf(r) \in Rows
      BY <1>7, ImageIsRow DEF Commit, TInv, LockInv
    <2>3. \/ wallet' = Hold(wallet, x)
          \/ work[r].parent = "COMPLETED" /\ wallet' = Debit(Hold(wallet, x), x)
      BY <1>1, <1>7, <2>2 DEF ImageOf, Ended
    <2>4. /\ wallet'.ledger \in Nat /\ wallet'.balance \in Nat
          /\ wallet'.ledger + x <= wallet.ledger
          /\ wallet'.balance <= wallet.balance /\ wallet.balance <= wallet'.balance + x
          /\ work[r].parent # "COMPLETED" => wallet'.balance = wallet.balance
      <3>1. CASE wallet' = Hold(wallet, x)
        BY <1>1, <2>1, <3>1
      <3>2. CASE work[r].parent = "COMPLETED" /\ wallet' = Debit(Hold(wallet, x), x)
        <4>1. wallet' = [balance |-> wallet.balance - x, ledger |-> wallet.ledger - x - x]
          BY <1>1, <2>1, <3>2 DEF Debit
        <4>2. wallet'.ledger \in Nat /\ wallet'.balance \in Nat
          BY <2>2 DEF Rows
        <4> QED  BY <1>1, <2>1, <3>2, <4>1, <4>2
      <3> QED  BY <2>3, <3>1, <3>2
    <2>5. /\ wallet.ledger \in Nat /\ wallet.balance \in Nat
          /\ wallet.ledger <= deposited /\ wallet'.ledger <= deposited
      BY <1>1, <2>1, <2>4 DEF NoOverspend
    <2>6. Promised' = Promised \cup {r}
      BY <1>4, <1>5, <1>7
    <2>7. DealtOnce(Promised, wallet.ledger)'
      <3> DEFINE size == Sizes(Promised \cup {r})
      <3>1. size \in [Promised \cup {r} -> Nat] /\ \A s \in Promised \cup {r} : size[s] = plan[s].wallet
        BY DEF Sizes, Promised, WalletLegs, TInv, TypeOK
      <3> HIDE DEF size
      <3>2. PICK from \in [Promised -> wallet.ledger..deposited] :
              Below(Promised, from, size, deposited) /\ Apart(Promised, from, size)
        BY <3>1 DEF NoOverspend, DealtOnce, Promised, Below, Apart
      <3>3. wallet'.ledger + size[r] <= wallet.ledger
        BY <2>4, <3>1
      <3> DEFINE m == wallet'.ledger
                 n == wallet.ledger
      <3>4. /\ m \in Nat /\ n \in Nat /\ deposited \in Nat /\ m + size[r] <= n /\ n <= deposited
            /\ r \notin Promised /\ from \in [Promised -> n..deposited]
        BY <1>1, <1>3, <2>4, <2>5, <3>2, <3>3
      <3> HIDE DEF m, n
      <3>5. \E g \in [Promised \cup {r} -> m..deposited] :
              Below(Promised \cup {r}, g, size, deposited) /\ Apart(Promised \cup {r}, g, size)
        BY <3>1, <3>2, <3>4, OneMoreLeg
      <3> QED  BY <1>2, <2>6, <3>1, <3>5 DEF DealtOnce, Below, Apart, m
    <2>8. DealtOut(Completed, wallet.balance)'
      <3>1. PICK from \in [Completed -> 0..deposited] :
              \A k \in wallet.balance..(deposited - 1) :
                  \E s \in Completed : from[s] <= k /\ k < from[s] + plan[s].wallet
        BY DEF NoOverspend, DealtOut, Completed
      <3>2. CASE work[r].parent # "COMPLETED"
        BY <1>2, <1>4, <2>4, <3>1, <3>2 DEF DealtOut
      <3>3. CASE work[r].parent = "COMPLETED"
        <4> DEFINE size == Sizes(Completed \cup {r})
        <4>1. size \in [Completed \cup {r} -> Nat] /\ \A s \in Completed \cup {r} : size[s] = plan[s].wallet
          BY DEF Sizes, Completed, WalletLegs, TInv, TypeOK
        <4> HIDE DEF size
        <4> DEFINE m == wallet'.balance
                   n == wallet.balance
        <4>2. /\ m \in Nat /\ n \in Nat /\ deposited \in Nat /\ n <= m + size[r]
              /\ r \notin Completed
          BY <1>1, <1>3, <2>4, <2>5, <4>1
        <4>3. Covered(Completed, from, size, n, deposited)
          BY <3>1, <4>1 DEF Covered
        <4> HIDE DEF m, n
        <4>4. \E g \in [Completed \cup {r} -> 0..deposited] :
                Covered(Completed \cup {r}, g, size, m, deposited)
          BY <4>1, <4>2, <4>3, OneMoreTaken
        <4>5. Completed' = Completed \cup {r}
          BY <1>4, <1>5, <1>7, <3>3
        <4> QED  BY <1>2, <4>1, <4>4, <4>5 DEF DealtOut, Covered, m
      <3> QED  BY <3>2, <3>3
    <2> QED  BY <1>2, <2>5, <2>7, <2>8 DEF NoOverspend, Promised, Completed
  <1> QED  BY <1>6, <1>7

\* Every step keeps NoOverspend.
LEMMA NextNoOverspend == TInv /\ NoOverspend /\ [Next]_vars => NoOverspend'
  <1> SUFFICES ASSUME TInv, NoOverspend, [Next]_vars PROVE NoOverspend'
    OBVIOUS
  <1>1. ASSUME NEW r \in Req, BuildPlan(r) PROVE NoOverspend'
    <2>1. txn[r] = NoTransfer /\ UNCHANGED <<wallet, deposited, txn>>
      BY <1>1 DEF TInv, RowsInv, BuildPlan, dbvars
    <2>2. \A q \in Req \ {r} : plan'[q] = plan[q]
      BY <1>1 DEF BuildPlan, TInv, TypeOK
    <2> QED  BY <2>1, <2>2, RowsUntouched DEF NoTransfer
  <1>2. ASSUME NEW r \in Req, RequestStep(r) \/ CommitFails(r) \/ Abort(r),
               ~Commit(r), ~BuildPlan(r)
        PROVE  NoOverspend'
    <2>1. UNCHANGED <<wallet, deposited, txn, plan>>
      BY <1>2 DEF RequestStep, CheckKey, Begin, WalletLeg, BankLeg, BankLegFails, BankGone,
         SendPayout, PayoutFails, Settle, CommitFails, Abort, Discard, dbvars
    <2> QED  BY <2>1, RowsUntouched
  <1>3. ASSUME NEW b \in Banks, Unlink(b) PROVE NoOverspend'
    BY <1>3, RowsUntouched DEF Unlink, dbvars
  <1>4. CASE UNCHANGED vars
    BY <1>4, RowsUntouched DEF vars
  <1> QED  BY <1>1, <1>2, <1>3, <1>4, CommitOverspend, DepositOverspend DEF TInv, Next

----------------------------------------------------------------------------
(* The theorems.                                                           *)

\* The invariant holds in every reachable state.
THEOREM TInvAlways == Spec => []TInv
  BY InitTInv, NextTInv, PTL DEF Spec

\* The type invariant holds for every set of requests, accounts and amounts;
\* in particular no UPDATE of the transfer code ever meets a CHECK violation.
THEOREM TypeCorrect == Spec => []TypeOK
  <1>1. TInv => TypeOK
    BY DEF TInv
  <1> QED  BY <1>1, TInvAlways, PTL

\* Other transactions never read a transfer that is between two of its ends,
\* wherever the function returned from.
THEOREM NoHalfWrittenAlways == Spec => []NoHalfWrittenTransfer
  <1>1. ASSUME TInv PROVE NoHalfWrittenTransfer
    <2>1. \A r \in Req : txn[r] = NoTransfer \/ Ended(r, txn[r])
      BY <1>1 DEF TInv, RowsInv, TypeOK, InTx
    <2> QED  BY <2>1 DEF NoHalfWrittenTransfer, Ended, NoTransfer
  <1> QED  BY <1>1, TInvAlways, PTL

\* A retry that finds the row of its key does nothing that costs money.
THEOREM LateRetryAlways == Spec => []LateRetryIsHarmless
  <1>1. TInv => LateRetryIsHarmless
    BY DEF TInv, FoundInv, LateRetryIsHarmless
  <1> QED  BY <1>1, TInvAlways, PTL

\* No kobo is promised twice, or promised and still available, for any number
\* of transfers and credits in any order.
THEOREM NoOverspendAlways == Spec => []NoOverspend
  <1>1. Init => NoOverspend
    <2> SUFFICES ASSUME Init PROVE NoOverspend
      OBVIOUS
    <2>1. \A S : WalletLegs(S) \subseteq {r \in Req : "NONE" \in S}
      BY DEF Init, WalletLegs, NoTransfer
    <2>2. /\ WalletLegs({"PENDING", "PROCESSING", "COMPLETED"}) = {}
          /\ WalletLegs({"COMPLETED"}) = {}
      BY <2>1
    <2>3. /\ wallet.ledger = deposited /\ wallet.balance = deposited /\ deposited \in Nat
      BY WalletAssumption DEF Init
    <2>4. DealtOnce({}, wallet.ledger)
      <3>1. [s \in {} |-> 0] \in [{} -> wallet.ledger..deposited]
        OBVIOUS
      <3> QED  BY <3>1 DEF DealtOnce
    <2>5. DealtOut({}, wallet.balance)
      <3>1. [s \in {} |-> 0] \in [{} -> 0..deposited]
        OBVIOUS
      <3>2. wallet.balance..(deposited - 1) = {}
        BY <2>3
      <3> QED  BY <3>1, <3>2 DEF DealtOut
    <2> QED  BY <2>2, <2>3, <2>4, <2>5 DEF NoOverspend
  <1> QED  BY <1>1, NextNoOverspend, TInvAlways, PTL DEF Spec

\* What a committed transfer shows as completed was planned in full, its bank
\* legs were opened at Mono, and its payout was accepted.
THEOREM CompletedIsPaidForAlways == Spec => []CompletedIsPaidFor
  <1>1. Init => PaidInv
    BY DEF Init, PaidInv, InTx, NoTransfer
  <1>2. PaidInv => CompletedIsPaidFor
    BY DEF PaidInv, Backed, CompletedIsPaidFor
  <1> QED  BY <1>1, <1>2, NextPaidInv, TInvAlways, PTL DEF Spec

\* A hold of nothing changes nothing, nor does a debit of nothing.
LEMMA NothingHeld ==
    ASSUME NEW w \in Rows
    PROVE  CanHold(w, 0) /\ Hold(w, 0) = w /\ CanDebit(w, 0) /\ Debit(w, 0) = w
  <1>1. w \in [balance : Nat, ledger : Nat] /\ w.ledger <= w.balance
    BY DEF Rows, Checked
  <1>2. w = [balance |-> w.balance, ledger |-> w.ledger]
    BY <1>1
  <1>3. Debit(w, 0) = w
    BY <1>1, <1>2 DEF Debit
  <1>4. Hold(w, 0) = w
    BY <1>1, <1>2 DEF Hold
  <1> QED  BY <1>1, <1>3, <1>4 DEF CanHold, CanDebit

\* The commit of a transfer is one step of the book.
LEMMA CommitIsBookStep ==
    ASSUME TInv, NEW r \in Req, Commit(r)
    PROVE  Book!BookNext
  <1> DEFINE x == plan[r].wallet
             outcome == [q \in Req |-> txn[q].parent]
  <1>1. /\ pc[r] = "commit" /\ Ended(r, work[r]) /\ txn[r] = NoTransfer
        /\ wallet \in Rows /\ x \in 0..AmountOf[r] /\ work[r] \in Transfers
    BY ReqAssumption DEF TInv, TypeOK, RowsInv, Commit
  <1>2. /\ outcome[r] = "NONE"
        /\ outcome' = [outcome EXCEPT ![r] = work[r].parent]
    <2>1. \A q \in Req : txn'[q] = IF q = r THEN work[r] ELSE txn[q]
      BY DEF Commit, TInv, TypeOK
    <2>2. outcome' = [q \in Req |-> txn'[q].parent]
      OBVIOUS
    <2>3. \A q \in Req : outcome'[q] = IF q = r THEN work[r].parent ELSE outcome[q]
      BY <2>1, <2>2
    <2>4. [outcome EXCEPT ![r] = work[r].parent]
            = [q \in Req |-> IF q = r THEN work[r].parent ELSE outcome[q]]
      OBVIOUS
    <2>5. outcome[r] = "NONE"
      BY <1>1 DEF NoTransfer
    <2> QED  BY <2>2, <2>3, <2>4, <2>5
  <1>3. \/ lock = r /\ wallet' = ImageOf(r) /\ CanHold(wallet, x)
        \/ lock # r /\ wallet' = wallet
    BY DEF Commit, TInv, LockInv
  <1>4. /\ 0 \in 0..AmountOf[r]
        /\ CanHold(wallet, 0) /\ Hold(wallet, 0) = wallet
        /\ CanDebit(wallet, 0) /\ Debit(wallet, 0) = wallet
    BY <1>1, NothingHeld, ReqAssumption
  <1>5. CASE work[r].parent = "PENDING"
    <2>1. \E h \in 0..AmountOf[r] : CanHold(wallet, h) /\ wallet' = Hold(wallet, h)
      <3>1. CASE lock = r
        BY <3>1, <1>1, <1>3, <1>5 DEF ImageOf
      <3>2. CASE lock # r
        BY <3>2, <1>3, <1>4
      <3> QED  BY <3>1, <3>2
    <2> QED  BY <2>1, <1>2, <1>5 DEF Book!BookNext, Book!LeavePending,
           Book!CanHold, Book!Hold, CanHold, Hold
  <1>6. CASE work[r].parent = "FAILED"
    <2>1. wallet' = wallet
      BY <1>3, <1>6 DEF ImageOf
    <2> QED  BY <2>1, <1>2, <1>6 DEF Book!BookNext, Book!Fail
  <1>7. CASE work[r].parent = "COMPLETED"
    <2>1. \E h \in 0..AmountOf[r] :
            /\ CanHold(wallet, h)
            /\ wallet' = IF CanDebit(Hold(wallet, h), h)
                            THEN Debit(Hold(wallet, h), h) ELSE Hold(wallet, h)
      <3>1. CASE lock = r
        BY <3>1, <1>1, <1>3, <1>7 DEF ImageOf
      <3>2. CASE lock # r
        BY <3>2, <1>3, <1>4
      <3> QED  BY <3>1, <3>2
    <2>2. \A w, h : /\ CanHold(w, h) <=> Book!CanHold(w, h)
                    /\ CanDebit(w, h) <=> Book!CanDebit(w, h)
                    /\ Hold(w, h) = Book!Hold(w, h)
                    /\ Debit(w, h) = Book!Debit(w, h)
      BY DEF CanHold, Book!CanHold, CanDebit, Book!CanDebit, Hold, Book!Hold,
             Debit, Book!Debit
    <2>3. Book!Complete(r)
      BY <2>1, <2>2, <1>2, <1>7 DEF Book!Complete
    <2> QED  BY <2>3 DEF Book!BookNext
  <1> QED  BY <1>1, <1>5, <1>6, <1>7 DEF Ended

\* Every step of the service is a step of the book or a stutter.
LEMMA StepsAreBookSteps ==
    TInv /\ [Next]_vars => [Book!BookNext]_(Book!bookvars)
  <1> SUFFICES ASSUME TInv, [Next]_vars
               PROVE  Book!BookNext \/ UNCHANGED <<wallet, txn>>
    BY DEF Book!bookvars
  <1>1. ASSUME NEW r \in Req, RequestStep(r) \/ CommitFails(r) \/ Abort(r), ~Commit(r)
        PROVE  UNCHANGED <<wallet, txn>>
    BY <1>1 DEF RequestStep, CheckKey, BuildPlan, Begin, WalletLeg, BankLeg,
       BankLegFails, BankGone, SendPayout, PayoutFails, Settle, CommitFails,
       Abort, Discard, dbvars
  <1>2. ASSUME NEW x \in Deposits, Deposit(x) PROVE Book!BookNext
    BY <1>2 DEF Deposit, Book!BookNext, Book!Fund, Book!Credit, Credit
  <1>3. ASSUME NEW b \in Banks, Unlink(b) PROVE UNCHANGED <<wallet, txn>>
    BY <1>3 DEF Unlink, dbvars
  <1>4. CASE UNCHANGED vars
    BY <1>4 DEF vars
  <1> QED  BY <1>1, <1>2, <1>3, <1>4, CommitIsBookStep DEF Next

\* The detailed service implements the atomic book: on the committed wallet a
\* transfer is one step, and happens at most once.
THEOREM ImplementsBook == Spec => AtomicOnTheBook
  <1>1. Init => Book!BookInit
    BY DEF Init, Book!BookInit, NoTransfer
  <1> QED  BY <1>1, StepsAreBookSteps, TInvAlways, PTL DEF Spec, AtomicOnTheBook, Book!Spec

----------------------------------------------------------------------------
(* What a key protects.                                                    *)

\* What the request will tell its caller, by what it is about to commit.
OutcomeInv ==
    \A r \in Req :
        /\ pc[r] = "legs" => ~paid[r]
        /\ pc[r] = "settle" => paid[r] = paystack
        /\ pc[r] = "commit" =>
            \/ reply[r] = "COMPLETED" /\ work[r].parent = "COMPLETED" /\ paid[r] = paystack
            \/ reply[r] = "error" /\ work[r].parent = "FAILED"
            \/ reply[r] = "error" /\ work[r].parent = "PENDING" /\ ~paid[r]

\* Every step keeps OutcomeInv.
LEMMA NextOutcomeInv == TInv /\ OutcomeInv /\ [Next]_vars => OutcomeInv'
  <1> SUFFICES ASSUME TInv, OutcomeInv, [Next]_vars PROVE OutcomeInv'
    OBVIOUS
  <1> USE DEF TInv, dbvars, extvars
  <1>1. ASSUME NEW r \in Req, CheckKey(r) \/ BuildPlan(r) PROVE OutcomeInv'
    <2>1. UNCHANGED <<work, paid, paystack>> /\ \A q \in Req : q # r => reply'[q] = reply[q]
      BY <1>1 DEF CheckKey, BuildPlan, Return, TypeOK
    <2>2. PICK at \in {"plan", "begin", "done"} : pc' = [pc EXCEPT ![r] = at]
      BY <1>1 DEF CheckKey, BuildPlan, Return
    <2> QED  BY <2>1, <2>2 DEF OutcomeInv, TypeOK
  <1>2. ASSUME NEW r \in Req, Begin(r) PROVE OutcomeInv'
    BY <1>2 DEF Begin, OutcomeInv, RowsInv, Untouched, TypeOK
  <1>3. ASSUME NEW r \in Req, WalletLeg(r) PROVE OutcomeInv'
    BY <1>3 DEF WalletLeg, OutcomeInv, RowsInv, TypeOK
  <1>4. ASSUME NEW r \in Req, NEW b \in Banks, BankLeg(r, b) PROVE OutcomeInv'
    BY <1>4 DEF BankLeg, OutcomeInv, TypeOK
  <1>5. ASSUME NEW r \in Req, NEW b \in Banks, BankLegFails(r, b) \/ BankGone(r, b)
        PROVE  OutcomeInv'
    <2>1. pc[r] = "legs" /\ work[r] \in Transfers /\ work[r].parent = "PENDING" /\ ~paid[r]
      BY <1>5 DEF BankLegFails, BankGone, OutcomeInv, RowsInv, TypeOK
    <2>2. /\ pc' = [pc EXCEPT ![r] = "commit"] /\ reply' = [reply EXCEPT ![r] = "error"]
          /\ UNCHANGED <<paid, paystack>>
          /\ work' \in {work, [work EXCEPT ![r].legs = @ \cup {b}]}
      BY <1>5 DEF BankLegFails, BankGone
    <2>3. [work[r] EXCEPT !.legs = @ \cup {b}].parent = work[r].parent
      BY <2>1 DEF Transfers
    <2>4. \A q \in Req : work'[q].parent = work[q].parent
      BY <2>2, <2>3 DEF TypeOK
    <2> QED  BY <2>1, <2>2, <2>4 DEF OutcomeInv, TypeOK
  <1>6. ASSUME NEW r \in Req, SendPayout(r) PROVE OutcomeInv'
    BY <1>6 DEF SendPayout, LegsDone, OutcomeInv, TypeOK
  <1>7. ASSUME NEW r \in Req, PayoutFails(r) \/ Settle(r) PROVE OutcomeInv'
    <2>1. \A q \in Req : q # r => work'[q] = work[q] /\ paid'[q] = paid[q]
      BY <1>7 DEF PayoutFails, Settle, TypeOK
    <2>2. CASE PayoutFails(r)
      <3>1. work'[r].parent = "FAILED"
        BY <2>2 DEF PayoutFails, TypeOK, Transfers
      <3> QED  BY <2>1, <2>2, <3>1 DEF PayoutFails, OutcomeInv, TypeOK
    <2>3. CASE Settle(r)
      <3>1. work'[r].parent = "COMPLETED"
        BY <2>3 DEF Settle, TypeOK, Transfers
      <3> QED  BY <2>1, <2>3, <3>1 DEF Settle, OutcomeInv, TypeOK
    <2> QED  BY <1>7, <2>2, <2>3
  <1>8. ASSUME NEW r \in Req, Commit(r) \/ CommitFails(r) \/ Abort(r) PROVE OutcomeInv'
    <2>1. /\ pc' = [pc EXCEPT ![r] = "done"] /\ UNCHANGED <<paid, paystack>>
          /\ \A q \in Req : q # r => reply'[q] = reply[q] /\ work'[q] = work[q]
      BY <1>8 DEF Commit, CommitFails, Abort, Discard, TypeOK
    <2> QED  BY <2>1 DEF OutcomeInv, TypeOK
  <1>9. ASSUME (\E x \in Deposits : Deposit(x)) \/ (\E b \in Banks : Unlink(b))
        PROVE  OutcomeInv'
    BY <1>9 DEF Deposit, Unlink, OutcomeInv
  <1>10. CASE UNCHANGED vars
    BY <1>10 DEF vars, OutcomeInv
  <1> QED  BY <1>1, <1>2, <1>3, <1>4, <1>5, <1>6, <1>7, <1>8, <1>9, <1>10 DEF Next, RequestStep

\* The other requests keep what the key's owners could see of them.
OthersStay(r) ==
    /\ paystack' = paystack
    /\ \A q \in Req \ {r} :
        /\ pc'[q] = pc[q] /\ txn'[q] = txn[q] /\ paid'[q] = paid[q]
        /\ reply'[q] = reply[q] /\ found'[q] = found[q]

\* A request goes on, finds nothing, or ends before it has begun.
StaysInFlight(r) == InFlight(r) /\ InFlight(r)' /\ txn'[r] = txn[r]

FindsNothing(r) ==
    pc[r] = "check" /\ pc'[r] = "plan" /\ txn'[r] = txn[r] /\ CommittedWithKey(r) = {}

IsAnswered(r) ==
    /\ pc[r] = "check" /\ pc'[r] = "done" /\ ~PaidOut(r)' /\ txn'[r] = txn[r]
    /\ reply'[r] = "error" \/ \E q \in CommittedWithKey(r) : reply'[r] = txn[q].parent

\* A request in flight ends: what its caller is told, whether its payout is
\* out, and what row it leaves.
EndsWith(r, answer, out, left) ==
    /\ InFlight(r) /\ pc'[r] = "done" /\ reply'[r] = answer
    /\ PaidOut(r)' = out /\ txn'[r].parent = left

EndsInFlight(r) ==
    \/ \E left \in {"COMPLETED", "NONE"} : EndsWith(r, "COMPLETED", TRUE, left)
    \/ \E left \in {"FAILED", "NONE"} : EndsWith(r, "error", TRUE, left)
    \/ \E left \in {"FAILED", "PENDING", "NONE"} : EndsWith(r, "error", FALSE, left)

KeyStepOf(r) ==
    OthersStay(r) /\ (StaysInFlight(r) \/ FindsNothing(r) \/ IsAnswered(r) \/ EndsInFlight(r))

\* Every step of a request is of one of these kinds.
LEMMA RequestKinds ==
    ASSUME TInv, OutcomeInv, NEW r \in Req, RequestStep(r) \/ CommitFails(r) \/ Abort(r)
    PROVE  KeyStepOf(r)
  <1> USE DEF TInv, dbvars, extvars
  <1>1. pc[r] # "done" => txn[r] = NoTransfer /\ txn[r].parent = "NONE" /\ found[r] = {}
    BY DEF RowsInv, FoundInv, NoTransfer
  <1>2. paid[r] \in BOOLEAN /\ paid'[r] \in BOOLEAN /\ paystack \in BOOLEAN
    <2>1. TypeOK'
      <3>1. Next
        BY DEF Next
      <3> QED  BY <3>1, NextTInv
    <2> QED  BY <2>1 DEF TypeOK
  <1>3. CASE CheckKey(r)
    <2>1. OthersStay(r) /\ pc[r] = "check" /\ txn' = txn /\ paid' = paid /\ paystack' = paystack
      BY <1>3 DEF CheckKey, OthersStay, Return, TypeOK
    <2>2. ~paid[r]
      BY <2>1 DEF RowsInv, Untouched
    <2>3. CASE CommittedWithKey(r) = {} /\ pc' = [pc EXCEPT ![r] = "plan"]
      BY <2>1, <2>3 DEF KeyStepOf, FindsNothing, TypeOK
    <2>4. CASE \E q \in CommittedWithKey(r) : Return(r, txn[q].parent)
      <3>1. PICK q \in CommittedWithKey(r) : Return(r, txn[q].parent)
        BY <2>4
      <3>2. pc'[r] = "done" /\ reply'[r] = txn[q].parent
        BY <3>1 DEF Return, TypeOK
      <3>3. found'[r] # {}
        BY <1>3, <3>1 DEF CheckKey, TypeOK
      <3> QED  BY <2>1, <2>2, <3>2, <3>3 DEF KeyStepOf, IsAnswered, PaidOut
    <2> QED  BY <1>3, <2>3, <2>4 DEF CheckKey
  <1>4. CASE BuildPlan(r)
    <2>1. /\ pc[r] = "plan" /\ UNCHANGED <<txn, paid, paystack, found>>
          /\ \/ pc' = [pc EXCEPT ![r] = "begin"] /\ reply' = reply
             \/ Return(r, "error")
      BY <1>4 DEF BuildPlan
    <2>2. OthersStay(r) /\ InFlight(r) /\ ~paid[r]
      BY <2>1 DEF OthersStay, InFlight, Return, TypeOK, RowsInv, Untouched
    <2>3. CASE pc' = [pc EXCEPT ![r] = "begin"]
      BY <2>1, <2>2, <2>3 DEF KeyStepOf, StaysInFlight, InFlight, TypeOK
    <2>4. CASE Return(r, "error")
      <3>1. pc'[r] = "done" /\ reply'[r] = "error"
        BY <2>4 DEF Return, TypeOK
      <3>2. PaidOut(r)' = FALSE
        BY <2>1, <2>2, <3>1 DEF PaidOut
      <3>3. EndsWith(r, "error", FALSE, "NONE")
        BY <1>1, <2>1, <2>2, <3>1, <3>2 DEF EndsWith
      <3> QED  BY <2>2, <3>3 DEF KeyStepOf, EndsInFlight
    <2> QED  BY <2>1, <2>3, <2>4
  <1>5. ASSUME \/ Begin(r) \/ WalletLeg(r) \/ SendPayout(r) \/ PayoutFails(r) \/ Settle(r)
               \/ \E b \in Banks : BankLeg(r, b) \/ BankLegFails(r, b) \/ BankGone(r, b)
        PROVE  KeyStepOf(r)
    <2>1. pc[r] \in {"begin"} \cup InTx /\ UNCHANGED <<txn, paystack, found>>
      BY <1>5 DEF Begin, WalletLeg, SendPayout, PayoutFails, Settle, BankLeg, BankLegFails,
                  BankGone, LegsDone, InTx
    <2>2. PICK at \in InTx : pc' = [pc EXCEPT ![r] = at] \/ (at = pc[r] /\ pc' = pc)
      BY <1>5 DEF Begin, WalletLeg, SendPayout, PayoutFails, Settle, BankLeg, BankLegFails,
                  BankGone, LegsDone, InTx
    <2>3. \A q \in Req \ {r} : paid'[q] = paid[q] /\ reply'[q] = reply[q]
      BY <1>5 DEF Begin, WalletLeg, SendPayout, PayoutFails, Settle, BankLeg, BankLegFails,
                  BankGone, TypeOK
    <2> QED  BY <2>1, <2>2, <2>3 DEF KeyStepOf, OthersStay, StaysInFlight, InFlight, TypeOK
  <1>6. CASE Commit(r)
    <2>1. /\ pc[r] = "commit" /\ UNCHANGED <<paid, paystack, found, reply>>
          /\ pc' = [pc EXCEPT ![r] = "done"] /\ txn' = [txn EXCEPT ![r] = work[r]]
      BY <1>6 DEF Commit
    <2>2. OthersStay(r) /\ InFlight(r) /\ pc'[r] = "done" /\ txn'[r] = work[r]
      BY <2>1 DEF OthersStay, InFlight, InTx, TypeOK
    <2>3. \/ EndsWith(r, "COMPLETED", TRUE, "COMPLETED")
          \/ EndsWith(r, "error", TRUE, "FAILED")
          \/ EndsWith(r, "error", FALSE, "FAILED")
          \/ EndsWith(r, "error", FALSE, "PENDING")
      BY <1>1, <1>2, <2>1, <2>2 DEF OutcomeInv, EndsWith, PaidOut
    <2> QED  BY <2>2, <2>3 DEF KeyStepOf, EndsInFlight
  <1>7. CASE CommitFails(r)
    <2>1. /\ pc[r] = "commit" /\ UNCHANGED <<txn, paid, paystack, found, reply>>
          /\ pc' = [pc EXCEPT ![r] = "done"]
      BY <1>7 DEF CommitFails, Discard
    <2>2. OthersStay(r) /\ InFlight(r) /\ pc'[r] = "done" /\ txn'[r].parent = "NONE"
      BY <1>1, <2>1 DEF OthersStay, InFlight, InTx, TypeOK
    <2>3. \/ EndsWith(r, "COMPLETED", TRUE, "NONE")
          \/ EndsWith(r, "error", TRUE, "NONE")
          \/ EndsWith(r, "error", FALSE, "NONE")
      BY <1>1, <1>2, <2>1, <2>2 DEF OutcomeInv, EndsWith, PaidOut
    <2> QED  BY <2>2, <2>3 DEF KeyStepOf, EndsInFlight
  <1>8. CASE Abort(r)
    <2>1. /\ pc[r] \in {"check", "plan", "begin", "legs", "settle"}
          /\ UNCHANGED <<txn, paid, paystack, found>>
          /\ pc' = [pc EXCEPT ![r] = "done"] /\ reply' = [reply EXCEPT ![r] = "error"]
      BY <1>8 DEF Abort, Discard
    <2>2. OthersStay(r) /\ pc'[r] = "done" /\ reply'[r] = "error" /\ txn'[r].parent = "NONE"
      BY <1>1, <2>1 DEF OthersStay, TypeOK
    <2>3. PaidOut(r)' = paid[r]
      BY <1>2, <2>1, <2>2 DEF PaidOut
    <2>4. CASE pc[r] = "check"
      <3>1. ~paid[r]
        BY <2>4 DEF RowsInv, Untouched
      <3> QED  BY <2>1, <2>2, <2>3, <2>4, <3>1 DEF KeyStepOf, IsAnswered
    <2>5. CASE pc[r] # "check"
      <3>1. InFlight(r)
        BY <2>1, <2>5 DEF InFlight, InTx
      <3>2. EndsWith(r, "error", TRUE, "NONE") \/ EndsWith(r, "error", FALSE, "NONE")
        BY <1>2, <2>2, <2>3, <3>1 DEF EndsWith
      <3> QED  BY <2>2, <3>2 DEF KeyStepOf, EndsInFlight
    <2> QED  BY <2>4, <2>5
  <1> QED  BY <1>3, <1>4, <1>5, <1>6, <1>7, <1>8 DEF RequestStep

\* What is in flight and what is paid changes for one request at a time.
LEMMA OthersSeen ==
    ASSUME NEW r \in Req, OthersStay(r)
    PROVE  \A q \in Req \ {r} : (InFlight(q)' <=> InFlight(q)) /\ (PaidOut(q)' <=> PaidOut(q))
  BY DEF OthersStay, InFlight, PaidOut

LEMMA MovingMember ==
    \A c \in Req, k \in Key : <<c, k>> \in Moving <=> KeyOf[c] = k /\ InFlight(c)
  BY DEF Moving

LEMMA MovingStep ==
    ASSUME NEW r \in Req, OthersStay(r)
    PROVE  /\ (InFlight(r)' <=> InFlight(r)) => Moving' = Moving
           /\ InFlight(r)' /\ KeyOf[r] \in Key => Moving' = Moving \cup {<<r, KeyOf[r]>>}
           /\ ~InFlight(r)' => Moving' = Moving \ {<<r, KeyOf[r]>>}
  <1>1. \A q \in Req \ {r} : InFlight(q)' <=> InFlight(q)
    BY OthersSeen
  <1> QED  BY <1>1 DEF Moving

LEMMA ParentsStep ==
    ASSUME NEW r \in Req, OthersStay(r), txn[r].parent = "NONE"
    PROVE  \A k \in Key : Parents'[k] =
                IF KeyOf[r] = k THEN Parents[k] \cup ({txn'[r].parent} \ {"NONE"}) ELSE Parents[k]
  BY DEF Parents, WithKey, OthersStay

LEMMA PayoutsStep ==
    ASSUME NEW r \in Req, OthersStay(r), ~PaidOut(r)
    PROVE  \A k \in Key : Payouts'[k] =
                IF KeyOf[r] = k /\ PaidOut(r)' THEN Keys!More(Payouts[k]) ELSE Payouts[k]
  <1> SUFFICES ASSUME NEW k \in Key
               PROVE  TimesPaid(k)' =
                        IF KeyOf[r] = k /\ PaidOut(r)' THEN Keys!More(TimesPaid(k)) ELSE TimesPaid(k)
    BY DEF Payouts
  <1>1. \A q \in Req \ {r} : PaidOut(q)' <=> PaidOut(q)
    BY OthersSeen
  <1>2. CASE KeyOf[r] = k /\ PaidOut(r)'
    <2>1. r \in WithKey(k) /\ WithKey(k) \subseteq Req
      BY <1>2 DEF WithKey
    <2>2. TimesPaid(k)' = IF \A q \in WithKey(k) : ~PaidOut(q) THEN "once" ELSE "again"
      <3>1. ~\A q \in WithKey(k) : ~PaidOut(q)'
        BY <1>2, <2>1
      <3>2. (\A p, q \in WithKey(k) : PaidOut(p)' /\ PaidOut(q)' => p = q)
                <=> \A q \in WithKey(k) : ~PaidOut(q)
        BY <1>1, <1>2, <2>1
      <3> QED  BY <3>1, <3>2 DEF TimesPaid
    <2> QED  BY <1>2, <2>2 DEF TimesPaid, Keys!More
  <1>3. CASE ~(KeyOf[r] = k /\ PaidOut(r)')
    <2>1. \A q \in WithKey(k) : PaidOut(q)' <=> PaidOut(q)
      BY <1>1, <1>3 DEF WithKey
    <2> QED  BY <1>3, <2>1 DEF TimesPaid
  <1> QED  BY <1>2, <1>3

LEMMA ToldStep ==
    ASSUME NEW r \in Req, OthersStay(r), pc[r] # "done"
    PROVE  Told' = Told \cup {k \in {KeyOf[r]} :
                        k \in Key /\ pc'[r] = "done" /\ reply'[r] \in Statuses}
  BY DEF Told, WithKey, OthersStay

LEMMA ExcusesStep ==
    ASSUME NEW r \in Req, OthersStay(r), NEW k \in Key
    PROVE  /\ Overlaps(k) <=> /\ KeyOf[r] = k /\ pc[r] = "check" /\ pc'[r] = "plan"
                              /\ \E q \in Req \ {r} : KeyOf[q] = k /\ InFlight(q)
           /\ LosesRow(k) <=> /\ KeyOf[r] = k /\ pc[r] # "done"
                              /\ PaidOut(r)' /\ txn'[r].parent = "NONE"
  <1>1. \A q \in Req \ {r} : pc'[q] = pc[q] /\ (PaidOut(q)' => pc'[q] = "done")
    BY DEF OthersStay, PaidOut
  <1>2. ASSUME Overlaps(k)
        PROVE  /\ KeyOf[r] = k /\ pc[r] = "check" /\ pc'[r] = "plan"
               /\ \E q \in Req \ {r} : KeyOf[q] = k /\ InFlight(q)
    <2>1. PICK q, p \in WithKey(k) :
                q # p /\ InFlight(q) /\ pc[p] = "check" /\ pc'[p] = "plan"
      BY <1>2 DEF Overlaps
    <2> QED  BY <1>1, <2>1 DEF WithKey
  <1>3. ASSUME KeyOf[r] = k, pc[r] = "check", pc'[r] = "plan",
               \E q \in Req \ {r} : KeyOf[q] = k /\ InFlight(q)
        PROVE  Overlaps(k)
    BY <1>3 DEF Overlaps, WithKey
  <1>4. LosesRow(k) <=> /\ KeyOf[r] = k /\ pc[r] # "done"
                        /\ PaidOut(r)' /\ txn'[r].parent = "NONE"
    BY <1>1 DEF LosesRow, WithKey
  <1> QED  BY <1>2, <1>3, <1>4

\* A request that ends in flight is a step Made or Failed of its key.
LEMMA EndIsLedgerStep ==
    ASSUME TypeOK, NEW r \in Req, KeyOf[r] \in Key, OthersStay(r), EndsInFlight(r),
           txn[r].parent = "NONE",
           excused' = excused \cup {k \in Key : Overlaps(k) \/ LosesRow(k)}
    PROVE  Keys!KeyNext
  <1> DEFINE k == KeyOf[r]
  <1>1. PICK answer, out, left :
            /\ EndsWith(r, answer, out, left)
            /\ \/ answer = "COMPLETED" /\ out = TRUE /\ left \in {"COMPLETED", "NONE"}
               \/ answer = "error" /\ out = TRUE /\ left \in {"FAILED", "NONE"}
               \/ answer = "error" /\ out = FALSE /\ left \in {"FAILED", "PENDING", "NONE"}
    BY DEF EndsInFlight
  <1>2. /\ InFlight(r) /\ pc'[r] = "done" /\ reply'[r] = answer
        /\ (PaidOut(r)' <=> out) /\ txn'[r].parent = left
        /\ pc[r] # "done" /\ pc[r] # "check" /\ ~PaidOut(r) /\ ~InFlight(r)'
    BY <1>1 DEF EndsWith, InFlight, InTx, PaidOut
  <1>3. <<r, k>> \in Moving /\ Moving' = Moving \ {<<r, k>>}
    BY <1>2, MovingMember, MovingStep
  <1>4. Parents' = [Parents EXCEPT ![k] = @ \cup ({left} \ {"NONE"})]
    <2>1. \A j \in Key : Parents'[j] = IF k = j THEN Parents[j] \cup ({left} \ {"NONE"}) ELSE Parents[j]
      BY <1>2, ParentsStep
    <2> QED  BY <2>1 DEF Parents
  <1>5. /\ out = TRUE => Payouts' = [Payouts EXCEPT ![k] = Keys!More(@)]
        /\ out = FALSE => Payouts' = Payouts
    <2>1. \A j \in Key : Payouts'[j] = IF k = j /\ out THEN Keys!More(Payouts[j]) ELSE Payouts[j]
      BY <1>2, PayoutsStep
    <2> QED  BY <2>1 DEF Payouts
  <1>6. Told' = IF answer = "COMPLETED" THEN Told \cup {k} ELSE Told
    BY <1>1, <1>2, ToldStep DEF Statuses
  <1>7. excused' = IF out /\ left = "NONE" THEN excused \cup {k} ELSE excused
    BY <1>1, <1>2, ExcusesStep
  <1>8. left = "NONE" => Parents' = Parents
    BY <1>4 DEF Parents
  <1>9. left # "NONE" => Parents' = [Parents EXCEPT ![k] = @ \cup {left}]
    BY <1>4
  <1> HIDE DEF k
  <1>10. ASSUME out = TRUE, NEW status, left \in {status, "NONE"}, status # "NONE"
         PROVE  Keys!PaidOut(k, status)
    BY <1>5, <1>7, <1>8, <1>9, <1>10 DEF Keys!PaidOut
  <1>11. CASE answer = "COMPLETED"
    <2>1. Keys!Made(r, k)
      BY <1>1, <1>3, <1>6, <1>10, <1>11 DEF Keys!Made
    <2> QED  BY <2>1 DEF Keys!KeyNext, k
  <1>12. CASE answer = "error"
    <2>1. Told' = Told
      BY <1>6, <1>12
    <2>2. CASE out = TRUE
      <3>1. Keys!Failed(r, k)
        BY <1>1, <1>3, <1>10, <1>12, <2>1, <2>2 DEF Keys!Failed
      <3> QED  BY <3>1 DEF Keys!KeyNext, k
    <2>3. CASE out = FALSE
      <3>1. /\ {left} \ {"NONE"} \in {{}, {"PENDING"}, {"FAILED"}}
            /\ UNCHANGED <<Payouts, excused>>
        BY <1>1, <1>5, <1>7, <1>12, <2>3
      <3>2. Keys!Failed(r, k)
        BY <1>3, <1>4, <2>1, <3>1 DEF Keys!Failed, k
      <3> QED  BY <3>2 DEF Keys!KeyNext, k
    <2> QED  BY <1>1, <1>12, <2>2, <2>3
  <1> QED  BY <1>1, <1>11, <1>12

\* Every step of the service is a step of the ledger of keys or a stutter.
LEMMA StepsAreLedgerSteps ==
    TInv /\ OutcomeInv /\ [KeyedNext]_keyedvars => [Keys!KeyNext]_(Keys!keyvars)
  <1> SUFFICES ASSUME TInv, OutcomeInv, [KeyedNext]_keyedvars
               PROVE  Keys!KeyNext \/ UNCHANGED <<Moving, Parents, Payouts, Told, excused>>
    BY DEF Keys!keyvars
  <1>1. ASSUME NEW r \in Req, KeyStepOf(r),
               excused' = excused \cup {k \in Key : Overlaps(k) \/ LosesRow(k)}
        PROVE  Keys!KeyNext \/ UNCHANGED <<Moving, Parents, Payouts, Told, excused>>
    <2>1. OthersStay(r) /\ TypeOK /\ (pc[r] # "done" => txn[r].parent = "NONE")
      BY <1>1 DEF KeyStepOf, TInv, RowsInv, NoTransfer
    <2>2. pc[r] # "done" /\ ~PaidOut(r) /\ txn[r].parent = "NONE"
      BY <1>1, <2>1 DEF KeyStepOf, StaysInFlight, FindsNothing, IsAnswered, EndsInFlight,
                        EndsWith, InFlight, InTx, PaidOut
    <2>3. ASSUME txn'[r] = txn[r], ~PaidOut(r)'
          PROVE  UNCHANGED <<Parents, Payouts>>
      <3>1. \A k \in Key : Parents'[k] = Parents[k] /\ Payouts'[k] = Payouts[k]
        BY <2>1, <2>2, <2>3, ParentsStep, PayoutsStep
      <3> QED  BY <3>1 DEF Parents, Payouts
    <2>4. ASSUME txn'[r] = txn[r], ~PaidOut(r)', pc'[r] # "plan"
          PROVE  excused' = excused
      BY <1>1, <2>1, <2>4, ExcusesStep
    <2>5. CASE StaysInFlight(r)
      <3>1. ~PaidOut(r)' /\ pc'[r] # "done" /\ pc[r] # "check"
        BY <2>5 DEF StaysInFlight, PaidOut, InFlight, InTx
      <3>2. Told' = Told
        BY <2>1, <2>2, <3>1, ToldStep
      <3>3. Moving' = Moving
        BY <2>1, <2>5, MovingStep DEF StaysInFlight
      <3>4. excused' = excused
        BY <1>1, <2>1, <3>1, ExcusesStep
      <3> QED  BY <2>3, <2>5, <3>1, <3>2, <3>3, <3>4 DEF StaysInFlight
    <2>6. CASE IsAnswered(r)
      <3>1. /\ pc[r] = "check" /\ pc'[r] = "done" /\ UNCHANGED <<Parents, Payouts>>
            /\ excused' = excused
        BY <2>3, <2>4, <2>6 DEF IsAnswered
      <3>2. Moving' = Moving
        BY <2>1, <3>1, MovingStep DEF InFlight, InTx
      <3>3. CASE reply'[r] = "error"
        <4>1. Told' = Told
          BY <2>1, <2>2, <3>3, ToldStep DEF Statuses
        <4> QED  BY <3>1, <3>2, <4>1
      <3>4. CASE \E q \in CommittedWithKey(r) : reply'[r] = txn[q].parent
        <4>1. PICK q \in CommittedWithKey(r) : reply'[r] = txn[q].parent
          BY <3>4
        <4>2. q \in WithKey(KeyOf[r]) /\ KeyOf[r] \in Key /\ txn[q].parent \in Statuses \ {"NONE"}
          BY <2>1, <4>1, ReqAssumption DEF CommittedWithKey, WithKey, TypeOK, Transfers
        <4>3. Parents[KeyOf[r]] # {}
          BY <4>2 DEF Parents
        <4>4. Told' = Told \cup {KeyOf[r]}
          BY <2>1, <2>2, <3>1, <4>1, <4>2, ToldStep
        <4>5. Keys!Answered(KeyOf[r])
          BY <3>1, <3>2, <4>3, <4>4 DEF Keys!Answered
        <4> QED  BY <4>2, <4>5 DEF Keys!KeyNext
      <3> QED  BY <2>6, <3>3, <3>4 DEF IsAnswered
    <2>7. CASE FindsNothing(r) /\ KeyOf[r] \in Key
      <3> DEFINE k == KeyOf[r]
      <3>1. /\ pc[r] = "check" /\ pc'[r] = "plan" /\ txn'[r] = txn[r]
            /\ ~PaidOut(r)' /\ InFlight(r)' /\ ~InFlight(r)
        BY <2>7 DEF FindsNothing, PaidOut, InFlight, InTx
      <3>2. Parents[k] = {}
        BY <2>7, ReqAssumption DEF FindsNothing, CommittedWithKey, Parents, WithKey
      <3>3. UNCHANGED <<Parents, Payouts>> /\ Moving' = Moving \cup {<<r, k>>}
        BY <2>1, <2>3, <2>7, <3>1, MovingStep
      <3>4. Told' = Told
        BY <2>1, <2>2, <3>1, ToldStep
      <3>5. \A j \in Key : <<r, j>> \notin Moving
        BY <3>1, MovingMember
      <3>6. excused' = excused \cup {j \in {k} : \E b \in Req : <<b, j>> \in Moving}
        <4>1. \A j \in Key : ~LosesRow(j)
          BY <2>1, <3>1, ExcusesStep
        <4>2. \A j \in Key : (\E b \in Req : <<b, j>> \in Moving)
                            <=> \E q \in Req \ {r} : KeyOf[q] = j /\ InFlight(q)
          BY <3>1, MovingMember
        <4>3. \A j \in Key : Overlaps(j) <=> j = k /\ \E b \in Req : <<b, j>> \in Moving
          BY <2>1, <3>1, <4>2, ExcusesStep
        <4> QED  BY <1>1, <2>7, <4>1, <4>3
      <3>7. Keys!Missed(r, k)
        BY <3>2, <3>3, <3>4, <3>5, <3>6 DEF Keys!Missed
      <3> QED  BY <2>7, <3>7 DEF Keys!KeyNext
    <2>8. CASE KeyOf[r] \notin Key
      <3>1. \A k \in Key : Parents'[k] = Parents[k] /\ Payouts'[k] = Payouts[k]
        BY <2>1, <2>2, <2>8, ParentsStep, PayoutsStep
      <3>2. UNCHANGED <<Parents, Payouts>>
        BY <3>1 DEF Parents, Payouts
      <3>3. Told' = Told
        BY <2>1, <2>2, <2>8, ToldStep
      <3>4. Moving' = Moving
        BY <2>1, <2>8, OthersSeen DEF Moving
      <3>5. excused' = excused
        BY <1>1, <2>1, <2>8, ExcusesStep
      <3> QED  BY <3>2, <3>3, <3>4, <3>5
    <2>9. CASE EndsInFlight(r) /\ KeyOf[r] \in Key
      BY <1>1, <2>1, <2>2, <2>9, EndIsLedgerStep
    <2> QED  BY <1>1, <2>5, <2>6, <2>7, <2>8, <2>9 DEF KeyStepOf
  <1>2. ASSUME UNCHANGED <<pc, txn, paid, paystack, reply, found>>,
               excused' = excused \cup {k \in Key : Overlaps(k) \/ LosesRow(k)} \/ excused' = excused
        PROVE  UNCHANGED <<Moving, Parents, Payouts, Told, excused>>
    <2>1. \A q \in Req : (InFlight(q)' <=> InFlight(q)) /\ (PaidOut(q)' <=> PaidOut(q))
      BY <1>2 DEF InFlight, PaidOut
    <2>2. Moving' = Moving /\ Parents' = Parents /\ Told' = Told
      BY <1>2, <2>1 DEF Moving, Parents, Told, WithKey
    <2>3. \A k \in Key : TimesPaid(k)' = TimesPaid(k)
      BY <2>1 DEF TimesPaid, WithKey
    <2>4. \A k \in Key : ~Overlaps(k) /\ ~LosesRow(k)
      BY <1>2 DEF Overlaps, LosesRow, WithKey, PaidOut
    <2> QED  BY <1>2, <2>2, <2>3, <2>4 DEF Payouts
  <1>3. ASSUME (\E x \in Deposits : Deposit(x)) \/ (\E b \in Banks : Unlink(b)) \/ UNCHANGED vars
        PROVE  UNCHANGED <<pc, txn, paid, paystack, reply, found>>
    BY <1>3 DEF Deposit, Unlink, dbvars, extvars, vars
  <1> QED  BY <1>1, <1>2, <1>3, RequestKinds DEF KeyedNext, Next, keyedvars

\* The history variable takes nothing away from the service.
LEMMA KeyedIsTheService == KeyedSpec => Spec
  <1>1. KeyedInit => Init
    BY DEF KeyedInit
  <1>2. [KeyedNext]_keyedvars => [Next]_vars
    BY DEF KeyedNext, keyedvars
  <1> QED  BY <1>1, <1>2, PTL DEF KeyedSpec, Spec

\* CheckKey: InitiateTransfer keeps the ledger of keys, for any number of
\* requests and keys, under every failure and interleaving.
THEOREM KeepsTheLedger == KeyedSpec => KeysAreLedger
  <1>1. KeyedInit => Keys!KeyInit
    <2> SUFFICES ASSUME KeyedInit PROVE Keys!KeyInit
      OBVIOUS
    <2>1. \A r \in Req : pc[r] = "check" /\ txn[r].parent = "NONE"
      BY DEF KeyedInit, Init, NoTransfer
    <2>2. \A r \in Req : ~InFlight(r) /\ ~PaidOut(r)
      BY <2>1 DEF InFlight, InTx, PaidOut
    <2>3. Moving = {} /\ Told = {} /\ Parents = [k \in Key |-> {}]
      BY <2>1, <2>2 DEF Moving, Told, Parents, WithKey
    <2>4. \A k \in Key : TimesPaid(k) = "never"
      BY <2>2 DEF TimesPaid, WithKey
    <2> QED  BY <2>3, <2>4 DEF KeyedInit, Keys!KeyInit, Payouts
  <1>2. Init => OutcomeInv
    BY DEF Init, OutcomeInv
  <1>3. KeyedSpec => [](TInv /\ OutcomeInv)
    BY <1>2, NextOutcomeInv, TInvAlways, KeyedIsTheService, PTL DEF Spec
  <1> QED  BY <1>1, <1>3, StepsAreLedgerSteps, PTL DEF KeyedSpec, KeysAreLedger, Keys!Spec

\* So no two requests of one key have their payouts out, in any number of
\* retries, unless two of them overlapped or a commit was lost.
THEOREM KeyPaysOnce ==
    KeyedSpec => [](\A q, r \in Req :
        /\ q # r /\ KeyOf[q] = KeyOf[r] /\ KeyOf[r] \in Key \ excused
        => ~(PaidOut(q) /\ PaidOut(r)))
  <1>1. Keys!PaidOnce =>
            \A q, r \in Req :
                /\ q # r /\ KeyOf[q] = KeyOf[r] /\ KeyOf[r] \in Key \ excused
                => ~(PaidOut(q) /\ PaidOut(r))
    <2> SUFFICES ASSUME Keys!PaidOnce, NEW q \in Req, NEW r \in Req,
                        q # r, KeyOf[q] = KeyOf[r], KeyOf[r] \in Key \ excused
                 PROVE  ~(PaidOut(q) /\ PaidOut(r))
      OBVIOUS
    <2>1. TimesPaid(KeyOf[r]) # "again"
      BY DEF Keys!PaidOnce, Payouts
    <2>2. q \in WithKey(KeyOf[r]) /\ r \in WithKey(KeyOf[r])
      BY DEF WithKey
    <2> QED  BY <2>1, <2>2 DEF TimesPaid
  <1>2. KeyedSpec => []Keys!PaidOnce
    BY KeepsTheLedger, Keys!KeyPaidOnce, PTL DEF KeysAreLedger
  <1> QED  BY <1>1, <1>2, PTL

\* And who is told of a status has had the payout of the key, or a failed
\* attempt has left its row there.
THEOREM KeyTellsTheTruth == KeyedSpec => []Keys!ToldIsPaid
  BY KeepsTheLedger, Keys!KeyToldIsPaid, PTL DEF KeysAreLedger

----------------------------------------------------------------------------
(* How long a request can take.                                            *)

\* The legs of the plan that are not written yet.
Unwritten(r) == PlannedLegs(r) \ work[r].legs

\* The statements a request may still run: one for each part of the function,
\* and one for each leg that is not written yet.
StepsLeft(r) ==
    CASE pc[r] = "check" -> NBanks + 7
      [] pc[r] = "plan" -> NBanks + 6
      [] pc[r] = "begin" -> NBanks + 5
      [] pc[r] = "legs" -> Cardinality(Unwritten(r)) + 3
      [] pc[r] = "settle" -> 2
      [] pc[r] = "commit" -> 1
      [] pc[r] = "done" -> 0

\* A plan has at most one leg for each account, and one for the wallet.
LEMMA FewLegs ==
    ASSUME NEW r \in Req
    PROVE  /\ IsFiniteSet(Unwritten(r)) /\ Cardinality(Unwritten(r)) \in 0..(NBanks + 1)
           /\ \A i \in Unwritten(r) :
                Cardinality(Unwritten(r) \ {i}) = Cardinality(Unwritten(r)) - 1
  <1>1. IsFiniteSet(0..NBanks) /\ Cardinality(0..NBanks) = NBanks + 1
    BY FS_Interval, BankAssumption
  <1>2. Unwritten(r) \in SUBSET (0..NBanks)
    BY BankAssumption DEF Unwritten, PlannedLegs, Banks
  <1>3. IsFiniteSet(Unwritten(r)) /\ Cardinality(Unwritten(r)) <= NBanks + 1
    BY <1>1, <1>2, FS_Subset
  <1>4. Cardinality(Unwritten(r)) \in Nat
    BY <1>3, FS_CardinalityType
  <1>5. \A i \in Unwritten(r) :
            Cardinality(Unwritten(r) \ {i}) = Cardinality(Unwritten(r)) - 1
    BY <1>3, FS_RemoveElement
  <1> QED  BY <1>3, <1>4, <1>5, BankAssumption

\* What a step of a request leaves of its way, and that it touches no other's.
LEMMA StepGetsOn ==
    ASSUME TInv, NEW r \in Req, RequestStep(r) \/ CommitFails(r) \/ Abort(r)
    PROVE  /\ StepsLeft(r)' < StepsLeft(r)
           /\ \A q \in Req \ {r} : pc'[q] = pc[q] /\ work'[q] = work[q] /\ plan'[q] = plan[q]
  <1>0. /\ pc \in [Req -> {"check", "plan", "begin", "done"} \cup InTx]
        /\ work \in [Req -> Transfers]
        /\ plan \in [Req -> [wallet : Nat, banks : [Banks -> Nat]]]
    BY DEF TInv, TypeOK
  <1>1. /\ Cardinality(Unwritten(r)) \in Nat /\ Cardinality(Unwritten(r)) <= NBanks + 1
        /\ NBanks \in Nat
    BY FewLegs, BankAssumption
  <1>2. \A q \in Req \ {r} : pc'[q] = pc[q] /\ work'[q] = work[q] /\ plan'[q] = plan[q]
    BY <1>0 DEF RequestStep, CheckKey, BuildPlan, Begin, WalletLeg, BankLeg, BankLegFails,
       BankGone, SendPayout, PayoutFails, Settle, Commit, CommitFails, Abort, Discard,
       Return, dbvars, InTx
  <1> SUFFICES StepsLeft(r)' < StepsLeft(r)
    BY <1>2
  <1>3. CASE CheckKey(r) \/ BuildPlan(r)
    <2>1. \/ pc[r] = "check" /\ pc'[r] \in {"plan", "done"}
          \/ pc[r] = "plan" /\ pc'[r] \in {"begin", "done"}
      BY <1>0, <1>3 DEF CheckKey, BuildPlan, Return
    <2> QED  BY <1>1, <2>1 DEF StepsLeft
  <1>4. CASE Begin(r)
    <2>1. pc[r] = "begin" /\ pc'[r] = "legs"
      BY <1>0, <1>4 DEF Begin
    <2>2. PICK n \in 0..(NBanks + 1) : n = Cardinality(Unwritten(r))'
      <3>1. IsFiniteSet(0..NBanks) /\ Cardinality(0..NBanks) = NBanks + 1
        BY FS_Interval, BankAssumption
      <3>2. Unwritten(r)' \in SUBSET (0..NBanks)
        BY <1>1 DEF Unwritten, PlannedLegs, Banks
      <3>3. IsFiniteSet(Unwritten(r)') /\ Cardinality(Unwritten(r)') <= NBanks + 1
        BY <3>1, <3>2, FS_Subset
      <3>4. Cardinality(Unwritten(r)') \in Nat
        BY <3>3, FS_CardinalityType
      <3> QED  BY <3>3, <3>4, <1>1
    <2>3. StepsLeft(r) = NBanks + 5
      BY <2>1 DEF StepsLeft
    <2>4. StepsLeft(r)' = n + 3
      BY <2>1, <2>2 DEF StepsLeft
    <2> QED  BY <1>1, <2>2, <2>3, <2>4
  <1>5. ASSUME NEW i \in Unwritten(r), pc[r] = "legs", pc'[r] = "legs",
               plan' = plan, work' = [work EXCEPT ![r].legs = @ \cup {i}]
        PROVE  StepsLeft(r)' < StepsLeft(r)
    <2>1. Unwritten(r)' = Unwritten(r) \ {i}
      BY <1>0, <1>5 DEF Unwritten, PlannedLegs, Transfers
    <2> QED  BY <1>1, <1>5, <2>1, FewLegs DEF StepsLeft
  <1>6. ASSUME pc[r] = "legs", pc'[r] \in {"settle", "commit"}
        PROVE  StepsLeft(r)' < StepsLeft(r)
    BY <1>1, <1>6 DEF StepsLeft
  <1>7. CASE WalletLeg(r)
    <2>1. 0 \in Unwritten(r) /\ pc[r] = "legs" /\ plan' = plan
      BY <1>7 DEF WalletLeg, NextLeg, Unwritten
    <2>2. \/ pc'[r] = "legs" /\ work' = [work EXCEPT ![r].legs = @ \cup {0}]
          \/ pc'[r] = "commit"
      BY <1>0, <1>7 DEF WalletLeg
    <2> QED  BY <1>5, <1>6, <2>1, <2>2
  <1>8. ASSUME NEW b \in Banks, BankLeg(r, b) \/ BankLegFails(r, b) \/ BankGone(r, b)
        PROVE  StepsLeft(r)' < StepsLeft(r)
    <2>1. b \in Unwritten(r) /\ pc[r] = "legs" /\ plan' = plan
      BY <1>8 DEF BankLeg, BankLegFails, BankGone, NextLeg, Unwritten
    <2>2. \/ pc'[r] = "legs" /\ work' = [work EXCEPT ![r].legs = @ \cup {b}]
          \/ pc'[r] = "commit"
      BY <1>0, <1>8 DEF BankLeg, BankLegFails, BankGone
    <2> QED  BY <1>5, <1>6, <2>1, <2>2
  <1>9. CASE SendPayout(r) \/ PayoutFails(r)
    BY <1>0, <1>6, <1>9 DEF SendPayout, PayoutFails, LegsDone
  <1>10. CASE Settle(r) \/ Commit(r)
    BY <1>0, <1>10 DEF Settle, Commit, StepsLeft
  <1>11. CASE CommitFails(r) \/ Abort(r)
    BY <1>0, <1>1, <1>11 DEF CommitFails, Abort, Discard, StepsLeft
  <1> QED
    BY <1>3, <1>4, <1>7, <1>8, <1>9, <1>10, <1>11 DEF RequestStep

\* The safety half of EveryRequestAnswered, service/transfer_service.go:81:
\* whatever moves a request brings it nearer to its end, and nothing another
\* request, a deposit or an unlink does takes it back; so it has ended after
\* NBanks + 7 of its own steps, whatever fails and however they interleave.
THEOREM RequestIsBounded ==
    Spec => /\ [](\A r \in Req : StepsLeft(r) \in 0..(NBanks + 7))
            /\ [][\A r \in Req : \/ StepsLeft(r)' < StepsLeft(r)
                                 \/ UNCHANGED <<pc[r], work[r], plan[r]>>]_vars
  <1>1. TInv => \A r \in Req : StepsLeft(r) \in 0..(NBanks + 7)
    <2> SUFFICES ASSUME TInv, NEW r \in Req PROVE StepsLeft(r) \in 0..(NBanks + 7)
      OBVIOUS
    <2>1. Cardinality(Unwritten(r)) \in 0..(NBanks + 1) /\ NBanks \in Nat
      BY FewLegs, BankAssumption
    <2> QED  BY <2>1 DEF TInv, TypeOK, InTx, StepsLeft
  <1>2. TInv /\ [Next]_vars =>
            [\A r \in Req : \/ StepsLeft(r)' < StepsLeft(r)
                            \/ UNCHANGED <<pc[r], work[r], plan[r]>>]_vars
    <2> SUFFICES ASSUME TInv, Next, NEW q \in Req
                 PROVE  StepsLeft(q)' < StepsLeft(q) \/ UNCHANGED <<pc[q], work[q], plan[q]>>
      OBVIOUS
    <2>1. ASSUME NEW r \in Req, RequestStep(r) \/ CommitFails(r) \/ Abort(r)
          PROVE  StepsLeft(q)' < StepsLeft(q) \/ UNCHANGED <<pc[q], work[q], plan[q]>>
      BY <2>1, StepGetsOn
    <2>2. CASE \E x \in Deposits : Deposit(x)
      BY <2>2 DEF Deposit
    <2>3. CASE \E b \in Banks : Unlink(b)
      BY <2>3 DEF Unlink, dbvars
    <2> QED  BY <2>1, <2>2, <2>3 DEF Next
  <1> QED  BY <1>1, <1>2, TInvAlways, PTL DEF Spec

\* Hold and Debit, repository/wallet_repo.go: only the wallet leg waits for
\* the row, and whoever has the row has written that leg.  Requests that wait
\* therefore wait for one that does not, and never in a circle.
THEOREM HolderNeverWaits ==
    Spec => [](\A r \in Req : lock = r => pc[r] \in InTx /\ ~NextLeg(r, 0))
  <1>1. TInv => \A r \in Req : lock = r => pc[r] \in InTx /\ ~NextLeg(r, 0)
    BY DEF TInv, LockInv, NextLeg
  <1> QED  BY <1>1, TInvAlways, PTL

=============================================================================
