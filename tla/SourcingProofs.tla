--------------------------- MODULE SourcingProofs ---------------------------
(***************************************************************************)
(* SourcingEngine computes the debit plan of DebitPlan, for every amount,  *)
(* wallet and list of accounts.  The loop invariant says that what the     *)
(* loop has taken so far is the beginning of the plan of the definition.   *)
(***************************************************************************)
EXTENDS SourcingEngine, WellFoundedInduction, NaturalsInduction, TLAPS

\* What is left after the wallet.
First == amount - WalletShare(ledger, amount)

\* rem is what was left before and after each account the loop has passed.
Passed(rem) ==
    /\ rem \in [0..NAccts -> 0..First]
    /\ rem[0] = First
    /\ rem[next - 1] = remaining
    /\ \A j \in 1..(next - 1) :
            /\ rem[j] = rem[j - 1] - Smaller(Stored[j], rem[j - 1])
            /\ taken[j] = rem[j - 1] - rem[j]

\* The accounts come back as stored, but for the token.
Listed == listed = [b \in Accts |-> [accounts[b] EXCEPT !.token = FALSE]]

\* The loop runs while something is left, and has drained all it has passed.
LoopInv ==
    /\ pc # "done" => result = "none"
    /\ pc \in {"wallet", "accounts", "refresh"} => next = 1
    /\ \A j \in next..NAccts : taken[j] = 0
    /\ pc = "refresh" => Listed
    /\ pc = "loop" => \A b \in Accts : Offer(b) = Stored[b]
    /\ pc \in {"accounts", "refresh", "loop"} =>
            /\ remaining > 0
            /\ fromWallet = WalletShare(ledger, amount)
            /\ \A j \in 1..(next - 1) : taken[j] = Stored[j]
            /\ \E rem \in [0..NAccts -> 0..First] : Passed(rem)

SInv ==
    TypeOK /\ fees <= next - 1 /\ LoopInv /\ AgreesWithReference /\ PriorityRespected

----------------------------------------------------------------------------

\* The wallet never gives more than it has or more than is asked for; if
\* something is left to source, it has given all it had.
LEMMA WalletFirst ==
    ASSUME TypeOK
    PROVE  /\ WalletShare(ledger, amount) \in Nat
           /\ First \in Nat
           /\ First > 0 => WalletShare(ledger, amount) = ledger
  BY DEF TypeOK, WalletShare, Smaller, First

\* No account offers a negative amount.
LEMMA StoredType ==
    ASSUME TypeOK PROVE Stored \in [Accts -> Nat]
  <1>1. ASSUME NEW b \in Accts
        PROVE  accounts[b].last \in Int /\ accounts[b].min \in Nat
    BY InputAssumption DEF TypeOK
  <1>2. ASSUME NEW b \in Accts, accounts[b].last > accounts[b].min
        PROVE  accounts[b].last - accounts[b].min \in Nat
    BY <1>1, <1>2
  <1> QED  BY <1>2 DEF Stored

\* The initial state satisfies the invariant.
LEMMA InitSInv == Init => SInv
  <1> SUFFICES ASSUME Init PROVE SInv
    OBVIOUS
  <1>1. TypeOK
    BY InputAssumption DEF Init, TypeOK, NoAccount, Accts
  <1>2. LoopInv
    BY <1>1, InputAssumption DEF Init, LoopInv, Accts
  <1> QED
    BY <1>1, <1>2 DEF Init, SInv, AgreesWithReference, PriorityRespected

\* The inputs do not change, so neither does what the proofs derive from them.
LEMMA InputsFixed ==
    ASSUME UNCHANGED inputs
    PROVE  First' = First /\ Stored' = Stored
  BY DEF inputs, First, Stored

\* A wallet that covers the amount is the plan; otherwise the loop has
\* passed no account yet.
LEMMA WalletKeeps ==
    ASSUME SInv, UseWallet
    PROVE  SInv'
  <1> USE DEF SInv
  <1> DEFINE zero == [j \in 0..NAccts |-> First]
  <1>1. /\ UNCHANGED inputs /\ First' = First /\ Stored' = Stored
        /\ WalletShare(ledger, amount) \in Nat /\ First \in Nat
        /\ Stored \in [Accts -> Nat] /\ NAccts \in Nat
        /\ First > 0 => WalletShare(ledger, amount) = ledger
    BY WalletFirst, StoredType, InputsFixed, InputAssumption DEF UseWallet
  <1>2. /\ fromWallet' = WalletShare(ledger, amount) /\ remaining' = First
        /\ next = 1 /\ pc = "wallet" /\ result = "none"
        /\ UNCHANGED <<amount, ledger, accounts, monoClient, listed, balances, asked, next, taken, fees>>
        /\ taken \in [Accts -> Nat] /\ \A j \in Accts : taken[j] = 0
    BY DEF UseWallet, LoopInv, First, inputs, TypeOK, Accts
  <1>3. \/ First = 0 /\ pc' = "done" /\ result' = "ok"
        \/ First > 0 /\ pc' = "accounts" /\ result' = "none"
    BY <1>1, <1>2 DEF UseWallet, Finish
  <1>4. TypeOK'
    BY <1>1, <1>2, <1>3 DEF TypeOK
  <1>5. PriorityRespected'
    BY <1>2 DEF PriorityRespected
  <1>6. AgreesWithReference'
    <2> SUFFICES ASSUME First = 0, result' = "ok" PROVE AgreesWithReference'
      BY <1>3 DEF AgreesWithReference
    <2>1. zero \in Remainders(First, Stored, NAccts)
      BY <1>1, StoredType DEF Remainders, Smaller, Accts
    <2>2. taken = BankShares(zero, NAccts)
      BY <1>1, <1>2 DEF BankShares, Accts
    <2>3. zero[NAccts] = 0
      BY <1>1
    <2>4. First = amount' - WalletShare(ledger', amount') /\ Stored' = Stored
      BY <1>1, <1>2 DEF First
    <2> HIDE DEF zero
    <2> QED  BY <2>1, <2>2, <2>3, <2>4, <1>2 DEF AgreesWithReference
  <1>7. LoopInv'
    <2> SUFFICES ASSUME First > 0, pc' = "accounts", result' = "none" PROVE LoopInv'
      BY <1>2, <1>3 DEF LoopInv
    <2>1. PICK z : z = zero
      OBVIOUS
    <2>2. z \in [0..NAccts -> 0..First'] /\ Passed(z)'
      BY <2>1, <1>1, <1>2 DEF Passed
    <2> QED  BY <2>2, <1>2 DEF LoopInv, Accts
  <1> QED  BY <1>2, <1>4, <1>5, <1>6, <1>7 DEF LoopInv

\* Reading the accounts forgets the tokens and changes nothing else.
LEMMA ListKeeps ==
    ASSUME SInv, ListAccounts
    PROVE  SInv'
  <1> USE DEF SInv
  <1>1. /\ pc = "accounts" /\ pc' = "refresh" /\ result = "none" /\ Listed'
        /\ UNCHANGED <<amount, ledger, accounts, monoClient, balances, asked, next,
                       remaining, fromWallet, taken, fees, result>>
        /\ First' = First /\ Stored' = Stored
    BY InputsFixed DEF ListAccounts, LoopInv, Listed, inputs
  <1>2. \A b \in Accts : listed'[b] \in [active : BOOLEAN, verified : BOOLEAN,
            mono : BOOLEAN, token : BOOLEAN, last : Int, min : Nat]
    <2> SUFFICES ASSUME NEW b \in Accts
                 PROVE  listed'[b] \in [active : BOOLEAN, verified : BOOLEAN,
                            mono : BOOLEAN, token : BOOLEAN, last : Int, min : Nat]
      OBVIOUS
    <2>1. listed'[b] = [accounts[b] EXCEPT !.token = FALSE]
      BY <1>1 DEF Listed
    <2>2. accounts[b] \in [active : BOOLEAN, verified : BOOLEAN,
            mono : BOOLEAN, token : BOOLEAN, last : Int, min : Nat]
      BY InputAssumption DEF TypeOK
    <2> QED  BY <2>1, <2>2
  <1>3. TypeOK'
    BY <1>1, <1>2 DEF TypeOK
  <1>4. AgreesWithReference' /\ PriorityRespected'
    BY <1>1 DEF AgreesWithReference, PriorityRespected
  <1>5. LoopInv'
    BY <1>1 DEF LoopInv, Passed
  <1> QED  BY <1>1, <1>3, <1>4, <1>5

\* Without tokens nothing is fetched: the loop works on the stored balances,
\* and the stored balances stay.
LEMMA RefreshKeeps ==
    ASSUME SInv, RefreshBalances
    PROVE  SInv'
  <1> USE DEF SInv
  <1>1. pc = "refresh" /\ Listed
    BY DEF RefreshBalances, LoopInv
  <1>2. \A b \in Accts :
            /\ ~listed[b].token
            /\ listed[b].active = accounts[b].active
            /\ listed[b].verified = accounts[b].verified
            /\ listed[b].min = accounts[b].min
            /\ listed[b].last = accounts[b].last
            /\ accounts[b].last \in Int
    <2> SUFFICES ASSUME NEW b \in Accts
                 PROVE  /\ ~listed[b].token
                        /\ listed[b].active = accounts[b].active
                        /\ listed[b].verified = accounts[b].verified
                        /\ listed[b].min = accounts[b].min
                        /\ listed[b].last = accounts[b].last
                        /\ accounts[b].last \in Int
      OBVIOUS
    <2>1. listed[b] = [accounts[b] EXCEPT !.token = FALSE]
      BY <1>1 DEF Listed
    <2>2. accounts[b] \in [active : BOOLEAN, verified : BOOLEAN,
            mono : BOOLEAN, token : BOOLEAN, last : Int, min : Nat]
      BY InputAssumption DEF TypeOK
    <2> QED  BY <2>1, <2>2
  <1>3. Fetched = {}
    BY <1>2 DEF Fetched
  <1>4. accounts' = accounts
    <2>1. accounts' = [b \in Accts |-> accounts[b]]
      BY <1>3 DEF RefreshBalances
    <2> QED  BY <2>1 DEF TypeOK
  <1>5. /\ pc = "refresh" /\ pc' = "loop" /\ result = "none" /\ Listed
        /\ UNCHANGED <<amount, ledger, accounts, monoClient, listed, next,
                       remaining, fromWallet, taken, fees, result>>
        /\ First' = First /\ Stored' = Stored
    BY <1>1, <1>4, InputsFixed DEF RefreshBalances, LoopInv, inputs
  <1>6. balances' = [b \in Accts |-> accounts[b].last] /\ asked' = {}
    BY <1>2, <1>3 DEF RefreshBalances
  <1>7. TypeOK'
    BY <1>5, <1>2, <1>6 DEF TypeOK
  <1>8. AgreesWithReference' /\ PriorityRespected'
    BY <1>5 DEF AgreesWithReference, PriorityRespected
  <1>9. \A b \in Accts : Offer(b)' = Stored[b]
    BY <1>5, <1>2, <1>6 DEF Offer, Stored
  <1>10. LoopInv'
    BY <1>5, <1>9 DEF LoopInv, Passed
  <1> QED  BY <1>5, <1>7, <1>8, <1>10

\* A round of the loop takes what the definition takes, and when nothing is
\* left the legs that were never looked at are the empty ones it has there.
LEMMA SourceKeeps ==
    ASSUME SInv, SourceNext
    PROVE  SInv'
  <1> USE DEF SInv
  <1> DEFINE left == remaining - Share
  <1>1. /\ pc = "loop" /\ result = "none" /\ NAccts \in Nat
        /\ next \in 1..NAccts /\ next \in Accts /\ Accts = 1..NAccts
        /\ remaining \in Nat /\ remaining > 0
        /\ taken \in [Accts -> Nat] /\ Stored \in [Accts -> Nat]
    <2>1. pc = "loop" /\ NAccts \in Nat /\ Accts = 1..NAccts /\ next \in 1..NAccts
      BY InputAssumption DEF SourceNext, TypeOK, Accts
    <2>2. remaining \in Nat /\ taken \in [Accts -> Nat] /\ Stored \in [Accts -> Nat]
      BY StoredType DEF TypeOK
    <2>3. result = "none" /\ remaining > 0
      BY <2>1 DEF LoopInv
    <2> QED  BY <2>1, <2>2, <2>3
  <1>2. /\ First \in Nat /\ remaining <= First
        /\ fromWallet = WalletShare(ledger, amount) /\ fromWallet = ledger
        /\ \A j \in 1..(next - 1) : taken[j] = Stored[j]
        /\ \A j \in next..NAccts : taken[j] = 0
    <2>1. PICK rem \in [0..NAccts -> 0..First] : Passed(rem)
      BY <1>1 DEF LoopInv
    <2>2. First \in Nat /\ (First > 0 => WalletShare(ledger, amount) = ledger)
      BY WalletFirst
    <2>3. remaining <= First
      BY <1>1, <2>1, <2>2 DEF Passed
    <2> QED  BY <1>1, <2>2, <2>3 DEF LoopInv
  <1>3. /\ Share = Smaller(Stored[next], remaining) /\ Share \in 0..remaining
        /\ left \in Nat /\ (left > 0 => Share = Stored[next])
    <2>1. Share = Smaller(Stored[next], remaining)
      BY <1>1 DEF Share, LoopInv
    <2>2. Stored[next] \in Nat
      BY <1>1
    <2> QED  BY <1>1, <2>1, <2>2 DEF Smaller
  <1>4. /\ taken' = [taken EXCEPT ![next] = Share] /\ remaining' = left
        /\ next' = next + 1
        /\ fees' = IF Share > 0 THEN fees + 1 ELSE fees
        /\ UNCHANGED <<amount, ledger, accounts, monoClient, listed, balances, asked, fromWallet>>
        /\ First' = First /\ Stored' = Stored
        /\ \/ left = 0 /\ pc' = "done" /\ result' = "ok"
           \/ left > 0 /\ pc' = "loop" /\ result' = "none"
    BY <1>1, <1>3, InputsFixed DEF SourceNext, Finish, Following, inputs
  <1> HIDE DEF left
  <1>5. fees' <= next' - 1 /\ fees' \in 0..NAccts /\ next' \in 1..(NAccts + 1)
    BY <1>1, <1>4 DEF TypeOK, Accts
  <1>6. TypeOK'
    <2>1. taken' \in [Accts -> Nat]
      BY <1>1, <1>3, <1>4
    <2> QED  BY <2>1, <1>1, <1>3, <1>4, <1>5 DEF TypeOK
  <1>7. PriorityRespected'
    <2> SUFFICES ASSUME NEW k \in 1..NAccts, taken'[k] > 0, NEW j \in 1..(k - 1)
                 PROVE  taken'[j] = Stored[j]
      BY <1>1, <1>2, <1>4 DEF PriorityRespected
    <2>1. k <= next
      <3>1. CASE k > next
        BY <3>1, <1>1, <1>2, <1>4
      <3> QED  BY <3>1, <1>1
    <2>2. j \in 1..(next - 1) /\ j # next /\ j \in Accts
      BY <2>1, <1>1
    <2> QED  BY <2>2, <1>1, <1>2, <1>4
  <1>8. PICK rem \in [0..NAccts -> 0..First] : Passed(rem)
    BY <1>1 DEF LoopInv
  <1>9. PICK rest : rest = [j \in 0..NAccts |-> IF j < next THEN rem[j]
                                               ELSE IF j = next THEN left ELSE 0]
    OBVIOUS
  <1>10. /\ rest \in [0..NAccts -> 0..First] /\ rest[0] = First
         /\ rest[next] = left /\ rest[next - 1] = remaining
         /\ \A j \in 0..(next - 1) : rest[j] = rem[j]
         /\ \A j \in 0..NAccts : j > next => rest[j] = 0
    <2>1. rem[0] = First /\ rem[next - 1] = remaining /\ next - 1 \in 0..NAccts
      BY <1>1, <1>8 DEF Passed
    <2>2. left \in 0..First
      BY <1>1, <1>2, <1>3 DEF left
    <2>3. rest \in [0..NAccts -> 0..First]
      <3>1. ASSUME NEW j \in 0..NAccts
            PROVE  (IF j < next THEN rem[j] ELSE IF j = next THEN left ELSE 0) \in 0..First
        BY <1>1, <1>2, <1>8, <2>2
      <3> QED  BY <3>1, <1>9
    <2> QED  BY <1>1, <1>9, <2>1, <2>3
  <1>11. ASSUME NEW j \in 1..NAccts
         PROVE  /\ j <= next => /\ rest[j] = rest[j - 1] - Smaller(Stored[j], rest[j - 1])
                                /\ taken'[j] = rest[j - 1] - rest[j]
                /\ j > next => taken'[j] = 0 /\ rest[j] = 0
    <2>1. CASE j < next
      <3>1. /\ j \in 1..(next - 1) /\ j \in 0..(next - 1) /\ j - 1 \in 0..(next - 1)
            /\ taken'[j] = taken[j]
        BY <2>1, <1>1, <1>4
      <3>2. rest[j] = rem[j] /\ rest[j - 1] = rem[j - 1]
        BY <3>1, <1>10
      <3> QED  BY <2>1, <3>1, <3>2, <1>8, <1>1 DEF Passed
    <2>2. CASE j = next
      <3>1. taken'[next] = Share
        BY <1>1, <1>4
      <3> QED  BY <2>2, <3>1, <1>1, <1>3, <1>10 DEF left
    <2>3. CASE j > next
      <3>1. rest[j] = 0
        BY <2>3, <1>1, <1>10
      <3>2. taken'[j] = taken[j] /\ taken[j] = 0
        BY <2>3, <1>1, <1>2, <1>4
      <3> QED  BY <2>3, <3>1, <3>2, <1>1
    <2> QED  BY <2>1, <2>2, <2>3, <1>1
  <1>12. LoopInv'
    <2>1. ASSUME left > 0 PROVE \A j \in 1..(next' - 1) : taken'[j] = Stored[j]
      <3> SUFFICES ASSUME NEW j \in 1..next PROVE taken'[j] = Stored[j]
        BY <1>1, <1>4
      <3>1. CASE j = next
        BY <3>1, <2>1, <1>1, <1>3, <1>4
      <3>2. CASE j # next
        BY <3>2, <1>1, <1>2, <1>4
      <3> QED  BY <3>1, <3>2
    <2>2. Passed(rest)' /\ rest \in [0..NAccts -> 0..First']
      <3>1. next' - 1 = next /\ \A j \in 1..next : j \in 1..NAccts /\ j <= next
        BY <1>1, <1>4
      <3> QED  BY <3>1, <1>4, <1>10, <1>11 DEF Passed
    <2>3. \A j \in next'..NAccts : taken'[j] = 0
      BY <1>1, <1>4, <1>11
    <2>4. pc' = "loop" => \A b \in Accts : Offer(b)' = Stored[b]
      BY <1>1, <1>4 DEF LoopInv, Offer
    <2>5. CASE left > 0
      BY <2>1, <2>2, <2>3, <2>4, <2>5, <1>2, <1>4 DEF LoopInv
    <2>6. CASE ~(left > 0)
      BY <2>3, <2>6, <1>4 DEF LoopInv
    <2> QED  BY <2>5, <2>6
  <1>13. AgreesWithReference'
    <2> SUFFICES ASSUME left = 0, result' = "ok" PROVE AgreesWithReference'
      BY <1>4 DEF AgreesWithReference
    <2>1. ASSUME NEW j \in 1..NAccts
          PROVE  /\ rest[j] = rest[j - 1] - Smaller(Stored[j], rest[j - 1])
                 /\ taken'[j] = rest[j - 1] - rest[j]
      <3>1. CASE j <= next
        BY <3>1, <1>11
      <3>2. CASE j > next
        <4>1. rest[j] = 0 /\ taken'[j] = 0
          BY <3>2, <1>11
        <4>2. rest[j - 1] = 0
          <5>1. CASE j - 1 = next
            BY <5>1, <1>10
          <5>2. CASE j - 1 > next
            BY <5>2, <3>2, <1>1, <1>10
          <5> QED  BY <5>1, <5>2, <3>2, <1>1
        <4>3. Stored[j] \in Nat
          BY <1>1
        <4> QED  BY <4>1, <4>2, <4>3 DEF Smaller
      <3> QED  BY <3>1, <3>2, <1>1
    <2>2. rest \in Remainders(First, Stored, NAccts)
      BY <2>1, <1>10 DEF Remainders
    <2>3. taken' = BankShares(rest, NAccts)
      <3>1. taken' \in [1..NAccts -> Nat]
        BY <1>6, <1>1 DEF TypeOK
      <3> QED  BY <2>1, <3>1 DEF BankShares
    <2>4. rest[NAccts] = 0
      BY <1>1, <1>10
    <2>5. First = amount' - WalletShare(ledger', amount') /\ Stored' = Stored
      BY <1>4 DEF First
    <2> QED  BY <2>2, <2>3, <2>4, <2>5, <1>2, <1>4 DEF AgreesWithReference
  <1> QED  BY <1>5, <1>6, <1>7, <1>12, <1>13

\* When every account has been passed, what the loop has is the whole plan.
LEMMA ShortKeeps ==
    ASSUME SInv, FallShort
    PROVE  SInv'
  <1> USE DEF SInv
  <1>1. /\ pc = "loop" /\ next = NAccts + 1 /\ NAccts \in Nat
        /\ pc' = "done" /\ result' = "short"
        /\ UNCHANGED <<amount, ledger, accounts, monoClient, listed, balances, asked,
                       next, remaining, fromWallet, taken, fees>>
        /\ First' = First /\ Stored' = Stored
    BY InputAssumption, InputsFixed DEF FallShort, Finish, TypeOK, inputs, locals
  <1>2. TypeOK' /\ PriorityRespected' /\ LoopInv'
    BY <1>1 DEF TypeOK, PriorityRespected, LoopInv
  <1>3. PICK rem \in [0..NAccts -> 0..First] : Passed(rem)
    BY <1>1 DEF LoopInv
  <1>4. /\ rem \in Remainders(First, Stored, NAccts)
        /\ taken = BankShares(rem, NAccts)
        /\ rem[NAccts] # 0 /\ fromWallet = WalletShare(ledger, amount)
    BY <1>1, <1>3 DEF Passed, Remainders, BankShares, LoopInv, TypeOK, Accts
  <1>5. AgreesWithReference'
    BY <1>1, <1>4 DEF AgreesWithReference, First
  <1> QED  BY <1>1, <1>2, <1>5

\* Every step keeps the invariant.
LEMMA NextSInv == SInv /\ [Next]_vars => SInv'
  <1> SUFFICES ASSUME SInv, [Next]_vars PROVE SInv'
    OBVIOUS
  <1>1. CASE QueryFails
    <2>1. /\ pc' = "done" /\ result' = "error"
          /\ UNCHANGED <<amount, ledger, accounts, monoClient, listed, balances, asked,
                         next, remaining, fromWallet, taken, fees>>
      BY <1>1 DEF QueryFails, Finish, inputs, locals
    <2>2. Stored' = Stored
      BY <2>1 DEF Stored
    <2> QED
      BY <2>1, <2>2 DEF SInv, TypeOK, LoopInv, AgreesWithReference, PriorityRespected
  <1>2. CASE UNCHANGED vars
    <2>1. UNCHANGED <<amount, ledger, accounts, monoClient, pc, listed, balances, asked,
                      next, remaining, fromWallet, taken, fees, result>>
      BY <1>2 DEF vars, inputs, locals
    <2>2. Stored' = Stored /\ First' = First /\ \A b \in Accts : Offer(b)' = Offer(b)
      BY <2>1 DEF Stored, First, Offer
    <2> QED
      BY <2>1, <2>2 DEF SInv, TypeOK, LoopInv, AgreesWithReference, PriorityRespected,
         Passed, Listed
  <1> QED
    BY <1>1, <1>2, WalletKeeps, ListKeeps, RefreshKeeps, SourceKeeps, ShortKeeps DEF Next

----------------------------------------------------------------------------
(* The theorems.                                                           *)

\* The invariant holds in every reachable state.
THEOREM SInvAlways == Spec => []SInv
  BY InitSInv, NextSInv, PTL DEF Spec

\* The type invariant: no leg, remainder or fee is ever negative.
THEOREM SourcingTypeCorrect == Spec => []TypeOK
  <1>1. SInv => TypeOK
    BY DEF SInv
  <1> QED  BY <1>1, SInvAlways, PTL

\* The loop computes the debit plan of the definition, for any number of
\* accounts, and refuses exactly when the money is not there.
THEOREM LoopComputesThePlan == Spec => []AgreesWithReference
  <1>1. SInv => AgreesWithReference
    BY DEF SInv
  <1> QED  BY <1>1, SInvAlways, PTL

\* No account is drawn on before everything of higher priority is used up.
THEOREM PriorityAlways == Spec => []PriorityRespected
  <1>1. SInv => PriorityRespected
    BY DEF SInv
  <1> QED  BY <1>1, SInvAlways, PTL

----------------------------------------------------------------------------
(* The reference definition: a plan there is, and one only.  The provers   *)
(* have no induction here; a least counterexample does instead.            *)

\* Some natural number of a set of them is its least.
LEMMA LeastNatural ==
    ASSUME NEW T, T \subseteq Nat, T # {}
    PROVE  \E k \in T : \A j \in T : k <= j
  <1> DEFINE R == OpToRel(<, Nat)
  <1>1. IsWellFoundedOn(R, Nat)
    BY NatLessThanWellFounded
  <1>2. \A x, y \in Nat : <<y, x>> \in R <=> y < x
    BY DEF OpToRel
  <1> HIDE DEF R
  <1>3. PICK k \in T : \A j \in T : <<j, k>> \notin R
    BY <1>1, WFMin
  <1>4. \A j \in T : ~(j < k) 
    BY <1>2, <1>3
  <1> QED  BY <1>3, <1>4

\* There are remainders for every list of accounts: those for one account
\* less, and what the last account leaves of them.
LEMMA SomeRemainders ==
    ASSUME NEW first \in Nat, NEW n \in Nat, NEW avail, \A i \in 1..n : avail[i] \in Nat
    PROVE  Remainders(first, avail, n) # {}
  <1> SUFFICES ASSUME Remainders(first, avail, n) = {} PROVE FALSE
    OBVIOUS
  <1> DEFINE T == {k \in 0..n : Remainders(first, avail, k) = {}}
  <1>1. PICK k \in T : \A j \in T : k <= j
    <2>1. n \in T /\ T \subseteq Nat
      OBVIOUS
    <2> HIDE DEF T
    <2> QED  BY <2>1, LeastNatural
  <1>2. CASE k = 0
    <2> DEFINE rem == [i \in 0..0 |-> first]
    <2>1. rem \in Remainders(first, avail, 0)
      BY DEF Remainders
    <2> QED  BY <1>2, <2>1
  <1>3. CASE k # 0
    <2>1. k \in 1..n /\ k - 1 \in 0..n /\ k - 1 \notin T
      BY <1>1, <1>3
    <2>2. PICK rem : rem \in Remainders(first, avail, k - 1)
      BY <2>1
    <2>3. /\ rem \in [0..(k - 1) -> 0..first] /\ rem[0] = first
          /\ \A i \in 1..(k - 1) : rem[i] = rem[i - 1] - Smaller(avail[i], rem[i - 1])
      BY <2>2 DEF Remainders
    <2> DEFINE left == rem[k - 1] - Smaller(avail[k], rem[k - 1])
               more == [i \in 0..k |-> IF i = k THEN left ELSE rem[i]]
    <2>4. left \in 0..first
      <3>1. rem[k - 1] \in 0..first /\ avail[k] \in Nat
        BY <2>1, <2>3
      <3> QED  BY <3>1 DEF Smaller
    <2> HIDE DEF left
    <2>5. more \in [0..k -> 0..first] /\ more[0] = first
      BY <2>1, <2>3, <2>4
    <2>6. ASSUME NEW i \in 1..k
          PROVE  more[i] = more[i - 1] - Smaller(avail[i], more[i - 1])
      <3>1. more[i - 1] = rem[i - 1]
        BY <2>1, <2>6
      <3>2. CASE i = k
        BY <2>1, <3>1, <3>2 DEF left
      <3>3. CASE i # k
        BY <2>1, <2>3, <3>1, <3>3
      <3> QED  BY <3>2, <3>3
    <2> HIDE DEF more
    <2>7. more \in Remainders(first, avail, k)
      BY <2>5, <2>6 DEF Remainders
    <2> QED  BY <2>7
  <1> QED  BY <1>2, <1>3

\* And no two: where they differ first, they would be computed alike.
LEMMA OneRemainders ==
    ASSUME NEW first, NEW n \in Nat, NEW avail,
           NEW r \in Remainders(first, avail, n), NEW s \in Remainders(first, avail, n)
    PROVE  r = s
  <1> DEFINE T == {i \in 0..n : r[i] # s[i]}
  <1>1. /\ r \in [0..n -> 0..first] /\ s \in [0..n -> 0..first] /\ r[0] = s[0]
        /\ \A i \in 1..n : r[i] = r[i - 1] - Smaller(avail[i], r[i - 1])
        /\ \A i \in 1..n : s[i] = s[i - 1] - Smaller(avail[i], s[i - 1])
    BY DEF Remainders
  <1>2. ASSUME T # {} PROVE FALSE
    <2>1. PICK k \in T : \A j \in T : k <= j
      <3>1. T \subseteq Nat
        OBVIOUS
      <3> HIDE DEF T
      <3> QED  BY <1>2, <3>1, LeastNatural
    <2>2. k \in 1..n /\ k - 1 \in 0..n /\ k - 1 \notin T
      BY <1>1, <2>1
    <2>3. r[k - 1] = s[k - 1]
      BY <2>2
    <2> QED  BY <1>1, <2>1, <2>2, <2>3
  <1>3. \A i \in 0..n : r[i] = s[i]
    BY <1>2
  <1> QED  BY <1>1, <1>3

\* The debit plan is a function of the amount, the wallet and the accounts.
THEOREM OneDebitPlan ==
    ASSUME NEW first \in Nat, NEW n \in Nat, NEW avail, \A i \in 1..n : avail[i] \in Nat
    PROVE  \E rem : Remainders(first, avail, n) = {rem}
  <1>1. PICK rem : rem \in Remainders(first, avail, n)
    BY SomeRemainders
  <1>2. \A s \in Remainders(first, avail, n) : s = rem
    BY <1>1, OneRemainders
  <1> QED  BY <1>1, <1>2

\* BuildDebitPlan, service/wallet_service.go:560: what it returns depends on
\* the amount, the wallet and the stored accounts alone, whatever Mono
\* answers: there is one plan, and the call returns it or refuses for it.
THEOREM ThePlanIsReturned ==
    Spec => [](result \in {"ok", "short"} =>
                \E rem : /\ Remainders(First, Stored, NAccts) = {rem}
                        /\ fromWallet = WalletShare(ledger, amount)
                        /\ taken = BankShares(rem, NAccts)
                        /\ result = "ok" <=> rem[NAccts] = 0)
  <1>1. ASSUME SInv, result \in {"ok", "short"}
        PROVE  \E rem : /\ Remainders(First, Stored, NAccts) = {rem}
                       /\ fromWallet = WalletShare(ledger, amount)
                       /\ taken = BankShares(rem, NAccts)
                       /\ result = "ok" <=> rem[NAccts] = 0
    <2>1. First \in Nat /\ NAccts \in Nat /\ \A i \in 1..NAccts : Stored[i] \in Nat
      BY <1>1, WalletFirst, StoredType, InputAssumption DEF SInv, Accts
    <2>2. PICK one : Remainders(First, Stored, NAccts) = {one}
      BY <2>1, OneDebitPlan
    <2>3. PICK rem \in Remainders(First, Stored, NAccts) :
            /\ fromWallet = WalletShare(ledger, amount)
            /\ taken = BankShares(rem, NAccts)
            /\ result = "ok" <=> rem[NAccts] = 0
      BY <1>1 DEF SInv, AgreesWithReference, First
    <2>4. Remainders(First, Stored, NAccts) = {rem}
      BY <2>2, <2>3
    <2> QED  BY <2>3, <2>4
  <1> QED  BY <1>1, SInvAlways, PTL

----------------------------------------------------------------------------
(* How long a call can take.                                               *)

\* The statements a call may still run: the four parts of the function, and a
\* round of the loop for each account it has not seen.
StepsLeft ==
    CASE pc = "wallet" -> NAccts + 4
      [] pc = "accounts" -> NAccts + 3
      [] pc = "refresh" -> NAccts + 2
      [] pc = "loop" -> NAccts + 2 - next
      [] pc = "done" -> 0

\* The safety half of CallReturns, service/wallet_service.go:560: every step
\* brings the call nearer to its end, whatever the accounts hold and Mono
\* answers, so it returns after at most NAccts + 4 of them.
THEOREM CallIsBounded ==
    Spec => [](StepsLeft \in 0..(NAccts + 4)) /\ [][StepsLeft' < StepsLeft]_vars
  <1> USE InputAssumption
  <1>1. TypeOK => StepsLeft \in 0..(NAccts + 4)
    BY DEF TypeOK, StepsLeft
  <1>2. TypeOK /\ TypeOK' /\ [Next]_vars => [StepsLeft' < StepsLeft]_vars
    <2> SUFFICES ASSUME TypeOK, TypeOK', Next PROVE StepsLeft' < StepsLeft
      OBVIOUS
    <2>1. CASE UseWallet
      BY <2>1 DEF UseWallet, Finish, TypeOK, StepsLeft
    <2>2. CASE ListAccounts
      BY <2>2 DEF ListAccounts, TypeOK, StepsLeft
    <2>3. CASE QueryFails
      BY <2>3 DEF QueryFails, Finish, TypeOK, StepsLeft
    <2>4. CASE RefreshBalances
      <3>1. pc = "refresh" /\ pc' = "loop" /\ next' = next
        BY <2>4 DEF RefreshBalances
      <3> QED  BY <3>1 DEF TypeOK, StepsLeft
    <2>5. CASE SourceNext
      <3>1. /\ pc = "loop" /\ next \in 1..NAccts /\ next' = next + 1
            /\ pc' \in {"loop", "done"}
        BY <2>5 DEF SourceNext, Following, Finish, TypeOK
      <3> QED  BY <3>1 DEF StepsLeft
    <2>6. CASE FallShort
      BY <2>6 DEF FallShort, Finish, TypeOK, StepsLeft
    <2> QED  BY <2>1, <2>2, <2>3, <2>4, <2>5, <2>6 DEF Next
  <1> QED  BY <1>1, <1>2, SourcingTypeCorrect, PTL DEF Spec

=============================================================================
