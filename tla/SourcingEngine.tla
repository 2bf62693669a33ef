--------------------------- MODULE SourcingEngine ---------------------------
(***************************************************************************)
(* SourcingEngine.BuildDebitPlan: one call, for one amount, with whatever  *)
(* wallet and linked accounts it reads.  It takes what the wallet has,     *)
(* then walks the accounts in priority order until the amount is covered.  *)
(* DebitPlan states the same plan as a formula, and AgreesWithReference    *)
(* says that the loop computes it.                                         *)
(***************************************************************************)
EXTENDS DebitPlan

CONSTANTS
    Amounts,        \* the amounts asked for (kobo)
    Ledgers,        \* the ledger balances the wallet may have
    NAccts,         \* linked accounts, in priority order 1..NAccts
    AccountRows,    \* the bank_accounts rows there may be
    LiveBalances    \* what Mono may answer when it is asked for a balance

ASSUME InputAssumption ==
    /\ Amounts \subseteq Nat \ {0}
    /\ Ledgers \subseteq Nat
    /\ NAccts \in Nat
    /\ AccountRows \subseteq [active : BOOLEAN, verified : BOOLEAN, mono : BOOLEAN,
                              token : BOOLEAN, last : Int, min : Nat]
    /\ LiveBalances \subseteq Int

VARIABLES
    amount,     \* what the caller wants to send
    ledger,     \* wallet.LedgerBalance
    accounts,   \* the user's rows in bank_accounts
    monoClient, \* a Mono client is configured
    pc,         \* the part of the function that runs next
    listed,     \* the accounts as GetByUserID returns them
    balances,   \* liveBalances of the code
    asked,      \* history: accounts whose live balance was fetched
    next,       \* the account the loop looks at
    remaining,  \* what is not sourced yet
    fromWallet, \* the wallet leg
    taken,      \* the bank legs, 0 where there is none
    fees,       \* plan.Fees, counted in NIP fees
    result      \* what the call returns

inputs == <<amount, ledger, accounts, monoClient>>
locals == <<listed, balances, asked, next, remaining, fromWallet, taken, fees>>
vars == <<inputs, pc, locals, result>>

Accts == 1..NAccts

\* The row of an account that is not loaded.
NoAccount == [active |-> FALSE, verified |-> FALSE, mono |-> FALSE,
              token |-> FALSE, last |-> 0, min |-> 0]

Init ==
    /\ amount \in Amounts
    /\ ledger \in Ledgers
    /\ accounts \in [Accts -> AccountRows]
    /\ monoClient \in BOOLEAN
    /\ pc = "wallet"
    /\ listed = [b \in Accts |-> NoAccount]
    /\ balances = [b \in Accts |-> 0]
    /\ asked = {}
    /\ next = 1
    /\ remaining = amount
    /\ fromWallet = 0
    /\ taken = [b \in Accts |-> 0]
    /\ fees = 0
    /\ result = "none"

Finish(answer) ==
    /\ pc' = "done"
    /\ result' = answer

\* The wallet is always first.  A wallet that covers the amount ends the call.
UseWallet ==
    /\ pc = "wallet"
    /\ fromWallet' = WalletShare(ledger, amount)
    /\ remaining' = amount - fromWallet'
    /\ \/ remaining' <= 0 /\ Finish("ok")
       \/ remaining' > 0 /\ pc' = "accounts" /\ UNCHANGED result
    /\ UNCHANGED <<inputs, listed, balances, asked, next, taken, fees>>

\* GetByUserID returns every column the engine uses but one: the token is not
\* in its SELECT list, so each account comes back without.
ListAccounts ==
    /\ pc = "accounts"
    /\ listed' = [b \in Accts |-> [accounts[b] EXCEPT !.token = FALSE]]
    /\ pc' = "refresh"
    /\ UNCHANGED <<inputs, balances, asked, next, remaining, fromWallet, taken,
                   fees, result>>

\* A query fails: the call returns its error and no plan.
QueryFails ==
    /\ pc \in {"wallet", "accounts"}
    /\ Finish("error")
    /\ UNCHANGED <<inputs, locals>>

\* The accounts refreshBankBalances starts a fetch for.
Fetched ==
    {b \in Accts : monoClient /\ listed[b].mono /\ listed[b].token}

\* The fetches run in parallel and are all waited for.  A fetch that fails
\* leaves the stored balance; one that succeeds is taken for naira, and stored
\* in the background, where an error is not looked at.
RefreshBalances ==
    /\ pc = "refresh"
    /\ asked' = Fetched
    /\ \E live \in [Fetched -> LiveBalances], ok \in SUBSET Fetched :
        /\ balances' = [b \in Accts |->
                            IF b \in ok THEN 100 * live[b] ELSE listed[b].last]
        /\ \E saved \in SUBSET ok :
                accounts' = [b \in Accts |-> IF b \in saved
                    THEN [accounts[b] EXCEPT !.last = 100 * live[b]] ELSE accounts[b]]
    /\ pc' = "loop"
    /\ UNCHANGED <<amount, ledger, monoClient, listed, next, remaining, fromWallet,
                   taken, fees, result>>

\* Seeded fault: the reserve the user wants to keep is not kept.
OfferAll(b) ==
    IF listed[b].active /\ listed[b].verified /\ balances[b] > 0
        THEN balances[b] ELSE 0

\* Seeded fault: an account below its reserve is not skipped.
OfferBelow(b) ==
    IF listed[b].active /\ listed[b].verified THEN balances[b] - listed[b].min ELSE 0

\* What account b may contribute; 0 is the `continue` of the loop.
Offer(b) ==
    IF listed[b].active /\ listed[b].verified /\ balances[b] > listed[b].min
        THEN balances[b] - listed[b].min ELSE 0

\* Seeded fault: an account that cannot pay the rest alone is passed over.
AllOrNothing == IF Offer(next) >= remaining THEN remaining ELSE 0

\* The leg of the account the loop looks at.
Share == Smaller(Offer(next), remaining)

\* Seeded fault: the loop does not get past an account without a leg.
StayWithoutLeg == IF Share > 0 THEN next + 1 ELSE next

Following == next + 1

\* One round of the loop over the accounts.
SourceNext ==
    /\ pc = "loop" /\ next <= NAccts
    /\ taken' = [taken EXCEPT ![next] = Share]
    /\ remaining' = remaining - Share
    /\ fees' = IF Share > 0 THEN fees + 1 ELSE fees
    /\ next' = Following
    /\ \/ remaining' <= 0 /\ Finish("ok")
       \/ remaining' > 0 /\ UNCHANGED <<pc, result>>
    /\ UNCHANGED <<inputs, listed, balances, asked, fromWallet>>

\* The loop has seen every account and something is left.
FallShort ==
    /\ pc = "loop" /\ next > NAccts
    /\ Finish("short")
    /\ UNCHANGED <<inputs, locals>>

Next ==
    \/ UseWallet \/ ListAccounts \/ QueryFails \/ RefreshBalances
    \/ SourceNext \/ FallShort

Spec == Init /\ [][Next]_vars

\* The call runs on until it returns.
FairSpec == Spec /\ WF_vars(Next)

----------------------------------------------------------------------------
(* Properties.                                                             *)

\* Every variable has its type.
TypeOK ==
    /\ amount \in Nat \ {0}
    /\ ledger \in Nat
    /\ accounts \in [Accts -> AccountRows]
    /\ monoClient \in BOOLEAN
    /\ pc \in {"wallet", "accounts", "refresh", "loop", "done"}
    /\ \A b \in Accts : listed[b] \in [active : BOOLEAN, verified : BOOLEAN,
            mono : BOOLEAN, token : BOOLEAN, last : Int, min : Nat]
    /\ balances \in [Accts -> Int]
    /\ asked \subseteq Accts
    /\ next \in 1..(NAccts + 1)
    /\ remaining \in Nat
    /\ fromWallet \in Nat
    /\ taken \in [Accts -> Nat]
    /\ fees \in 0..NAccts
    /\ result \in {"none", "ok", "short", "error"}

\* What the accounts, as stored, can contribute over the reserve of the user.
Stored == [b \in Accts |->
    IF accounts[b].active /\ accounts[b].verified /\ accounts[b].last > accounts[b].min
        THEN accounts[b].last - accounts[b].min ELSE 0]

\* The loop and the definition of a debit plan agree: a returned plan is the
\* one plan of the definition and covers the amount, and a refusal means that
\* wallet and accounts together are short of it.
AgreesWithReference ==
    result \in {"ok", "short"} =>
        \E rem \in Remainders(amount - WalletShare(ledger, amount), Stored, NAccts) :
            /\ fromWallet = WalletShare(ledger, amount)
            /\ taken = BankShares(rem, NAccts)
            /\ (result = "ok") <=> (rem[NAccts] = 0)

\* At no point of the loop is an account drawn on while something of higher
\* priority, the wallet first, still had money to give.
PriorityRespected ==
    \A k \in Accts : taken[k] > 0 =>
        /\ fromWallet = ledger
        /\ \A j \in 1..(k - 1) : taken[j] = Stored[j]

\* Every call returns.
CallReturns == <>(pc = "done")

\* wallet_service.go, refreshBankBalances: "fetches live Mono balances for all
\* active+verified accounts".
BalancesAreLive ==
    pc = "loop" /\ monoClient =>
        \A b \in Accts : accounts[b].active /\ accounts[b].verified
                            /\ accounts[b].mono /\ accounts[b].token => b \in asked

=============================================================================
