---------------------------- MODULE TransferBook ----------------------------
(***************************************************************************)
(* What transfers do to the wallets row, seen from the committed state     *)
(* only.  A transfer happens at most once and in one step, and its effect  *)
(* is computed from the row it meets.  It is the contract TransferService  *)
(* implements, including the two effects the wallet keeps of a transfer:   *)
(* a hold nobody releases, and a hold that is followed by a full debit.    *)
(***************************************************************************)
EXTENDS WalletRow

CONSTANTS Req, AmountOf, InitialBalance, Deposits

VARIABLES
    row,        \* the wallets row
    outcome     \* status of the parent row of each transfer

bookvars == <<row, outcome>>

BookInit ==
    /\ row = [balance |-> InitialBalance, ledger |-> InitialBalance]
    /\ outcome = [r \in Req |-> "NONE"]

\* A debit leg failed: whatever was held before it stays held.
LeavePending(r) ==
    /\ outcome[r] = "NONE"
    /\ outcome' = [outcome EXCEPT ![r] = "PENDING"]
    /\ \E h \in 0..AmountOf[r] : CanHold(row, h) /\ row' = Hold(row, h)

\* The payout failed: the wallet is as if the transfer had never started.
Fail(r) ==
    /\ outcome[r] = "NONE"
    /\ outcome' = [outcome EXCEPT ![r] = "FAILED"]
    /\ row' = row

\* The wallet share is held, then debited where the held row allows it.
Complete(r) ==
    /\ outcome[r] = "NONE"
    /\ outcome' = [outcome EXCEPT ![r] = "COMPLETED"]
    /\ \E h \in 0..AmountOf[r] :
            /\ CanHold(row, h)
            /\ LET held == Hold(row, h)
               IN row' = IF CanDebit(held, h) THEN Debit(held, h) ELSE held

Fund(x) ==
    /\ row' = Credit(row, x)
    /\ UNCHANGED outcome

BookNext ==
    \/ \E r \in Req : LeavePending(r) \/ Fail(r) \/ Complete(r)
    \/ \E x \in Deposits : Fund(x)

Spec == BookInit /\ [][BookNext]_bookvars

=============================================================================
