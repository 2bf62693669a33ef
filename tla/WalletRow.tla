----------------------------- MODULE WalletRow -----------------------------
(***************************************************************************)
(* The wallets row and the four UPDATE statements of WalletRepo.           *)
(* `balance` is everything the user owns, `ledger` (ledger_balance in the  *)
(* schema) is what a transfer may still use.  An UPDATE either matches the *)
(* row, and changes it, or matches no row, which the repository reports as *)
(* an error.  The CHECK constraints of the table refuse any row that is    *)
(* not in Rows.                                                            *)
(***************************************************************************)
EXTENDS Integers

\* CHECK (balance >= 0), (ledger_balance >= 0), (ledger_balance <= balance).
Checked(w) == 0 <= w.ledger /\ w.ledger <= w.balance

Rows == {w \in [balance : Nat, ledger : Nat] : Checked(w)}

Credit(w, x) == [balance |-> w.balance + x, ledger |-> w.ledger + x]

\* The WHERE clause of the debit looks at both columns.
CanDebit(w, x) == w.balance >= x /\ w.ledger >= x

Debit(w, x) == [balance |-> w.balance - x, ledger |-> w.ledger - x]

\* Seeded fault: the hold looks at the wrong column.
CanHoldBalance(w, x) == w.balance >= x

\* A hold moves money out of the available column only.
CanHold(w, x) == w.ledger >= x

Hold(w, x) == [w EXCEPT !.ledger = @ - x]

ReleaseHold(w, x) == [w EXCEPT !.ledger = @ + x]

=============================================================================
