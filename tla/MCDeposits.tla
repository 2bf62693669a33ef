----------------------------- MODULE MCDeposits -----------------------------
(***************************************************************************)
(* Deposits with two racing calls for an account and two charges, of which *)
(* the second leaves nothing after the fee.                                *)
(***************************************************************************)
EXTENDS Deposits

CONSTANTS c1, c2

MCCharge == {c1, c2}
MCAmountOf == [c \in MCCharge |-> IF c = c1 THEN 3 ELSE 1]
MCFeeOf == [c \in MCCharge |-> 1]

=============================================================================
