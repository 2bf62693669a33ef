--------------------------- MODULE MCBankFunding ---------------------------
(***************************************************************************)
(* BankFunding with requests that pass the checks together or only one     *)
(* after the other, and two concurrent deliveries.                         *)
(***************************************************************************)
EXTENDS BankFunding

CONSTANTS f1, f2, h1, h2

MCFund == {f1, f2}
MCHandler == {h1, h2}
MCAmountOf == [f \in MCFund |-> IF f = f1 THEN 2 ELSE 3]

=============================================================================
