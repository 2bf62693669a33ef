--------------------------- MODULE DepositLedger ---------------------------
(***************************************************************************)
(* What ProcessDepositWebhook promises of a charge, however often its      *)
(* webhook comes: a claim, which is the row in wallet_deposits, can be     *)
(* made once and spent once, and it may be spent for nothing.              *)
(***************************************************************************)
EXTENDS Naturals

CONSTANT
    Charge      \* transfers to the virtual accounts

VARIABLES
    claim,      \* "open" without a row, "held" by a run, "spent" without one
    credits     \* how often the wallet was credited for each charge

ledgervars == <<claim, credits>>

LedgerInit ==
    /\ claim = [c \in Charge |-> "open"]
    /\ credits = [c \in Charge |-> 0]

\* The row is written; the run goes on, or fails as it writes it.
MakeClaim(c) ==
    /\ claim[c] = "open"
    /\ \E kept \in {"held", "spent"} : claim' = [claim EXCEPT ![c] = kept]
    /\ UNCHANGED credits

\* The run that wrote it ends, having credited the wallet or not.
SpendClaim(c) ==
    /\ claim[c] = "held"
    /\ claim' = [claim EXCEPT ![c] = "spent"]
    /\ credits' \in {credits, [credits EXCEPT ![c] = 1]}

LedgerNext == \E c \in Charge : MakeClaim(c) \/ SpendClaim(c)

Spec == LedgerInit /\ [][LedgerNext]_ledgervars

=============================================================================
