----------------------------- MODULE MCSourcing -----------------------------
(***************************************************************************)
(* SourcingEngine over every list of up to three accounts with something,  *)
(* nothing, less than the reserve, or a switched-off account to offer.     *)
(***************************************************************************)
EXTENDS SourcingEngine

Row(active, verified, last, min) ==
    [active |-> active, verified |-> verified, mono |-> TRUE, token |-> TRUE,
     last |-> last, min |-> min]

MCAccountRows ==
    {Row(TRUE, TRUE, 3, 1), Row(TRUE, TRUE, 1, 0), Row(TRUE, TRUE, 1, 2),
     Row(FALSE, TRUE, 2, 0), Row(TRUE, FALSE, 2, 0)}

=============================================================================
