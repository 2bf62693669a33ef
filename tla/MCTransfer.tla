----------------------------- MODULE MCTransfer -----------------------------
(***************************************************************************)
(* TransferService on a small instance: r1 and r2 carry the same key (a    *)
(* client's retry), r3 has none.  The wallet alone pays for one request    *)
(* but not for two, so the later ones need a bank leg, fall short, or have *)
(* the money taken from under their plan.                                  *)
(***************************************************************************)
EXTENDS TransferKeys

CONSTANTS r1, r2, r3, k1

MCReq == {r1, r2, r3}
MCKey == {k1}
MCKeyOf == [r \in MCReq |-> IF r = r3 THEN NoKey ELSE k1]
MCAmountOf == [r \in MCReq |-> IF r = r3 THEN 1 ELSE 3]
MCAvail == <<1, 2>>

=============================================================================
