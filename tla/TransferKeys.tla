---------------------------- MODULE TransferKeys ----------------------------
(***************************************************************************)
(* TransferService as the owners of its idempotency keys see it.  Nothing  *)
(* is added to what it does: `excused` is a history variable, which notes  *)
(* the two ways in which the lookup of CheckKey fails to protect a key.    *)
(***************************************************************************)
EXTENDS TransferService

VARIABLE
    excused     \* history: keys used twice at a time, or paid out without a row

keyedvars == <<vars, excused>>

\* The request is past the lookup, and nothing of it is committed.
InFlight(r) == pc[r] \in {"plan", "begin"} \cup InTx

WithKey(k) == {r \in Req : KeyOf[r] = k}

\* The payout of the request is out: Paystack has accepted it or, without a
\* client, the caller has been told so (and not of an earlier transfer).
PaidOut(r) ==
    /\ pc[r] = "done"
    /\ paid[r] \/ (~paystack /\ found[r] = {} /\ reply[r] = "COMPLETED")

\* Two requests of the key are past the lookup after this step.
Overlaps(k) ==
    \E q, r \in WithKey(k) :
        q # r /\ InFlight(q) /\ pc[r] = "check" /\ pc'[r] = "plan"

\* In this step a payout of the key loses its row.
LosesRow(k) ==
    \E r \in WithKey(k) : pc[r] # "done" /\ PaidOut(r)' /\ txn'[r].parent = "NONE"

KeyedInit == Init /\ excused = {}

KeyedNext ==
    /\ Next
    /\ excused' = excused \cup {k \in Key : Overlaps(k) \/ LosesRow(k)}

KeyedSpec ==
    KeyedInit /\ [][KeyedNext]_keyedvars /\ \A r \in Req : WF_vars(RequestStep(r))

----------------------------------------------------------------------------

\* How often a payout of the key is out.
TimesPaid(k) ==
    IF \A r \in WithKey(k) : ~PaidOut(r) THEN "never"
    ELSE IF \A q, r \in WithKey(k) : PaidOut(q) /\ PaidOut(r) => q = r THEN "once"
    ELSE "again"

\* The requests that move money under a key, the committed parents and the
\* payouts of a key, and the keys of which a request was told a status.
Moving == {<<r, KeyOf[r]>> : r \in {q \in Req : KeyOf[q] \in Key /\ InFlight(q)}}
Parents == [k \in Key |-> {txn[r].parent : r \in WithKey(k)} \ {"NONE"}]
Payouts == [k \in Key |-> TimesPaid(k)]
Told == {k \in Key : \E r \in WithKey(k) : pc[r] = "done" /\ reply[r] \in Statuses}

Keys == INSTANCE KeyLedger
    WITH Caller <- Req, moving <- Moving, rows <- Parents, paid <- Payouts, sent <- Told

\* CheckKey, service/transfer_service.go:81, is all there is behind the
\* Idempotency-Key header.  What a client may rely on who sends it again, in
\* any number of requests at any time, is KeyLedger: an answer if a row of the
\* key is committed, no second payout unless two requests overlapped or a
\* commit was lost, and a failed attempt's status as the answer for ever.
KeysAreLedger == Keys!Spec

=============================================================================
