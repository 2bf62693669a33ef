----------------------------- MODULE KeyLedger -----------------------------
(***************************************************************************)
(* What an idempotency key promises: InitiateTransfer as those see it who  *)
(* send a key again.  It is a look at the committed rows of the key and,   *)
(* if there are none, an outcome later.  Between the two nothing protects  *)
(* the key, and the payout leaves the system before its row is committed:  *)
(* a key to which either has happened is excused from being paid once.     *)
(***************************************************************************)
EXTENDS TLAPS

CONSTANTS
    Caller,     \* whoever runs InitiateTransfer
    Key         \* idempotency keys

VARIABLES
    moving,     \* a caller has found no row of its key and has not ended yet
    rows,       \* statuses of the committed parent rows of a key
    paid,       \* how often a payout of a key was accepted, or simulated
    sent,       \* keys of which somebody was told a status, not an error
    excused     \* keys used twice at a time, or paid out without a row

keyvars == <<moving, rows, paid, sent, excused>>

Ends == {"PENDING", "FAILED", "COMPLETED"}

More(times) == IF times = "never" THEN "once" ELSE "again"

KeyInit ==
    /\ moving = {}
    /\ rows = [k \in Key |-> {}]
    /\ paid = [k \in Key |-> "never"]
    /\ sent = {}
    /\ excused = {}

\* Any row of the key is the answer, whatever its status.
Answered(k) ==
    /\ rows[k] # {}
    /\ sent' = sent \cup {k}
    /\ UNCHANGED <<moving, rows, paid, excused>>

Missed(c, k) ==
    /\ rows[k] = {}
    /\ \A j \in Key : <<c, j>> \notin moving
    /\ moving' = moving \cup {<<c, k>>}
    /\ excused' = excused \cup {j \in {k} : \E b \in Caller : <<b, j>> \in moving}
    /\ UNCHANGED <<rows, paid, sent>>

\* The payout goes out, and its row commits or is lost with its transaction.
PaidOut(k, status) ==
    /\ paid' = [paid EXCEPT ![k] = More(@)]
    /\ \/ rows' = [rows EXCEPT ![k] = @ \cup {status}] /\ UNCHANGED excused
       \/ excused' = excused \cup {k} /\ UNCHANGED rows

\* The caller is told COMPLETED.
Made(c, k) ==
    /\ <<c, k>> \in moving
    /\ moving' = moving \ {<<c, k>>}
    /\ PaidOut(k, "COMPLETED")
    /\ sent' = sent \cup {k}

\* The caller is told of an error; the payout may be out all the same.
Failed(c, k) ==
    /\ <<c, k>> \in moving
    /\ moving' = moving \ {<<c, k>>}
    /\ \/ PaidOut(k, "FAILED")
       \/ \E left \in {{}, {"PENDING"}, {"FAILED"}} :
            /\ rows' = [rows EXCEPT ![k] = @ \cup left]
            /\ UNCHANGED <<paid, excused>>
    /\ UNCHANGED sent

KeyNext ==
    \E k \in Key :
        \/ Answered(k)
        \/ \E c \in Caller : Missed(c, k) \/ Made(c, k) \/ Failed(c, k)

Spec == KeyInit /\ [][KeyNext]_keyvars

----------------------------------------------------------------------------
(* What follows for the callers.                                           *)

KeyTypeOK ==
    /\ moving \subseteq Caller \X Key
    /\ rows \in [Key -> SUBSET Ends]
    /\ paid \in [Key -> {"never", "once", "again"}]
    /\ sent \subseteq Key
    /\ excused \subseteq Key

\* A key that is not excused is paid out at most once, however often it is
\* sent, whatever failed in between.
PaidOnce == \A k \in Key \ excused : paid[k] # "again"

\* Who is told of a status has had the payout, or somebody's failed attempt
\* has left its row under the key.
ToldIsPaid == \A k \in sent : paid[k] # "never" \/ rows[k] \cap {"PENDING", "FAILED"} # {}

\* While a key that is not excused is being moved, by one caller, it has
\* neither a row nor a payout; a payout leaves a row, which answers the rest.
MovingInv ==
    \A k \in Key \ excused :
        /\ paid[k] # "never" => rows[k] # {}
        /\ \A c \in Caller : <<c, k>> \in moving => rows[k] = {}
        /\ \A b, c \in Caller : <<b, k>> \in moving /\ <<c, k>> \in moving => b = c

CompletedInv == \A k \in Key : "COMPLETED" \in rows[k] => paid[k] # "never"

KeyInv == KeyTypeOK /\ MovingInv /\ CompletedInv /\ PaidOnce /\ ToldIsPaid

----------------------------------------------------------------------------

\* Every step preserves the invariant.
LEMMA NextKeyInv == KeyInv /\ [KeyNext]_keyvars => KeyInv'
  <1> SUFFICES ASSUME KeyInv, [KeyNext]_keyvars PROVE KeyInv'
    OBVIOUS
  <1> USE DEF KeyInv
  <1>1. ASSUME NEW k \in Key, Answered(k) PROVE KeyInv'
    <2>1. rows[k] # {} /\ rows[k] \subseteq Ends
      BY <1>1 DEF Answered, KeyTypeOK
    <2>2. UNCHANGED <<moving, rows, paid, excused>> /\ sent' = sent \cup {k}
      BY <1>1 DEF Answered
    <2> QED  BY <2>1, <2>2
             DEF KeyTypeOK, MovingInv, CompletedInv, PaidOnce, ToldIsPaid, Ends
  <1>2. ASSUME NEW k \in Key, NEW c \in Caller, Missed(c, k) PROVE KeyInv'
    <2>1. UNCHANGED <<rows, paid, sent>> /\ moving' = moving \cup {<<c, k>>} /\ rows[k] = {}
      BY <1>2 DEF Missed
    <2>2. /\ excused \subseteq excused' /\ excused' \subseteq Key
          /\ k \notin excused' => \A b \in Caller : <<b, k>> \notin moving
      BY <1>2 DEF Missed, KeyTypeOK
    <2>3. MovingInv'
      BY <2>1, <2>2 DEF MovingInv
    <2> QED  BY <2>1, <2>2, <2>3 DEF KeyTypeOK, CompletedInv, PaidOnce, ToldIsPaid
  <1>3. ASSUME NEW k \in Key, NEW c \in Caller, Made(c, k) \/ Failed(c, k) PROVE KeyInv'
    <2>1. PICK n \in {"same", "more"}, left \in SUBSET Ends :
            /\ rows' = [rows EXCEPT ![k] = @ \cup left]
            /\ paid' = [paid EXCEPT ![k] = IF n = "more" THEN More(@) ELSE @]
            /\ "COMPLETED" \in left => n = "more"
            /\ excused' = excused \cup {k} \/ (excused' = excused /\ (n = "more" => left # {}))
            /\ sent' = sent \/ (sent' = sent \cup {k} /\ n = "more")
      <3>1. rows = [rows EXCEPT ![k] = @ \cup {}] /\ paid = [paid EXCEPT ![k] = @]
        BY DEF KeyTypeOK
      <3>2. CASE PaidOut(k, "COMPLETED") /\ sent' = sent \cup {k}
        BY <3>1, <3>2 DEF PaidOut, Ends
      <3>3. CASE PaidOut(k, "FAILED") /\ sent' = sent
        BY <3>1, <3>3 DEF PaidOut, Ends
      <3>4. CASE /\ \E left \in {{}, {"PENDING"}, {"FAILED"}} :
                        /\ rows' = [rows EXCEPT ![k] = @ \cup left]
                        /\ UNCHANGED <<paid, excused>>
                 /\ sent' = sent
        <4>1. PICK left \in {{}, {"PENDING"}, {"FAILED"}} :
                rows' = [rows EXCEPT ![k] = @ \cup left]
          BY <3>4
        <4>2. left \in SUBSET Ends /\ "COMPLETED" \notin left
          BY DEF Ends
        <4>3. /\ paid' = [paid EXCEPT ![k] = IF "same" = "more" THEN More(@) ELSE @]
              /\ excused' = excused /\ sent' = sent
          BY <3>1, <3>4
        <4> QED  BY <4>1, <4>2, <4>3
      <3> QED  BY <1>3, <3>2, <3>3, <3>4 DEF Made, Failed
    <2>2. <<c, k>> \in moving /\ moving' = moving \ {<<c, k>>}
      BY <1>3 DEF Made, Failed
    <2>3. /\ \A j \in Key : rows'[j] = IF j = k THEN rows[j] \cup left ELSE rows[j]
          /\ \A j \in Key : paid'[j] = IF j = k /\ n = "more" THEN More(paid[j]) ELSE paid[j]
          /\ \A j \in Key : paid[j] # "never" => paid'[j] # "never"
      BY <2>1 DEF KeyTypeOK, More
    <2>4. KeyTypeOK'
      BY <2>1, <2>2 DEF KeyTypeOK, More
    <2>5. ASSUME k \notin excused
          PROVE  paid[k] = "never" /\ \A b \in Caller : <<b, k>> \notin moving'
      BY <2>2, <2>5 DEF MovingInv, KeyTypeOK
    <2>6. MovingInv'
      <3> SUFFICES ASSUME NEW j \in Key \ excused'
                   PROVE  /\ paid'[j] # "never" => rows'[j] # {}
                          /\ \A b \in Caller : <<b, j>> \in moving' => rows'[j] = {}
                          /\ \A b, d \in Caller :
                                <<b, j>> \in moving' /\ <<d, j>> \in moving' => b = d
        BY DEF MovingInv
      <3>1. CASE j = k
        BY <2>1, <2>3, <2>5, <3>1 DEF More
      <3>2. CASE j # k
        BY <2>1, <2>2, <2>3, <3>2 DEF MovingInv
      <3> QED  BY <3>1, <3>2
    <2>7. PaidOnce' /\ CompletedInv'
      BY <2>1, <2>3, <2>5 DEF PaidOnce, CompletedInv, More
    <2>8. ToldIsPaid'
      BY <2>1, <2>3 DEF ToldIsPaid, KeyTypeOK, More
    <2> QED  BY <2>4, <2>6, <2>7, <2>8
  <1>4. CASE UNCHANGED keyvars
    BY <1>4 DEF keyvars, KeyTypeOK, MovingInv, CompletedInv, PaidOnce, ToldIsPaid
  <1> QED  BY <1>1, <1>2, <1>3, <1>4 DEF KeyNext

\* The invariant holds for any number of callers and keys.
THEOREM KeyInvAlways == Spec => []KeyInv
  <1>1. KeyInit => KeyInv
    BY DEF KeyInit, KeyInv, KeyTypeOK, MovingInv, CompletedInv, PaidOnce, ToldIsPaid
  <1> QED  BY <1>1, NextKeyInv, PTL DEF Spec

\* The promise of the key: whoever implements this module pays a key out at
\* most once, but for the two excuses.
THEOREM KeyPaidOnce == Spec => []PaidOnce
  BY KeyInvAlways, PTL DEF KeyInv

\* And tells nobody of a transfer that has neither been paid nor failed.
THEOREM KeyToldIsPaid == Spec => []ToldIsPaid
  BY KeyInvAlways, PTL DEF KeyInv

=============================================================================
