----------------------------- MODULE ChatProofs -----------------------------
(***************************************************************************)
(* Proofs about LinkedBanks and Chat, for any accounts, plans, handlers    *)
(* and bounds.  BankInv is inductive for the handlers of the linked        *)
(* accounts; ChatInv for the assistant, which is shown to be one more      *)
(* client of those: to the accounts, all it does is a step of theirs.      *)
(***************************************************************************)
EXTENDS Chat, TLAPS

\* An id names one row, and only ids given out name rows.
UniqueIds == \A m, n \in Number : Linked(m) /\ banks[m].id = banks[n].id => m = n

\* A row that is refreshed through the customer has strayed while its account is
\* not on the customer's list.
StrayInv ==
    \A n \in Number :
        Linked(n) /\ banks[n].token # "account" /\ n \notin listed => banks[n].id \in strayed

\* What RefreshBalance holds is about the row it will write, if that is there.
RefreshInv ==
    /\ refresh.balance # "hundredfold"
    /\ \A n \in Number : Linked(n) /\ banks[n].id = refresh.id =>
        /\ refresh.at = "ask" =>
            /\ n = refresh.number
            /\ refresh.token # "account" /\ n \notin listed => refresh.id \in strayed
        /\ refresh.at = "store" /\ refresh.balance = "foreign" => refresh.id \in strayed

BankInv ==
    BankTypeOK /\ BalanceIsOwn /\ UnlinkedIsGone /\ UniqueIds /\ StrayInv /\ RefreshInv

----------------------------------------------------------------------------

\* The initial state satisfies the invariant.
LEMMA InitBankInv == BankInit => BankInv
  <1> SUFFICES ASSUME BankInit PROVE BankInv
    OBVIOUS
  <1>1. BankTypeOK
    BY BanksAssumption DEF BankInit, BankTypeOK, BankRows, NoRow, Idle, Number, Balances, Tokens
  <1>2. \A n \in Number : ~Linked(n) /\ banks[n].balance = "none"
    BY DEF BankInit, Linked, NoRow
  <1>3. UnlinkedIsGone
    BY DEF BankInit, UnlinkedIsGone
  <1>4. refresh.balance = "none"
    BY DEF BankInit, Idle
  <1> QED  BY <1>1, <1>2, <1>3, <1>4 DEF BankInv, BalanceIsOwn, UniqueIds, StrayInv, RefreshInv

\* A row that is there has an id that was given out.
LEMMA RowTypes ==
    ASSUME BankTypeOK, NEW n \in Number
    PROVE  \/ ~Linked(n) /\ banks[n] = NoRow
           \/ /\ Linked(n)
              /\ banks[n] \in [id : 1..lastId, priority : Priorities,
                               balance : Balances, token : Tokens]
  <1>1. banks[n] \in BankRows
    BY DEF BankTypeOK
  <1>2. CASE banks[n] = NoRow
    BY <1>2 DEF Linked, NoRow
  <1>3. CASE banks[n] \in [id : 1..lastId, priority : Priorities,
                           balance : Balances, token : Tokens]
    BY <1>3 DEF Linked
  <1> QED  BY <1>1, <1>2, <1>3 DEF BankRows

\* Steps that leave the rows, the refresh and the list of Mono alone.
LEMMA SessionKeeps ==
    ASSUME BankInv, BankTypeOK', UNCHANGED <<banks, lastId, listed, refresh, gone, strayed>>
    PROVE  BankInv'
  BY DEF BankInv, BalanceIsOwn, UnlinkedIsGone, UniqueIds, StrayInv, RefreshInv, Linked,
         LinkedIds

\* A row is inserted with an id nobody has had, or keeps its own.
LEMMA CreateKeeps ==
    ASSUME BankInv, NEW n \in Number, NEW tok \in Tokens, NEW bal \in Balances,
           CreateBank(n, tok, bal),
           bal # "foreign", bal = "hundredfold" => tok = "account",
           UNCHANGED <<topped, session, listed, refresh, gone>>,
           strayed' \in {strayed, strayed \cup {banks'[n].id}},
           tok # "account" /\ n \notin listed => banks'[n].id \in strayed',
           linking' \in [at : {"idle", "saving"}, left : SUBSET Account]
    PROVE  BankInv'
  <1> USE DEF BankInv
  <1>1. /\ lastId \in Nat /\ lastId' \in 0..MaxId /\ lastId' \in {lastId, lastId + 1}
        /\ MaxId \in Nat /\ 5 \in Priorities
    BY BanksAssumption DEF BankTypeOK, CreateBank
  <1>2. PICK row \in [id : 1..lastId', priority : Priorities, balance : Balances, token : Tokens] :
            /\ banks' = [banks EXCEPT ![n] = row]
            /\ row.balance = bal /\ row.token = tok
            /\ row.id = banks[n].id \/ row.id = lastId + 1
    <2>1. CASE Linked(n)
      <3>1. banks[n] \in [id : 1..lastId, priority : Priorities, balance : Balances, token : Tokens]
        BY <2>1 DEF BankTypeOK, BankRows, Linked, NoRow
      <3>2. banks' = [banks EXCEPT ![n] = [banks[n] EXCEPT !.balance = bal, !.token = tok]]
        <4>1. banks' = [banks EXCEPT ![n].balance = bal, ![n].token = tok]
          BY <2>1 DEF CreateBank
        <4> QED  BY <3>1, <4>1 DEF BankTypeOK
      <3>3. lastId' = lastId
        BY <2>1 DEF CreateBank
      <3>4. [banks[n] EXCEPT !.balance = bal, !.token = tok] \in
                [id : 1..lastId', priority : Priorities, balance : Balances, token : Tokens]
        BY <3>1, <3>3
      <3> QED  BY <3>1, <3>2, <3>4
    <2>2. CASE ~Linked(n)
      <3> DEFINE new == [id |-> lastId + 1, priority |-> 5, balance |-> bal, token |-> tok]
      <3>1. banks' = [banks EXCEPT ![n] = new] /\ lastId' = lastId + 1
        BY <2>2 DEF CreateBank
      <3>2. new \in [id : 1..lastId', priority : Priorities, balance : Balances, token : Tokens]
        BY <1>1, <3>1
      <3> QED  BY <3>1, <3>2
    <2> QED  BY <2>1, <2>2
  <1>3. \A m \in Number : banks'[m] = IF m = n THEN row ELSE banks[m]
    BY <1>2 DEF BankTypeOK
  <1>4. \A m \in Number : banks[m].id \in 0..lastId
    BY <1>1 DEF BankTypeOK, BankRows, NoRow
  <1>5. BankTypeOK'
    <2>1. banks' \in [Number -> BankRows']
      BY <1>1, <1>2, <1>3 DEF BankTypeOK, BankRows
    <2>2. refresh.id \in 0..lastId' /\ topped \subseteq 1..lastId' /\ gone \subseteq 1..lastId'
      BY <1>1 DEF BankTypeOK
    <2>3. refresh' \in [at : {"idle", "ask", "store"}, number : Number, id : 0..lastId',
                        token : Tokens \cup {"none"}, balance : Balances]
      BY <2>2 DEF BankTypeOK
    <2>4. banks'[n].id \in 1..lastId' /\ strayed \subseteq 1..lastId'
      BY <1>1, <1>2, <1>3 DEF BankTypeOK
    <2> QED  BY <1>1, <2>1, <2>2, <2>3, <2>4 DEF BankTypeOK
  <1>6. BalanceIsOwn'
    BY <1>2, <1>3 DEF BalanceIsOwn
  <1>7. UniqueIds'
    BY <1>1, <1>2, <1>3, <1>4 DEF UniqueIds, Linked
  <1>8. \A m \in Number : Linked(m)' => \/ Linked(m) /\ banks'[m].id = banks[m].id
                                     \/ banks'[m].id = lastId + 1
    BY <1>1, <1>2, <1>3, <1>4 DEF Linked
  <1>9. UnlinkedIsGone'
    <2>1. \A m \in Number : Linked(m) => banks[m].id \notin gone
      BY DEF UnlinkedIsGone, LinkedIds
    <2>2. lastId + 1 \notin gone
      BY <1>1 DEF BankTypeOK
    <2> QED  BY <1>8, <2>1, <2>2 DEF UnlinkedIsGone, LinkedIds
  <1>10. RefreshInv'
    <2>1. refresh.id # lastId + 1
      BY <1>1 DEF BankTypeOK
    <2> QED  BY <1>8, <2>1 DEF RefreshInv
  <1>11. StrayInv'
    BY <1>2, <1>3 DEF StrayInv, Linked
  <1> QED  BY <1>5, <1>6, <1>7, <1>9, <1>10, <1>11

\* A row that changes a field which is not its id is still the row it was.
LEMMA UpdateKeepsIds ==
    ASSUME BankInv, banks' \in [Number -> BankRows], UNCHANGED <<lastId, gone>>,
           \A m \in Number : banks'[m].id = banks[m].id
    PROVE  /\ UniqueIds' /\ UnlinkedIsGone'
           /\ \A m \in Number : Linked(m)' <=> Linked(m)
  BY DEF BankInv, UniqueIds, UnlinkedIsGone, LinkedIds, Linked

LEMMA PriorityKeeps ==
    ASSUME BankInv, NEW id \in 1..lastId, NEW p \in Priorities, UpdatePriority(id, p)
    PROVE  BankInv'
  <1> USE DEF BankInv
  <1>1. \A m \in Number :
            banks'[m] = IF Linked(m) /\ banks[m].id = id
                        THEN [banks[m] EXCEPT !.priority = p] ELSE banks[m]
    BY DEF UpdatePriority, WithPriority, OfId
  <1>2. \A m \in Number :
            /\ banks'[m] \in BankRows
            /\ banks'[m].id = banks[m].id /\ banks'[m].balance = banks[m].balance
            /\ banks'[m].token = banks[m].token
    <2> SUFFICES ASSUME NEW m \in Number
                 PROVE  /\ banks'[m] \in BankRows
                        /\ banks'[m].id = banks[m].id /\ banks'[m].balance = banks[m].balance
                        /\ banks'[m].token = banks[m].token
      OBVIOUS
    <2>1. CASE banks'[m] = banks[m]
      BY <2>1 DEF BankTypeOK
    <2>2. CASE Linked(m) /\ banks'[m] = [banks[m] EXCEPT !.priority = p]
      <3>1. banks[m] \in [id : 1..lastId, priority : Priorities, balance : Balances, token : Tokens]
        BY <2>2, RowTypes
      <3> QED  BY <2>2, <3>1 DEF BankRows
    <2> QED  BY <1>1, <2>1, <2>2
  <1>3. banks' \in [Number -> BankRows]
    BY <1>2 DEF UpdatePriority, WithPriority
  <1>4. UNCHANGED <<lastId, topped, session, listed, linking, refresh, gone, strayed>>
    BY DEF UpdatePriority
  <1>5. BankTypeOK'
    BY <1>3, <1>4 DEF BankTypeOK, BankRows
  <1>6. UniqueIds' /\ UnlinkedIsGone' /\ \A m \in Number : Linked(m)' <=> Linked(m)
    BY <1>2, <1>3, <1>4, UpdateKeepsIds
  <1>7. BalanceIsOwn' /\ StrayInv' /\ RefreshInv'
    BY <1>2, <1>4, <1>6 DEF BalanceIsOwn, StrayInv, RefreshInv
  <1> QED  BY <1>5, <1>6, <1>7

LEMMA RefreshStoreKeeps ==
    ASSUME BankInv, RefreshStore
    PROVE  BankInv'
  <1> USE DEF BankInv
  <1>1. /\ refresh.at = "store" /\ refresh' = Idle
        /\ banks' \in {banks, WithBalance(refresh.id, refresh.balance)}
        /\ UNCHANGED <<lastId, topped, session, listed, linking, gone, strayed>>
    BY DEF RefreshStore
  <1>2. refresh.balance \in Balances /\ refresh.balance # "hundredfold"
    BY DEF BankTypeOK, RefreshInv
  <1>3. \A m \in Number :
            \/ banks'[m] = banks[m]
            \/ /\ Linked(m) /\ banks[m].id = refresh.id
               /\ banks'[m] = [banks[m] EXCEPT !.balance = refresh.balance]
    BY <1>1 DEF WithBalance, OfId
  <1>4. \A m \in Number :
            /\ banks'[m] \in BankRows
            /\ banks'[m].id = banks[m].id /\ banks'[m].token = banks[m].token
            /\ \/ banks'[m].balance = banks[m].balance
               \/ /\ Linked(m) /\ banks[m].id = refresh.id
                  /\ banks'[m].balance = refresh.balance
    <2> SUFFICES ASSUME NEW m \in Number
                 PROVE  /\ banks'[m] \in BankRows
                        /\ banks'[m].id = banks[m].id /\ banks'[m].token = banks[m].token
                        /\ \/ banks'[m].balance = banks[m].balance
                           \/ /\ Linked(m) /\ banks[m].id = refresh.id
                              /\ banks'[m].balance = refresh.balance
      OBVIOUS
    <2>1. CASE banks'[m] = banks[m]
      BY <2>1 DEF BankTypeOK
    <2>2. CASE /\ Linked(m) /\ banks[m].id = refresh.id
               /\ banks'[m] = [banks[m] EXCEPT !.balance = refresh.balance]
      <3>1. banks[m] \in [id : 1..lastId, priority : Priorities, balance : Balances, token : Tokens]
        BY <2>2, RowTypes
      <3> QED  BY <1>2, <2>2, <3>1 DEF BankRows
    <2> QED  BY <1>3, <2>1, <2>2
  <1>5. banks' \in [Number -> BankRows]
    BY <1>1, <1>4 DEF WithBalance, BankTypeOK
  <1>6. Idle \in [at : {"idle", "ask", "store"}, number : Number, id : 0..lastId,
                  token : Tokens \cup {"none"}, balance : Balances]
    BY DEF Idle, Number, Tokens, Balances, BankTypeOK
  <1>7. BankTypeOK'
    BY <1>1, <1>5, <1>6 DEF BankTypeOK, BankRows
  <1>8. UniqueIds' /\ UnlinkedIsGone' /\ \A m \in Number : Linked(m)' <=> Linked(m)
    BY <1>1, <1>4, <1>5, UpdateKeepsIds
  <1>9. BalanceIsOwn'
    BY <1>1, <1>2, <1>4 DEF BalanceIsOwn, RefreshInv
  <1>10. RefreshInv'
    BY <1>1 DEF RefreshInv, Idle
  <1>11. StrayInv'
    BY <1>1, <1>4, <1>8 DEF StrayInv
  <1> QED  BY <1>7, <1>8, <1>9, <1>10, <1>11

\* What is deleted leaves no row with its id.
LEMMA UnlinkKeeps ==
    ASSUME BankInv, NEW id \in 1..lastId, UnlinkBank(id)
    PROVE  BankInv'
  <1> USE DEF BankInv
  <1>1. /\ \A m \in Number : banks'[m] = IF banks[m].id = id THEN NoRow ELSE banks[m]
        /\ banks' \in [Number -> BankRows]
        /\ gone' = gone \cup {id}
        /\ UNCHANGED <<lastId, topped, session, listed, linking, refresh, strayed>>
    BY DEF UnlinkBank, DeleteBank, Deletable, BankTypeOK, BankRows
  <1>2. BankTypeOK'
    BY <1>1 DEF BankTypeOK, BankRows
  <1>3. \A m \in Number : Linked(m)' =>
            Linked(m) /\ banks'[m] = banks[m] /\ banks[m].id # id
    BY <1>1 DEF Linked, NoRow
  <1>4. UnlinkedIsGone'
    BY <1>1, <1>3 DEF UnlinkedIsGone, LinkedIds
  <1>5. BalanceIsOwn'
    BY <1>1 DEF BalanceIsOwn, NoRow
  <1>6. UniqueIds'
    BY <1>1, <1>3 DEF UniqueIds, Linked, NoRow
  <1>7. StrayInv' /\ RefreshInv'
    BY <1>1, <1>3 DEF StrayInv, RefreshInv
  <1> QED  BY <1>2, <1>4, <1>5, <1>6, <1>7

\* RefreshBalance up to Mono's answer: a foreign balance is only found for a row
\* that has strayed.
LEMMA RefreshKeeps ==
    ASSUME BankInv, RefreshAsk \/ \E n \in Number : RefreshRead(n)
    PROVE  BankInv'
  <1> USE DEF BankInv
  <1> DEFINE Refreshes == [at : {"idle", "ask", "store"}, number : Number, id : 0..lastId,
                           token : Tokens \cup {"none"}, balance : Balances]
  <1>1. UNCHANGED <<banks, lastId, topped, session, listed, linking, gone, strayed>>
    BY DEF RefreshAsk, RefreshRead
  <1>2. Idle \in Refreshes /\ refresh \in Refreshes
    BY DEF Idle, Number, Tokens, Balances, BankTypeOK
  <1>3. refresh' \in Refreshes /\ RefreshInv'
    <2>1. ASSUME NEW n \in Number, RefreshRead(n) PROVE refresh' \in Refreshes /\ RefreshInv'
      <3>1. banks[n].id \in 0..lastId /\ banks[n].token \in Tokens /\ Linked(n)
        <4>1. Linked(n)
          BY <2>1 DEF RefreshRead
        <4>2. lastId \in Nat
          BY BanksAssumption DEF BankTypeOK
        <4> QED  BY <4>1, <4>2, RowTypes
      <3>2. /\ refresh'.at = "ask" /\ refresh'.number = n /\ refresh'.id = banks[n].id
            /\ refresh'.token = banks[n].token
            /\ refresh'.balance = "none" /\ refresh' \in Refreshes
        BY <2>1, <3>1 DEF RefreshRead, Idle, Balances, Tokens
      <3> QED  BY <1>1, <3>1, <3>2 DEF RefreshInv, UniqueIds, StrayInv, Linked
    <2>2. CASE RefreshAsk /\ refresh' = Idle
      BY <1>1, <1>2, <2>2 DEF RefreshInv, Idle
    <2>3. CASE RefreshAsk /\ refresh' # Idle
      <3>1. refresh.at = "ask"
        BY <2>3 DEF RefreshAsk
      <3>2. PICK b \in IF refresh.token = "account" THEN {"own"} ELSE Found(refresh.number) :
                refresh' = [Idle EXCEPT !.at = "store", !.id = refresh.id, !.balance = b]
        BY <2>3 DEF RefreshAsk
      <3>3. b \in {"own", "foreign"} /\ (b = "foreign" => refresh.token # "account" /\ refresh.number \notin listed)
        BY <3>2 DEF Found
      <3>4. /\ refresh' \in Refreshes /\ refresh'.at = "store"
            /\ refresh'.id = refresh.id /\ refresh'.balance = b
        BY <1>2, <3>2, <3>3 DEF Idle, Balances
      <3> QED  BY <1>1, <3>1, <3>3, <3>4 DEF RefreshInv, Linked
    <2> QED  BY <2>1, <2>2, <2>3
  <1>4. BankTypeOK'
    BY <1>1, <1>3 DEF BankTypeOK, BankRows
  <1>5. BalanceIsOwn' /\ UnlinkedIsGone' /\ UniqueIds' /\ StrayInv'
    BY <1>1 DEF BalanceIsOwn, UnlinkedIsGone, UniqueIds, StrayInv, Linked, LinkedIds
  <1> QED  BY <1>3, <1>4, <1>5

\* Every step keeps the invariant.
LEMMA NextBankInv == BankInv /\ [BankNext]_bankvars => BankInv'
  <1> SUFFICES ASSUME BankInv, [BankNext]_bankvars PROVE BankInv'
    OBVIOUS
  <1> USE DEF BankInv
  <1>1. CASE InitiateLink \/ ExpireRef \/ CompleteLink \/ FinishLink
    <2>1. UNCHANGED <<banks, lastId, topped, listed, refresh, gone, strayed>>
      BY <1>1 DEF InitiateLink, ExpireRef, CompleteLink, FinishLink
    <2>2. /\ session' \in {"none", "empty", "customer"}
          /\ linking' \in [at : {"idle", "saving"}, left : SUBSET Account]
      BY <1>1 DEF InitiateLink, ExpireRef, CompleteLink, FinishLink, BankTypeOK
    <2> QED  BY <2>1, <2>2, SessionKeeps DEF BankTypeOK, BankRows
  <1>2. ASSUME NEW a \in Account, SaveAccount(a) PROVE BankInv'
    <2>1. /\ linking' \in [at : {"idle", "saving"}, left : SUBSET Account]
          /\ UNCHANGED <<topped, session, listed, refresh, gone>>
      BY <1>2 DEF SaveAccount, BankTypeOK
    <2>2. CASE /\ CreateBank(a, "customer", "own")
               /\ strayed' = IF a \in listed THEN strayed ELSE strayed \cup {banks'[a].id}
      BY <2>1, <2>2, CreateKeeps DEF Number, Tokens, Balances
    <2>3. CASE UNCHANGED <<banks, lastId, strayed>>
      BY <2>1, <2>3, SessionKeeps DEF BankTypeOK, BankRows
    <2> QED  BY <1>2, <2>2, <2>3 DEF SaveAccount
  <1>3. ASSUME NEW n \in Number, ExchangeCode(n) PROVE BankInv'
    <2>1. /\ UNCHANGED <<topped, session, listed, refresh, gone, strayed>>
          /\ linking' \in [at : {"idle", "saving"}, left : SUBSET Account]
      BY <1>3 DEF ExchangeCode, BankTypeOK
    <2>2. CASE n = Unnumbered
      BY <1>3, <2>1, <2>2, CreateKeeps DEF ExchangeCode, Tokens, Balances
    <2>3. CASE n # Unnumbered
      BY <1>3, <2>1, <2>3, CreateKeeps DEF ExchangeCode, Tokens, Balances
    <2> QED  BY <2>2, <2>3
  <1>4. ASSUME NEW a \in Account, Connect(a) \/ Revoke(a) PROVE BankInv'
    <2>1. /\ UNCHANGED <<banks, lastId, topped, session, linking, refresh, gone>>
          /\ strayed \subseteq strayed' /\ listed' \subseteq Account
          /\ \A n \in Number : n \in listed /\ n \notin listed' /\ Linked(n) =>
                banks[n].id \in strayed'
      BY <1>4 DEF Connect, Revoke, BankTypeOK
    <2>2. strayed' \subseteq 1..lastId
      <3>1. Linked(a) => banks[a].id \in 1..lastId
        BY RowTypes DEF Number
      <3>2. \A id \in strayed' : id \in strayed \/ (Linked(a) /\ id = banks[a].id)
        BY <1>4 DEF Connect, Revoke
      <3>3. strayed \subseteq 1..lastId
        BY DEF BankTypeOK
      <3> QED  BY <3>1, <3>2, <3>3
    <2>3. BankTypeOK'
      BY <2>1, <2>2 DEF BankTypeOK, BankRows
    <2>4. BalanceIsOwn' /\ UnlinkedIsGone' /\ UniqueIds'
      BY <2>1 DEF BalanceIsOwn, UnlinkedIsGone, UniqueIds, Linked, LinkedIds
    <2>5. StrayInv' /\ RefreshInv'
      BY <2>1 DEF StrayInv, RefreshInv, Linked
    <2> QED  BY <2>3, <2>4, <2>5
  <1>5. ASSUME NEW n \in Number, TopUp(n) PROVE BankInv'
    <2>1. banks[n].id \in 1..lastId
      BY <1>5 DEF TopUp, BankTypeOK, BankRows, Linked, NoRow
    <2> QED  BY <1>5, <2>1, SessionKeeps DEF TopUp, BankTypeOK, BankRows
  <1>6. CASE UNCHANGED bankvars
    BY <1>6, SessionKeeps DEF bankvars, BankTypeOK, BankRows
  <1> QED  BY <1>1, <1>2, <1>3, <1>4, <1>5, <1>6, PriorityKeeps, RefreshStoreKeeps,
              UnlinkKeeps, RefreshKeeps DEF BankNext, LinkNext, RowNext

\* The invariant holds in every state.
LEMMA BankInvHolds == BankSpec => []BankInv
  BY InitBankInv, NextBankInv, PTL DEF BankSpec

\* CompleteLink, ExchangeCode and RefreshBalance: the stored balances are the
\* accounts' own, with the two exceptions, for any accounts, however these come
\* and go on Mono's list, and for any order.
THEOREM BalancesAreOwn == BankSpec => []BalanceIsOwn
  BY BankInvHolds, PTL DEF BankInv

\* UnlinkBank: what was reported as unlinked stays away.
THEOREM UnlinkedStaysGone == BankSpec => []UnlinkedIsGone
  BY BankInvHolds, PTL DEF BankInv

----------------------------------------------------------------------------
(* The assistant.                                                          *)

Turns == [at : Places, round : 0..MaxRounds, calls : 0..MaxCalls, held : Actions]

InTool == {"confirm", "lookup", "move", "clear", "unlink", "delete"}

\* A handler in a place holds what the place needs.
TurnOK(x) ==
    /\ x \in Turns
    /\ x.at = "idle" => x.round = 0
    /\ x.at \in {"think", "tools"} => x.round > 0
    /\ x.at \in InTool /\ x.round > 0 => x.calls > 0
    /\ x.at \in {"lookup", "move"} => x.held \in Plan
    /\ x.at = "delete" => x.held \in 1..lastId

Moving(h, t) == At(h, "move") /\ Held(h) = t

\* A row COMPLETED is a payout; an unexcused payout has a row; and while an
\* unexcused plan is being transferred, by one handler, it has neither.
MoneyInv ==
    /\ \A t \in Plan : "COMPLETED" \in ledger[t] => paid[t] > 0
    /\ \A t \in Plan \ excused :
        /\ paid[t] > 0 => ledger[t] # {}
        /\ \A h \in Talk : Moving(h, t) => ledger[t] = {}
        /\ \A g, h \in Talk : Moving(g, t) /\ Moving(h, t) => g = h

ChatInv ==
    /\ BankInv
    /\ ChatTypeOK
    /\ \A h \in Talk : TurnOK(turn[h])
    /\ MoneyInv
    /\ SuccessWasPaid
    /\ PaidOncePerKey

Step(h, y) == turn' = [turn EXCEPT ![h] = y]

----------------------------------------------------------------------------

\* The initial state satisfies the invariant.
LEMMA InitChatInv == ChatInit => ChatInv
  <1> SUFFICES ASSUME ChatInit PROVE ChatInv
    OBVIOUS
  <1> USE DEF ChatInit
  <1>1. BankInv /\ lastId = 0
    BY InitBankInv DEF BankInit
  <1>2. MaxRounds \in Nat /\ MaxCalls \in Nat /\ MaxPaid \in Nat
    BY ChatAssumption
  <1>3. Resting \in Turns
    BY <1>2 DEF Resting, Free, Turns, Places, Actions, Nothing
  <1>4. \A h \in Talk : turn[h] = Resting /\ TurnOK(turn[h])
    BY <1>3 DEF TurnOK, Resting, Free, InTool
  <1>5. ChatTypeOK
    BY <1>1, <1>2, <1>3 DEF ChatTypeOK, Turns, Actions
  <1>6. MoneyInv /\ SuccessWasPaid /\ PaidOncePerKey
    BY <1>4 DEF MoneyInv, SuccessWasPaid, PaidOncePerKey, Moving, At, Resting, Free
  <1> QED  BY <1>1, <1>4, <1>5, <1>6 DEF ChatInv

\* A step of one handler that moves no money and does not begin a transfer.
LEMMA QuietStep ==
    ASSUME ChatInv, BankInv', UNCHANGED lastId, NEW h \in Talk, NEW y,
           Step(h, y), TurnOK(y), y.at # "move", pending' \in Actions, Moneyless
    PROVE  ChatInv'
  <1> USE DEF ChatInv
  <1>1. /\ turn' \in [Talk -> Turns]
        /\ \A g \in Talk : turn'[g] = IF g = h THEN y ELSE turn[g]
    BY DEF Step, TurnOK, ChatTypeOK, Turns
  <1>2. \A g \in Talk : TurnOK(turn[g])'
    BY <1>1 DEF TurnOK, Turns, Actions
  <1>3. ChatTypeOK'
    BY <1>1 DEF ChatTypeOK, Moneyless, Turns, Actions
  <1>4. \A g \in Talk, t \in Plan : Moving(g, t)' => Moving(g, t)
    BY <1>1 DEF Moving, At, Held
  <1>5. MoneyInv' /\ SuccessWasPaid' /\ PaidOncePerKey'
    BY <1>4 DEF MoneyInv, SuccessWasPaid, PaidOncePerKey, Moneyless
  <1> QED  BY <1>2, <1>3, <1>5

\* A reply, and a rest, need nothing.
LEMMA ReplyingOK == TurnOK(Replying) /\ TurnOK(Resting) /\ Replying.at = "reply"
  <1>1. MaxRounds \in Nat /\ MaxCalls \in Nat
    BY ChatAssumption
  <1>2. Replying = [at |-> "reply", round |-> 0, calls |-> 0, held |-> Nothing]
    BY DEF Replying, Free
  <1> QED  BY <1>1, <1>2 DEF TurnOK, Turns, Resting, Free, Places, Actions, InTool

\* Where a handler is when its tool has returned.
LEMMA ToolReturns ==
    ASSUME ChatInv, NEW h \in Talk, turn[h].at \in InTool \/ CallTool(h), ToolDone(h)
    PROVE  \E y : Step(h, y) /\ TurnOK(y) /\ y.at # "move"
  <1> DEFINE x == turn[h]
  <1>1. x \in Turns /\ TurnOK(x) /\ MaxRounds \in Nat /\ MaxCalls \in Nat
    BY ChatAssumption DEF ChatInv, ChatTypeOK, Turns
  <1>2. Step(h, AfterTool(h))
    BY DEF ToolDone, Step
  <1>3. x.round # 0 => x.calls > 0
    BY <1>1 DEF CallTool, TurnOK, Turns
  <1>4. TurnOK(AfterTool(h)) /\ AfterTool(h).at # "move"
    <2>1. CASE x.round = 0
      BY <1>1, <2>1, ReplyingOK DEF AfterTool
    <2>2. CASE x.round # 0
      <3>1. AfterTool(h) = [at |-> "tools", round |-> x.round, calls |-> x.calls - 1,
                            held |-> Nothing]
        BY <2>2 DEF AfterTool, Free
      <3>2. x.round \in 1..MaxRounds /\ x.calls \in 1..MaxCalls
        BY <1>1, <1>3, <2>2 DEF Turns
      <3>3. AfterTool(h) \in Turns
        BY <1>1, <3>1, <3>2 DEF Turns, Places, Actions
      <3> QED  BY <3>1, <3>2, <3>3 DEF TurnOK, InTool
    <2> QED  BY <2>1, <2>2
  <1> QED  BY <1>2, <1>4

\* Hence a tool that moves no money and leaves the accounts' invariant.
LEMMA QuietTool ==
    ASSUME ChatInv, BankInv', UNCHANGED lastId, NEW h \in Talk,
           turn[h].at \in InTool \/ CallTool(h), ToolDone(h),
           pending' \in Actions, Moneyless
    PROVE  ChatInv'
  BY ToolReturns, QuietStep

\* The accounts' invariant is about bankvars only.
LEMMA RestfulKeeps == BankInv /\ Restful => BankInv' /\ lastId' = lastId
  BY NextBankInv DEF Restful, bankvars

\* A handler that only goes to another place, with what it has.
LEMMA GoKeeps ==
    ASSUME ChatInv, NEW h \in Talk, NEW at \in Places, NEW x \in Actions,
           GoHolding(h, at, x), Restful, Moneyless, pending' \in Actions,
           at \notin {"idle", "think", "tools", "move"},
           at \in InTool => turn[h].round = 0 \/ turn[h].calls > 0,
           at = "lookup" => x \in Plan, at = "delete" => x \in 1..lastId
    PROVE  ChatInv'
  <1> DEFINE y == [at |-> at, round |-> turn[h].round, calls |-> turn[h].calls, held |-> x]
  <1>1. /\ turn[h].round \in 0..MaxRounds /\ turn[h].calls \in 0..MaxCalls
        /\ MaxRounds \in Nat /\ MaxCalls \in Nat
    BY ChatAssumption DEF ChatInv, ChatTypeOK
  <1>2. Step(h, y)
    BY DEF GoHolding, Step
  <1>3. TurnOK(y) /\ y.at # "move"
    BY <1>1 DEF TurnOK, Turns
  <1>4. BankInv' /\ UNCHANGED lastId
    BY RestfulKeeps DEF ChatInv
  <1> QED  BY <1>2, <1>3, <1>4, QuietStep

\* The steps of HandleMessage and of the agent loop.
LEMMA TalkKeeps ==
    ASSUME ChatInv, NEW h \in Talk,
           \/ Message(h) \/ Respond(h)
           \/ AgentEnds(h) \/ AgentCallsTools(h) \/ NextRound(h)
    PROVE  ChatInv'
  <1>1. MaxRounds \in Nat \ {0} /\ MaxCalls \in Nat \ {0}
    BY ChatAssumption
  <1>2. /\ pending \in Actions /\ Nothing \in Actions
        /\ Held(h) \in Actions /\ turn[h] \in Turns /\ TurnOK(turn[h])
    BY DEF ChatInv, ChatTypeOK, Actions, Turns, Held
  <1>3. BankInv' /\ UNCHANGED lastId /\ Moneyless /\ pending' \in Actions /\ Restful
    <2>1. Restful /\ Moneyless /\ pending' \in {Nothing, pending}
      BY DEF Message, AskAgent, AskDirectly, SayYes, SayNo, Respond,
             AgentEnds, AgentCallsTools, NextRound
    <2> QED  BY <1>2, <2>1, RestfulKeeps DEF ChatInv
  <1>4. CASE AskAgent(h)
    <2> DEFINE y == Free("think", 1, 0)
    <2>2. TurnOK(y) /\ y.at # "move"
      BY <1>1, <1>2 DEF Free, TurnOK, Turns, Places, InTool
    <2>3. Step(h, y)
      BY <1>4 DEF AskAgent, Step
    <2> QED  BY <1>3, <2>2, <2>3, QuietStep
  <1>5. CASE AskDirectly(h) \/ SayNo(h) \/ SayYes(h)
    <2>1. turn[h].round = 0
      BY <1>2, <1>5 DEF AskDirectly, SayNo, SayYes, At, TurnOK
    <2>2. PICK p \in {"reply", "confirm", "unlink"} : GoHolding(h, p, Held(h))
      BY <1>5 DEF AskDirectly, SayNo, SayYes, Go
    <2>3. p \in Places
      BY DEF Places
    <2> QED  BY <1>2, <1>3, <2>1, <2>2, <2>3, GoKeeps
  <1>6. CASE Respond(h) \/ AgentEnds(h)
    <2>1. Step(h, Resting) \/ Step(h, Replying)
      BY <1>6 DEF Respond, AgentEnds, Step
    <2>2. Resting.at # "move" /\ Replying.at # "move"
      BY ReplyingOK DEF Resting, Free
    <2> QED  BY <1>3, <2>1, <2>2, ReplyingOK, QuietStep
  <1>7. CASE AgentCallsTools(h)
    <2>1. PICK n \in 1..MaxCalls : Step(h, Free("tools", turn[h].round, n))
      BY <1>7 DEF AgentCallsTools, Step
    <2> DEFINE y == Free("tools", turn[h].round, n)
    <2>3. turn[h].round \in 0..MaxRounds /\ turn[h].round > 0
      BY <1>2, <1>7 DEF AgentCallsTools, At, TurnOK, Turns
    <2>4. TurnOK(y) /\ y.at # "move"
      BY <1>1, <1>2, <2>3 DEF Free, TurnOK, Turns, Places, InTool
    <2> QED  BY <1>3, <2>1, <2>4, QuietStep
  <1>8. CASE NextRound(h)
    <2> DEFINE y == Free("think", Round(h), 0)
    <2>1. CASE Round(h) <= MaxRounds
      <3>2. turn[h].round \in 0..MaxRounds /\ Round(h) \in 1..MaxRounds
        BY <1>1, <1>2, <2>1 DEF Turns, Round
      <3>3. TurnOK(y) /\ y.at # "move"
        BY <1>1, <1>2, <3>2 DEF Free, TurnOK, Turns, Places, InTool
      <3>4. Step(h, y)
        BY <1>8, <2>1 DEF NextRound, Step
      <3> QED  BY <1>3, <3>3, <3>4, QuietStep
    <2>2. CASE ~(Round(h) <= MaxRounds)
      <3>1. Step(h, Replying)
        BY <1>8, <2>2 DEF NextRound, Step
      <3> QED  BY <1>3, <3>1, ReplyingOK, QuietStep
    <2> QED  BY <2>1, <2>2
  <1> QED  BY <1>4, <1>5, <1>6, <1>7, <1>8 DEF Message

\* An account that is linked has an id a pending action may hold.
LEMMA LinkedId ==
    ASSUME BankTypeOK, NEW n \in Number, Linked(n)
    PROVE  banks[n].id \in 1..lastId
  BY RowTypes

\* What the assistant does to the accounts, their handlers could have done.
LEMMA ToolOnBanks ==
    ASSUME ChatInv, NEW h \in Talk, Tool(h) \/ Confirmation(h)
    PROVE  [BankNext]_bankvars /\ BankInv' /\ lastId' = lastId
  <1>1. BankTypeOK /\ BankInv /\ \A g \in Talk : TurnOK(turn[g])
    BY DEF ChatInv, BankInv
  <1>2. CASE Restful
    BY <1>1, <1>2, RestfulKeeps DEF Restful
  <1>3. ASSUME NEW id \in 1..lastId, NEW p \in Priorities, UpdatePriority(id, p)
        PROVE  [BankNext]_bankvars /\ BankInv' /\ lastId' = lastId
    <2>1. BankNext
      BY <1>3 DEF BankNext, RowNext
    <2> QED  BY <1>1, <1>3, <2>1, NextBankInv DEF UpdatePriority
  <1>4. ASSUME NEW n \in Number, TopUp(n)
        PROVE  [BankNext]_bankvars /\ BankInv' /\ lastId' = lastId
    <2>1. BankNext
      BY <1>4 DEF BankNext, RowNext
    <2> QED  BY <1>1, <1>4, <2>1, NextBankInv DEF TopUp
  <1>5. ASSUME NEW id \in 1..lastId, UnlinkBank(id)
        PROVE  [BankNext]_bankvars /\ BankInv' /\ lastId' = lastId
    <2>1. BankNext
      BY <1>5 DEF BankNext, LinkNext
    <2> QED  BY <1>1, <1>5, <2>1, NextBankInv DEF UnlinkBank
  <1>6. CASE Tool(h)
    <2>1. CASE \/ ToolReads(h) \/ ToolCancelAction(h) \/ ToolConfirms(h)
               \/ \E t \in Plan : ToolInitiateTransfer(h, t)
               \/ \E n \in Number : ToolInitiateUnlink(h, n)
      <3>1. Restful
        BY <2>1 DEF ToolReads, ToolCancelAction, ToolConfirms,
                    ToolInitiateTransfer, ToolInitiateUnlink
      <3> QED  BY <1>2, <3>1
    <2>2. ASSUME NEW n \in Number, ToolFundWallet(h, n)
          PROVE  [BankNext]_bankvars /\ BankInv' /\ lastId' = lastId
      BY <1>4, <2>2 DEF ToolFundWallet
    <2>3. ASSUME NEW n \in Number, NEW p \in Priorities, ToolUpdateBankPriority(h, n, p)
          PROVE  [BankNext]_bankvars /\ BankInv' /\ lastId' = lastId
      <3>1. banks[n].id \in 1..lastId /\ UpdatePriority(banks[n].id, p)
        BY <1>1, <2>3, LinkedId DEF ToolUpdateBankPriority
      <3> QED  BY <1>3, <3>1
    <2>4. CASE \E n \in Number : ToolFundWallet(h, n)
      BY <2>2, <2>4
    <2>5. CASE \E n \in Number : \E p \in Priorities : ToolUpdateBankPriority(h, n, p)
      BY <2>3, <2>5
    <2> QED  BY <1>6, <2>1, <2>4, <2>5 DEF Tool
  <1>7. CASE Confirmation(h)
    <2>1. CASE DeleteUnlinked(h)
      <3>1. Held(h) \in 1..lastId
        BY <1>1, <2>1 DEF DeleteUnlinked, At, Held, TurnOK
      <3> QED  BY <1>2, <1>5, <2>1, <3>1 DEF DeleteUnlinked
    <2>2. CASE ~DeleteUnlinked(h)
      BY <1>2, <1>7, <2>2 DEF Confirmation, LoadTransfer, LookUp, TransferMade,
                              TransferFails, ClearPending, LoadUnlink
    <2> QED  BY <2>1, <2>2
  <1> QED  BY <1>6, <1>7

\* The tools of the agent, but for the confirmations.
LEMMA ToolKeeps ==
    ASSUME ChatInv, NEW h \in Talk, Tool(h)
    PROVE  ChatInv'
  <1>1. BankInv' /\ lastId' = lastId
    BY ToolOnBanks
  <1>2. /\ BankTypeOK /\ lastId \in Nat /\ pending \in Actions /\ Nothing \in Actions
        /\ Held(h) \in Actions /\ turn[h] \in Turns
    BY BanksAssumption
       DEF ChatInv, BankInv, BankTypeOK, ChatTypeOK, Actions, Turns, Held
  <1>3. CASE ToolConfirms(h)
    <2>1. PICK p \in {"confirm", "unlink"} : GoHolding(h, p, Held(h))
      BY <1>3 DEF ToolConfirms, Go
    <2>2. /\ turn[h].calls > 0 /\ Restful /\ Moneyless /\ pending' \in Actions
          /\ p \in Places
      BY <1>2, <1>3 DEF ToolConfirms, CallTool, Places
    <2> QED  BY <1>2, <2>1, <2>2, GoKeeps
  <1>4. CASE ~ToolConfirms(h)
    <2>1. CallTool(h) /\ ToolDone(h) /\ Moneyless
      BY <1>4 DEF Tool, ToolReads, ToolCancelAction, ToolInitiateTransfer,
                  ToolInitiateUnlink, ToolFundWallet, ToolUpdateBankPriority
    <2>2. pending' \in Actions
      <3>1. \A t \in Plan : t \in Actions
        BY DEF Actions
      <3>2. \A n \in Number : Linked(n) => banks[n].id \in Actions
        BY <1>2, LinkedId DEF Actions
      <3>3. \/ pending' \in {pending, Nothing}
            \/ \E t \in Plan : pending' = t
            \/ \E n \in Number : Linked(n) /\ pending' = banks[n].id
        BY <1>4 DEF Tool, ToolReads, ToolCancelAction, ToolInitiateTransfer,
                    ToolInitiateUnlink, ToolFundWallet, ToolUpdateBankPriority
      <3> QED  BY <1>2, <3>1, <3>2, <3>3
    <2> QED  BY <1>1, <2>1, <2>2, QuietTool
  <1> QED  BY <1>3, <1>4

\* The steps of a confirmation that load, delete and clear.
LEMMA LoadKeeps ==
    ASSUME ChatInv, NEW h \in Talk,
           LoadTransfer(h) \/ LoadUnlink(h) \/ DeleteUnlinked(h) \/ ClearPending(h)
    PROVE  ChatInv'
  <1>1. BankInv' /\ lastId' = lastId
    BY ToolOnBanks DEF Confirmation
  <1>2. /\ lastId \in Nat /\ pending \in Actions /\ Nothing \in Actions
        /\ Held(h) \in Actions /\ TurnOK(turn[h]) /\ turn[h] \in Turns
    BY BanksAssumption
       DEF ChatInv, BankInv, BankTypeOK, ChatTypeOK, Actions, Turns, Held
  <1>3. turn[h].at \in InTool /\ Moneyless /\ pending' \in Actions
    BY <1>2 DEF LoadTransfer, LoadUnlink, DeleteUnlinked, ClearPending, At, InTool
  <1>4. turn[h].round = 0 \/ turn[h].calls > 0
    BY <1>2, <1>3 DEF TurnOK, Turns
  <1>5. CASE ToolDone(h)
    BY <1>1, <1>3, <1>5, QuietTool
  <1>6. CASE ~ToolDone(h)
    <2>1. CASE LoadTransfer(h)
      <3>1. pending \in Plan /\ GoHolding(h, "lookup", pending) /\ Restful
        BY <1>6, <2>1 DEF LoadTransfer
      <3> QED  BY <1>2, <1>3, <1>4, <3>1, GoKeeps DEF Places
    <2>2. CASE LoadUnlink(h)
      <3>1. pending \in Nat \ {Nothing} /\ GoHolding(h, "delete", pending) /\ Restful
        BY <1>6, <2>2 DEF LoadUnlink
      <3>2. pending \in 1..lastId
        BY <1>2, <3>1, ChatAssumption DEF Actions
      <3> QED  BY <1>2, <1>3, <1>4, <3>1, <3>2, GoKeeps DEF Places
    <2>3. CASE DeleteUnlinked(h)
      <3> DEFINE y == [at |-> "clear", round |-> turn[h].round, calls |-> turn[h].calls,
                       held |-> Held(h)]
      <3>1. Step(h, y)
        BY <1>6, <2>3 DEF DeleteUnlinked, Go, GoHolding, Step
      <3>2. turn[h].round \in 0..MaxRounds /\ turn[h].calls \in 0..MaxCalls
        BY <1>2 DEF Turns
      <3>3. TurnOK(y) /\ y.at # "move"
        BY <1>2, <1>4, <3>2 DEF TurnOK, Turns, Places, InTool
      <3> QED  BY <1>1, <1>3, <3>1, <3>3, QuietStep
    <2>4. ~ClearPending(h)
      BY <1>6 DEF ClearPending
    <2> QED  BY <2>1, <2>2, <2>3, <2>4
  <1> QED  BY <1>5, <1>6

\* A step of one handler, whatever it does to the money: types and places.
LEMMA TurnStep ==
    ASSUME ChatInv, BankInv', UNCHANGED <<lastId, pending>>, NEW h \in Talk, NEW y,
           Step(h, y), TurnOK(y),
           ledger' \in [Plan -> SUBSET {"PENDING", "FAILED", "COMPLETED"}],
           paid' \in [Plan -> 0..MaxPaid], sent' \subseteq Plan, excused' \subseteq Plan
    PROVE  /\ ChatTypeOK'
           /\ \A g \in Talk : TurnOK(turn[g])'
           /\ \A g \in Talk : turn'[g] = IF g = h THEN y ELSE turn[g]
  <1>1. /\ turn' \in [Talk -> Turns]
        /\ \A g \in Talk : turn'[g] = IF g = h THEN y ELSE turn[g]
    BY DEF Step, TurnOK, ChatInv, ChatTypeOK, Turns
  <1>2. \A g \in Talk : TurnOK(turn[g])'
    BY <1>1 DEF ChatInv, TurnOK, Turns, Actions
  <1>3. ChatTypeOK'
    BY <1>1 DEF ChatInv, ChatTypeOK, Turns, Actions
  <1> QED  BY <1>1, <1>2, <1>3

\* A handler at the key lookup, or in the transfer, holds a plan.
LEMMA HeldPlan ==
    ASSUME ChatInv, NEW h \in Talk, At(h, "lookup") \/ At(h, "move")
    PROVE  /\ Held(h) \in Plan
           /\ turn[h].round \in 0..MaxRounds /\ turn[h].calls \in 0..MaxCalls
           /\ turn[h].round = 0 \/ turn[h].calls > 0
  BY DEF ChatInv, TurnOK, Turns, At, Held, InTool

\* Of one plan's row, payouts and reports.
LEMMA LookUpKeeps ==
    ASSUME ChatInv, NEW h \in Talk, LookUp(h)
    PROVE  ChatInv'
  <1> DEFINE t == Held(h)
             y(at) == [at |-> at, round |-> turn[h].round, calls |-> turn[h].calls,
                       held |-> t]
  <1>1. BankInv' /\ lastId' = lastId /\ At(h, "lookup")
    BY RestfulKeeps DEF LookUp, ChatInv
  <1>2. t \in Plan
    BY <1>1, HeldPlan
  <1>3. TurnOK(y("clear")) /\ TurnOK(y("move"))
    BY <1>1, <1>2, HeldPlan DEF TurnOK, Turns, Places, InTool, Actions
  <1>4. UNCHANGED <<pending, ledger, paid>>
    BY DEF LookUp
  <1>5. MoneyInv /\ SuccessWasPaid /\ PaidOncePerKey /\ ChatTypeOK
    BY DEF ChatInv
  <1>6. CASE ledger[t] # {}
    <2>1. Step(h, y("clear")) /\ sent' = sent \cup {t} /\ excused' = excused
      BY <1>6 DEF LookUp, RowsWithKey, Go, GoHolding, Step
    <2>2. /\ ChatTypeOK' /\ \A g \in Talk : TurnOK(turn[g])'
          /\ \A g \in Talk : turn'[g] = IF g = h THEN y("clear") ELSE turn[g]
      BY <1>1, <1>2, <1>3, <1>4, <1>5, <2>1, TurnStep DEF ChatTypeOK
    <2>3. \A g \in Talk, u \in Plan : Moving(g, u)' => Moving(g, u)
      BY <2>2 DEF Moving, At, Held
    <2>4. MoneyInv' /\ PaidOncePerKey'
      BY <1>4, <1>5, <2>1, <2>3 DEF MoneyInv, PaidOncePerKey
    <2>5. paid[t] > 0 \/ ledger[t] \cap {"PENDING", "FAILED"} # {}
      <3>1. ledger[t] \subseteq {"PENDING", "FAILED", "COMPLETED"}
        BY <1>2, <1>5 DEF ChatTypeOK
      <3> QED  BY <1>2, <1>5, <1>6, <3>1 DEF MoneyInv
    <2>6. SuccessWasPaid'
      BY <1>4, <1>5, <2>1, <2>5 DEF SuccessWasPaid
    <2> QED  BY <1>1, <2>2, <2>4, <2>6 DEF ChatInv
  <1>7. CASE ledger[t] = {}
    <2>1. /\ Step(h, y("move")) /\ sent' = sent
          /\ excused' = excused \cup {u \in Plan :
                \E g \in Talk \ {h} : At(g, "move") /\ Held(g) = u /\ t = u}
      BY <1>7 DEF LookUp, RowsWithKey, Go, GoHolding, Step
    <2>2. /\ ChatTypeOK' /\ \A g \in Talk : TurnOK(turn[g])'
          /\ \A g \in Talk : turn'[g] = IF g = h THEN y("move") ELSE turn[g]
      BY <1>1, <1>3, <1>4, <1>5, <2>1, TurnStep DEF ChatTypeOK
    <2>3. \A g \in Talk, u \in Plan : Moving(g, u)' <=> (IF g = h THEN u = t ELSE Moving(g, u))
      BY <2>2 DEF Moving, At, Held
    <2>4. \A g \in Talk : t \in Plan \ excused' /\ g # h => ~Moving(g, t)
      BY <1>2, <2>1 DEF Moving
    <2>5. MoneyInv'
      BY <1>4, <1>5, <1>7, <2>1, <2>3, <2>4 DEF MoneyInv
    <2>6. SuccessWasPaid' /\ PaidOncePerKey'
      BY <1>4, <1>5, <2>1 DEF SuccessWasPaid, PaidOncePerKey
    <2> QED  BY <1>1, <2>2, <2>5, <2>6 DEF ChatInv
  <1> QED  BY <1>6, <1>7

\* The end of a transfer: k payouts and some rows more for the handler's plan.
\* An unexcused plan had neither, and nobody else is transferring it.
LEMMA PayoutKeeps ==
    ASSUME ChatInv, Restful, UNCHANGED pending, NEW h \in Talk, At(h, "move"), NEW y,
           Step(h, y), TurnOK(y), y.at # "move",
           NEW k \in {0, 1}, NEW left \in SUBSET {"PENDING", "FAILED", "COMPLETED"},
           ledger' = [ledger EXCEPT ![Held(h)] = @ \cup left],
           paid' = [paid EXCEPT ![Held(h)] = @ + k],
           k = 1 => paid[Held(h)] < MaxPaid,
           "COMPLETED" \in left => k = 1,
           sent' = sent \/ (sent' = sent \cup {Held(h)} /\ k = 1),
           excused' = excused \cup {Held(h)} \/ (excused' = excused /\ (k = 1 => left # {}))
    PROVE  ChatInv'
  <1> DEFINE t == Held(h)
  <1>1. BankInv' /\ lastId' = lastId
    BY RestfulKeeps DEF ChatInv
  <1>2. t \in Plan
    BY HeldPlan
  <1>3. MoneyInv /\ SuccessWasPaid /\ PaidOncePerKey /\ ChatTypeOK /\ MaxPaid \in Nat
    BY ChatAssumption DEF ChatInv
  <1>4. /\ \A u \in Plan : ledger'[u] = IF u = t THEN ledger[u] \cup left ELSE ledger[u]
        /\ \A u \in Plan : paid[u] \in Nat /\ paid'[u] = IF u = t THEN paid[u] + k ELSE paid[u]
        /\ excused \subseteq excused'
    <2>1. ledger \in [Plan -> SUBSET {"PENDING", "FAILED", "COMPLETED"}]
      BY <1>3 DEF ChatTypeOK
    <2>2. paid \in [Plan -> 0..MaxPaid]
      BY <1>3 DEF ChatTypeOK
    <2>3. \A u \in Plan : ledger'[u] = IF u = t THEN ledger[u] \cup left ELSE ledger[u]
      BY <2>1
    <2>4. \A u \in Plan : paid[u] \in Nat /\ paid'[u] = IF u = t THEN paid[u] + k ELSE paid[u]
      BY <1>3, <2>2
    <2> QED  BY <2>3, <2>4
  <1>5. /\ ledger' \in [Plan -> SUBSET {"PENDING", "FAILED", "COMPLETED"}]
        /\ sent' \subseteq Plan /\ excused' \subseteq Plan
    BY <1>2, <1>3 DEF ChatTypeOK
  <1>6. paid' \in [Plan -> 0..MaxPaid]
    <2>1. paid[t] + k \in 0..MaxPaid
      BY <1>2, <1>3 DEF ChatTypeOK
    <2> QED  BY <1>3, <2>1 DEF ChatTypeOK
  <1>7. /\ ChatTypeOK' /\ \A g \in Talk : TurnOK(turn[g])'
        /\ \A g \in Talk : turn'[g] = IF g = h THEN y ELSE turn[g]
    BY <1>1, <1>5, <1>6, TurnStep
  <1>8. /\ \A g \in Talk, u \in Plan : Moving(g, u)' => Moving(g, u) /\ g # h
        /\ Moving(h, t)
    BY <1>7 DEF Moving, At, Held
  <1>9. ASSUME t \notin excused
        PROVE  paid[t] = 0 /\ \A g \in Talk : Moving(g, t) => g = h
    BY <1>2, <1>3, <1>4, <1>8, <1>9 DEF MoneyInv
  <1>10. MoneyInv'
    <2>1. ASSUME NEW u \in Plan, "COMPLETED" \in ledger'[u]
          PROVE  paid'[u] > 0
      BY <1>3, <1>4, <2>1 DEF MoneyInv
    <2>2. ASSUME NEW u \in Plan \ excused'
          PROVE  /\ paid'[u] > 0 => ledger'[u] # {}
                 /\ \A g \in Talk : Moving(g, u)' => ledger'[u] = {}
                 /\ \A f, g \in Talk : Moving(f, u)' /\ Moving(g, u)' => f = g
      <3>1. CASE u = t
        <4>1. t \notin excused /\ t \notin excused' /\ (k = 1 => left # {})
          BY <1>4, <3>1
        <4>2. paid[t] = 0 /\ \A g \in Talk : Moving(g, t) => g = h
          BY <1>9, <4>1
        <4>3. \A g \in Talk : ~Moving(g, u)'
          BY <1>8, <3>1, <4>2
        <4>4. paid'[u] > 0 => ledger'[u] # {}
          <5>1. ledger'[u] = ledger[u] \cup left
            BY <1>4, <3>1
          <5>2. paid[u] = 0
            BY <3>1, <4>2
          <5>3. paid'[u] = paid[u] + k
            BY <1>4, <3>1
          <5> QED  BY <4>1, <5>1, <5>2, <5>3
        <4> QED  BY <4>3, <4>4
      <3>2. CASE u # t
        BY <1>3, <1>4, <1>8, <3>2 DEF MoneyInv
      <3> QED  BY <3>1, <3>2
    <2> QED  BY <2>1, <2>2 DEF MoneyInv
  <1>11. SuccessWasPaid'
    <2> SUFFICES ASSUME NEW u \in sent'
                 PROVE  paid'[u] > 0 \/ ledger'[u] \cap {"PENDING", "FAILED"} # {}
      BY DEF SuccessWasPaid
    <2>1. u \in Plan
      BY <1>5
    <2>2. CASE u \in sent
      <3>1. paid[u] > 0 \/ ledger[u] \cap {"PENDING", "FAILED"} # {}
        BY <1>3, <2>2 DEF SuccessWasPaid
      <3>2. ledger[u] \subseteq ledger'[u] /\ (paid[u] > 0 => paid'[u] > 0)
        BY <1>4, <2>1
      <3> QED  BY <3>1, <3>2
    <2>3. CASE u \notin sent
      <3>1. u = t /\ k = 1
        BY <2>3
      <3> QED  BY <1>2, <1>4, <3>1
    <2> QED  BY <2>2, <2>3
  <1>12. PaidOncePerKey'
    BY <1>3, <1>4, <1>9 DEF PaidOncePerKey
  <1> QED  BY <1>1, <1>7, <1>10, <1>11, <1>12 DEF ChatInv

\* The ends of InitiateTransfer.
LEMMA TransferKeeps ==
    ASSUME ChatInv, NEW h \in Talk, TransferMade(h) \/ TransferFails(h)
    PROVE  ChatInv'
  <1> DEFINE t == Held(h)
  <1>1. /\ At(h, "move") /\ Restful /\ UNCHANGED pending /\ t \in Plan
        /\ ledger \in [Plan -> SUBSET {"PENDING", "FAILED", "COMPLETED"}]
        /\ paid \in [Plan -> 0..MaxPaid] /\ MaxPaid \in Nat
    BY HeldPlan, ChatAssumption DEF TransferMade, TransferFails, ChatInv, ChatTypeOK
  <1>2. /\ ledger = [ledger EXCEPT ![t] = @ \cup {}]
        /\ paid = [paid EXCEPT ![t] = @ + 0]
    BY <1>1
  <1>3. CASE TransferMade(h)
    <2> DEFINE y == [at |-> "clear", round |-> turn[h].round, calls |-> turn[h].calls,
                     held |-> t]
    <2>1. Step(h, y)
      BY <1>3 DEF TransferMade, Go, GoHolding, Step
    <2>2. TurnOK(y) /\ y.at # "move"
      BY <1>1, HeldPlan DEF TurnOK, Turns, Places, InTool, Actions
    <2>3. PICK left \in {{"COMPLETED"}, {}} :
            /\ ledger' = [ledger EXCEPT ![t] = @ \cup left]
            /\ excused' = excused \cup {t} \/ (excused' = excused /\ left # {})
      BY <1>2, <1>3 DEF TransferMade
    <2>4. /\ paid' = [paid EXCEPT ![t] = @ + 1] /\ paid[t] < MaxPaid
          /\ sent' = sent \cup {t}
      BY <1>3 DEF TransferMade
    <2> QED  BY <1>1, <2>1, <2>2, <2>3, <2>4, PayoutKeeps
  <1>4. CASE TransferFails(h)
    <2>1. PICK y : Step(h, y) /\ TurnOK(y) /\ y.at # "move"
      BY <1>1, <1>4, ToolReturns DEF TransferFails, FailedTool, At, InTool
    <2>2. sent' = sent
      BY <1>4 DEF TransferFails, FailedTool
    <2>3. CASE \E left \in {{}, {"PENDING"}, {"FAILED"}} :
                /\ ledger' = [ledger EXCEPT ![t] = @ \cup left]
                /\ UNCHANGED <<paid, excused>>
      <3>1. PICK left \in {{}, {"PENDING"}, {"FAILED"}} :
                ledger' = [ledger EXCEPT ![t] = @ \cup left]
        BY <2>3
      <3>2. paid' = [paid EXCEPT ![t] = @ + 0] /\ excused' = excused
        BY <1>2, <2>3
      <3>3. /\ left \in SUBSET {"PENDING", "FAILED", "COMPLETED"}
            /\ "COMPLETED" \notin left /\ 0 \in {0, 1} /\ 0 # 1
        OBVIOUS
      <3>4. \A k \in {0, 1} : k = 0 /\ paid' = [paid EXCEPT ![t] = @ + k] => ChatInv'
        BY <1>1, <2>1, <2>2, <3>1, <3>2, <3>3, PayoutKeeps
      <3> QED  BY <3>2, <3>4
    <2>4. CASE /\ paid[t] < MaxPaid
               /\ paid' = [paid EXCEPT ![t] = @ + 1]
               /\ \/ ledger' = [ledger EXCEPT ![t] = @ \cup {"FAILED"}] /\ UNCHANGED excused
                  \/ excused' = excused \cup {t} /\ UNCHANGED ledger
      <3>1. PICK left \in {{"FAILED"}, {}} :
              /\ ledger' = [ledger EXCEPT ![t] = @ \cup left]
              /\ excused' = excused \cup {t} \/ (excused' = excused /\ left # {})
        BY <1>2, <2>4
      <3> QED  BY <1>1, <2>1, <2>2, <2>4, <3>1, PayoutKeeps
    <2> QED  BY <1>4, <2>3, <2>4 DEF TransferFails
  <1> QED  BY <1>3, <1>4

\* The pending action expires, and others work on the accounts, under way.
LEMMA ElsewhereKeeps ==
    ASSUME ChatInv, ExpirePending \/ BanksMove
    PROVE  ChatInv'
  <1>1. lastId' \in {lastId, lastId + 1}
    <2>1. CASE BankNext
      <3>1. CASE RowNext
        BY <3>1 DEF RowNext, TopUp, UpdatePriority
      <3>2. CASE \E a \in Account : SaveAccount(a) \/ Connect(a) \/ Revoke(a)
        BY <3>2 DEF SaveAccount, Connect, Revoke, CreateBank
      <3>3. CASE \E n \in Number : ExchangeCode(n) \/ RefreshRead(n)
        BY <3>3 DEF ExchangeCode, RefreshRead, CreateBank
      <3>4. CASE \E id \in 1..lastId : UnlinkBank(id)
        BY <3>4 DEF UnlinkBank
      <3>5. CASE InitiateLink \/ ExpireRef \/ CompleteLink \/ FinishLink
        BY <3>5 DEF InitiateLink, ExpireRef, CompleteLink, FinishLink
      <3>6. CASE RefreshAsk \/ RefreshStore
        BY <3>6 DEF RefreshAsk, RefreshStore
      <3> QED  BY <2>1, <3>1, <3>2, <3>3, <3>4, <3>5, <3>6 DEF BankNext, LinkNext
    <2>2. CASE Restful
      BY <2>2 DEF Restful, bankvars
    <2> QED  BY <2>1, <2>2 DEF ExpirePending, BanksMove
  <1>2. BankInv' /\ lastId \in Nat
    BY BanksAssumption, RestfulKeeps, NextBankInv
       DEF ChatInv, BankInv, BankTypeOK, ExpirePending, BanksMove
  <1>3. /\ UNCHANGED <<turn, ledger, paid, sent, excused>>
        /\ pending' \in {pending, Nothing}
    BY DEF ExpirePending, BanksMove, chatvars, Moneyless
  <1>4. Actions \subseteq Actions' /\ Turns \subseteq Turns'
    BY <1>1, <1>2 DEF Actions, Turns
  <1>5. \A g \in Talk : TurnOK(turn[g])'
    BY <1>1, <1>3, <1>4, <1>2 DEF ChatInv, TurnOK
  <1>6. ChatTypeOK'
    <2>1. pending' \in Actions'
      BY <1>3, <1>4 DEF ChatInv, ChatTypeOK, Actions
    <2>2. turn' \in [Talk -> Turns']
      BY <1>3, <1>4 DEF ChatInv, ChatTypeOK, Turns
    <2> QED  BY <1>3, <2>1, <2>2 DEF ChatInv, ChatTypeOK, Turns
  <1>7. MoneyInv' /\ SuccessWasPaid' /\ PaidOncePerKey'
    BY <1>3 DEF ChatInv, MoneyInv, SuccessWasPaid, PaidOncePerKey, Moving, At, Held
  <1> QED  BY <1>5, <1>6, <1>7, <1>2 DEF ChatInv

\* Every step preserves the invariant.
LEMMA NextChatInv == ChatInv /\ [ChatNext]_<<bankvars, chatvars>> => ChatInv'
  <1> SUFFICES ASSUME ChatInv, [ChatNext]_<<bankvars, chatvars>>
               PROVE  ChatInv'
    OBVIOUS
  <1>1. CASE ExpirePending \/ BanksMove
    BY <1>1, ElsewhereKeeps
  <1>2. ASSUME NEW h \in Talk, Message(h) \/ Handle(h)
        PROVE  ChatInv'
    <2>1. CASE Tool(h)
      BY <2>1, ToolKeeps
    <2>2. CASE Confirmation(h)
      BY <2>2, LoadKeeps, LookUpKeeps, TransferKeeps DEF Confirmation
    <2>3. CASE Message(h) \/ AgentEnds(h) \/ AgentCallsTools(h) \/ NextRound(h) \/ Respond(h)
      BY <2>3, TalkKeeps
    <2> QED  BY <1>2, <2>1, <2>2, <2>3 DEF Handle
  <1>3. CASE UNCHANGED <<bankvars, chatvars>>
    <2>1. BanksMove \/ (Restful /\ UNCHANGED chatvars)
      BY <1>3 DEF Restful
    <2>2. BankInv' /\ lastId' = lastId
      BY <2>1, <1>3, RestfulKeeps DEF Restful, ChatInv
    <2>3. UNCHANGED <<pending, turn, ledger, paid, sent, excused>>
      BY <1>3 DEF chatvars
    <2> QED  BY <2>2, <2>3
             DEF ChatInv, ChatTypeOK, TurnOK, Turns, Actions, MoneyInv, Moving, At, Held,
                 SuccessWasPaid, PaidOncePerKey
  <1> QED  BY <1>1, <1>2, <1>3 DEF ChatNext

\* The invariant of the assistant holds in every state, for any number of
\* handlers, plans, accounts, rounds and calls.
THEOREM ChatInvHolds == ChatSpec => []ChatInv
  BY InitChatInv, NextChatInv, PTL DEF ChatSpec

\* toolConfirmTransfer: nobody is told of a success without a payout, unless
\* a failed attempt has left its row under the key.
THEOREM SuccessWasPaidAlways == ChatSpec => []SuccessWasPaid
  BY ChatInvHolds, PTL DEF ChatInv

\* toolInitiateTransfer's key: a plan is paid out at most once, but for the
\* two excuses.
THEOREM PaidOnceAlways == ChatSpec => []PaidOncePerKey
  BY ChatInvHolds, PTL DEF ChatInv

\* executeTool: the assistant does nothing to the linked accounts that their
\* own handlers could not have done, so what holds of those holds with it.
THEOREM AssistantIsAClient == ChatSpec => BankSpec
  <1>1. ChatInit => BankInit
    BY DEF ChatInit
  <1>2. ChatInv /\ [ChatNext]_<<bankvars, chatvars>> => [BankNext]_bankvars
    <2> SUFFICES ASSUME ChatInv, [ChatNext]_<<bankvars, chatvars>>
                 PROVE  [BankNext]_bankvars
      OBVIOUS
    <2>1. ASSUME NEW h \in Talk, Tool(h) \/ Confirmation(h)
          PROVE  [BankNext]_bankvars
      BY <2>1, ToolOnBanks
    <2>2. ASSUME NEW h \in Talk,
                 \/ Message(h) \/ AgentEnds(h) \/ AgentCallsTools(h)
                 \/ NextRound(h) \/ Respond(h)
          PROVE  [BankNext]_bankvars
      BY <2>2 DEF Message, AskAgent, AskDirectly, SayYes, SayNo, AgentEnds,
                  AgentCallsTools, NextRound, Respond, Restful
    <2>3. CASE ExpirePending \/ BanksMove \/ UNCHANGED <<bankvars, chatvars>>
      BY <2>3 DEF ExpirePending, BanksMove, Restful
    <2> QED  BY <2>1, <2>2, <2>3 DEF ChatNext, Handle
  <1> QED  BY <1>1, <1>2, ChatInvHolds, PTL DEF ChatSpec, BankSpec

----------------------------------------------------------------------------
(* The assistant keeps the ledger of keys TransferService keeps.           *)

\* Where a step takes a handler that neither begins nor ends a transfer.
LEMMA QuietTurn ==
    ASSUME ChatInv, NEW h \in Talk,
           \/ Message(h) \/ Respond(h) \/ AgentEnds(h) \/ AgentCallsTools(h) \/ NextRound(h)
           \/ Tool(h) \/ LoadTransfer(h) \/ LoadUnlink(h) \/ DeleteUnlinked(h) \/ ClearPending(h)
    PROVE  Moneyless /\ ~At(h, "move") /\ \E y : Step(h, y) /\ y.at # "move"
  <1>1. \A at, round, calls : Free(at, round, calls).at = at
    BY DEF Free
  <1>2. Resting.at # "move" /\ Replying.at # "move"
    BY <1>1 DEF Resting, Replying
  <1>3. ASSUME NEW at, NEW x, GoHolding(h, at, x), at # "move"
        PROVE  \E y : Step(h, y) /\ y.at # "move"
    <2> DEFINE y == [at |-> at, round |-> turn[h].round, calls |-> turn[h].calls, held |-> x]
    <2>1. Step(h, y) /\ y.at # "move"
      BY <1>3 DEF GoHolding, Step
    <2> QED  BY <2>1
  <1>4. CASE Message(h) \/ Respond(h) \/ AgentEnds(h) \/ AgentCallsTools(h) \/ NextRound(h)
    <2>1. CASE Respond(h) \/ AgentEnds(h)
      BY <1>2, <2>1 DEF Respond, AgentEnds, At, Step
    <2>2. CASE AskAgent(h) \/ AgentCallsTools(h)
      BY <1>1, <2>2 DEF AskAgent, AgentCallsTools, At, Step
    <2>3. CASE NextRound(h)
      <3>1. Step(h, Free("think", Round(h), 0)) \/ Step(h, Replying)
        BY <2>3 DEF NextRound, Step
      <3>2. Free("think", Round(h), 0).at # "move"
        BY <1>1
      <3> QED  BY <1>2, <2>3, <3>1, <3>2 DEF NextRound, At
    <2>4. CASE AskDirectly(h) \/ SayYes(h) \/ SayNo(h)
      <3>1. \E at \in {"reply", "confirm", "unlink"} : GoHolding(h, at, Held(h))
        BY <2>4 DEF AskDirectly, SayYes, SayNo, Go
      <3> QED  BY <1>3, <2>4, <3>1 DEF AskDirectly, SayYes, SayNo, At
    <2> QED  BY <1>4, <2>1, <2>2, <2>3, <2>4 DEF Message
  <1>5. CASE Tool(h)
    <2>1. CASE ToolConfirms(h)
      <3>1. GoHolding(h, "confirm", Held(h)) \/ GoHolding(h, "unlink", Held(h))
        BY <2>1 DEF ToolConfirms, Go
      <3> QED  BY <1>3, <2>1, <3>1 DEF ToolConfirms, CallTool, At
    <2>2. CASE ~ToolConfirms(h)
      <3>1. CallTool(h) /\ ToolDone(h) /\ Moneyless
        BY <1>5, <2>2 DEF Tool, ToolReads, ToolCancelAction, ToolInitiateTransfer,
                          ToolInitiateUnlink, ToolFundWallet, ToolUpdateBankPriority
      <3> QED  BY <3>1, ToolReturns DEF CallTool, At
    <2> QED  BY <2>1, <2>2
  <1>6. CASE LoadTransfer(h) \/ LoadUnlink(h) \/ DeleteUnlinked(h) \/ ClearPending(h)
    <2>1. turn[h].at \in InTool /\ ~At(h, "move") /\ Moneyless
      BY <1>6 DEF LoadTransfer, LoadUnlink, DeleteUnlinked, ClearPending, At, InTool
    <2>2. \/ ToolDone(h)
          \/ \E at \in {"lookup", "delete", "clear"} : \E x : GoHolding(h, at, x)
      BY <1>6 DEF LoadTransfer, LoadUnlink, DeleteUnlinked, ClearPending, Go
    <2> QED  BY <1>3, <2>1, <2>2, ToolReturns
  <1> QED  BY <1>4, <1>5, <1>6

\* Who is in a transfer, after a step of one handler.
LEMMA MoversStep ==
    ASSUME ChatTypeOK, NEW h \in Talk, NEW y, Step(h, y)
    PROVE  /\ y.at # "move" => Movers' = Movers \ {<<h, Held(h)>>}
           /\ y.at # "move" /\ ~At(h, "move") => Movers' = Movers
           /\ y.at = "move" /\ ~At(h, "move") => Movers' = Movers \cup {<<h, y.held>>}
  <1>1. \A g \in Talk : turn'[g] = IF g = h THEN y ELSE turn[g]
    BY DEF Step, ChatTypeOK
  <1> QED  BY <1>1 DEF Movers, At, Held

\* The lookup is the ledger's, with its excuse for an overlap.
LEMMA LookUpIsLedgerStep ==
    ASSUME ChatInv, NEW h \in Talk, LookUp(h)
    PROVE  Keys!KeyNext
  <1> DEFINE t == Held(h)
             y(at) == [at |-> at, round |-> turn[h].round, calls |-> turn[h].calls, held |-> t]
  <1>1. /\ At(h, "lookup") /\ ~At(h, "move") /\ t \in Plan /\ ChatTypeOK
        /\ UNCHANGED <<ledger, paid>> /\ Payouts' = Payouts
    BY HeldPlan DEF LookUp, At, ChatInv, Payouts
  <1>2. CASE ledger[t] # {}
    <2>1. Step(h, y("clear")) /\ y("clear").at # "move"
      BY <1>2 DEF LookUp, RowsWithKey, Go, GoHolding, Step
    <2>2. Movers' = Movers
      BY <1>1, <2>1, MoversStep
    <2>3. Keys!Answered(t)
      BY <1>1, <1>2, <2>2 DEF LookUp, RowsWithKey, Keys!Answered
    <2> QED  BY <1>1, <2>3 DEF Keys!KeyNext
  <1>3. CASE ledger[t] = {}
    <2>1. Step(h, y("move")) /\ y("move").at = "move" /\ y("move").held = t /\ sent' = sent
      BY <1>3 DEF LookUp, RowsWithKey, Go, GoHolding, Step
    <2>2. Movers' = Movers \cup {<<h, t>>}
      BY <1>1, <2>1, MoversStep
    <2>3. \A j \in Plan : <<h, j>> \notin Movers
      BY <1>1 DEF Movers
    <2>4. excused' = excused \cup {j \in {t} : \E b \in Talk : <<b, j>> \in Movers}
      <3>1. excused' = excused \cup
                {j \in Plan : \E g \in Talk \ {h} : At(g, "move") /\ Held(g) = j /\ t = j}
        BY <1>3 DEF LookUp, RowsWithKey
      <3>2. \A j \in Plan : (\E b \in Talk : <<b, j>> \in Movers)
                        <=> \E g \in Talk \ {h} : At(g, "move") /\ Held(g) = j
        BY <1>1 DEF Movers
      <3> QED  BY <1>1, <3>1, <3>2
    <2>5. Keys!Missed(h, t)
      BY <1>1, <1>3, <2>1, <2>2, <2>3, <2>4 DEF Keys!Missed
    <2> QED  BY <1>1, <2>5 DEF Keys!KeyNext
  <1> QED  BY <1>2, <1>3

\* So are the ends of InitiateTransfer.
LEMMA TransferIsLedgerStep ==
    ASSUME ChatInv, NEW h \in Talk, TransferMade(h) \/ TransferFails(h)
    PROVE  Keys!KeyNext
  <1> DEFINE t == Held(h)
  <1>1. /\ At(h, "move") /\ t \in Plan /\ ChatTypeOK
        /\ paid \in [Plan -> 0..MaxPaid] /\ MaxPaid \in Nat
    BY HeldPlan, ChatAssumption DEF TransferMade, TransferFails, ChatInv, ChatTypeOK
  <1>2. <<h, t>> \in Movers
    BY <1>1 DEF Movers
  <1>3. Movers' = Movers \ {<<h, t>>}
    <2>1. CASE TransferMade(h)
      <3> DEFINE y == [at |-> "clear", round |-> turn[h].round, calls |-> turn[h].calls,
                       held |-> t]
      <3>1. Step(h, y) /\ y.at # "move"
        BY <2>1 DEF TransferMade, Go, GoHolding, Step
      <3> QED  BY <1>1, <3>1, MoversStep
    <2>2. CASE TransferFails(h)
      <3>1. PICK y : Step(h, y) /\ y.at # "move"
        BY <1>1, <2>2, ToolReturns DEF TransferFails, FailedTool, At, InTool
      <3> QED  BY <1>1, <3>1, MoversStep
    <2> QED  BY <2>1, <2>2
  <1>4. ASSUME paid' = [paid EXCEPT ![t] = @ + 1]
        PROVE  Payouts' = [Payouts EXCEPT ![t] = Keys!More(@)]
    <2>1. \A u \in Plan : paid[u] \in Nat /\ paid'[u] = IF u = t THEN paid[u] + 1 ELSE paid[u]
      BY <1>1, <1>4
    <2>2. \A n \in Nat : Times(n + 1) = Keys!More(Times(n))
      BY DEF Times, Keys!More
    <2>3. \A u \in Plan : Times(paid'[u]) = IF u = t THEN Keys!More(Times(paid[u])) ELSE Times(paid[u])
      BY <2>1, <2>2
    <2> QED  BY <2>3 DEF Payouts
  <1>5. ASSUME NEW status,
               paid' = [paid EXCEPT ![t] = @ + 1],
               \/ ledger' = [ledger EXCEPT ![t] = @ \cup {status}] /\ UNCHANGED excused
               \/ excused' = excused \cup {t} /\ UNCHANGED ledger
        PROVE  Keys!PaidOut(t, status)
    BY <1>4, <1>5 DEF Keys!PaidOut
  <1> HIDE DEF t
  <1>6. CASE TransferMade(h)
    <2>1. Keys!PaidOut(t, "COMPLETED") /\ sent' = sent \cup {t}
      BY <1>5, <1>6 DEF TransferMade, t
    <2>2. Keys!Made(h, t)
      BY <1>2, <1>3, <2>1 DEF Keys!Made
    <2> QED  BY <1>1, <2>2 DEF Keys!KeyNext
  <1>7. CASE TransferFails(h)
    <2>1. sent' = sent
      BY <1>7 DEF TransferFails, FailedTool
    <2>2. \/ Keys!PaidOut(t, "FAILED")
          \/ \E left \in {{}, {"PENDING"}, {"FAILED"}} :
                /\ ledger' = [ledger EXCEPT ![t] = @ \cup left]
                /\ UNCHANGED <<Payouts, excused>>
      <3>1. CASE \E left \in {{}, {"PENDING"}, {"FAILED"}} :
                    /\ ledger' = [ledger EXCEPT ![t] = @ \cup left]
                    /\ UNCHANGED <<paid, excused>>
        BY <3>1 DEF Payouts
      <3>2. CASE /\ paid' = [paid EXCEPT ![t] = @ + 1]
                 /\ \/ ledger' = [ledger EXCEPT ![t] = @ \cup {"FAILED"}] /\ UNCHANGED excused
                    \/ excused' = excused \cup {t} /\ UNCHANGED ledger
        BY <1>5, <3>2
      <3> QED  BY <1>7, <3>1, <3>2 DEF TransferFails, t
    <2>3. Keys!Failed(h, t)
      BY <1>2, <1>3, <2>1, <2>2 DEF Keys!Failed
    <2> QED  BY <1>1, <2>3 DEF Keys!KeyNext
  <1> QED  BY <1>6, <1>7

\* toolConfirmTransfer: to the keys, the assistant is a caller like any other,
\* and what it takes InitiateTransfer to do with one is what KeepsTheLedger
\* shows TransferService to do.
THEOREM AssistantKeepsTheLedger == ChatSpec => KeepsKeyLedger
  <1>1. ChatInit => Keys!KeyInit
    BY DEF ChatInit, Keys!KeyInit, Movers, At, Resting, Free, Payouts, Times
  <1>2. ChatInv /\ [ChatNext]_<<bankvars, chatvars>> => [Keys!KeyNext]_(Keys!keyvars)
    <2> SUFFICES ASSUME ChatInv, [ChatNext]_<<bankvars, chatvars>>
                 PROVE  Keys!KeyNext \/ UNCHANGED <<Movers, ledger, Payouts, sent, excused>>
      BY DEF Keys!keyvars
    <2>1. ASSUME NEW h \in Talk, Message(h) \/ Handle(h),
                 ~LookUp(h), ~TransferMade(h), ~TransferFails(h)
          PROVE  UNCHANGED <<Movers, ledger, Payouts, sent, excused>>
      <3>1. Moneyless /\ ~At(h, "move") /\ \E y : Step(h, y) /\ y.at # "move"
        BY <2>1, QuietTurn DEF Handle, Confirmation
      <3>2. Movers' = Movers
        BY <3>1, MoversStep DEF ChatInv
      <3> QED  BY <3>1, <3>2 DEF Moneyless, Payouts
    <2>2. CASE ExpirePending \/ BanksMove \/ UNCHANGED <<bankvars, chatvars>>
      BY <2>2 DEF ExpirePending, BanksMove, chatvars, Moneyless, Movers, At, Held, Payouts
    <2> QED  BY <2>1, <2>2, LookUpIsLedgerStep, TransferIsLedgerStep DEF ChatNext
  <1> QED  BY <1>1, <1>2, ChatInvHolds, PTL DEF ChatSpec, KeepsKeyLedger, Keys!Spec

----------------------------------------------------------------------------
(* How long a message can take.                                            *)

\* The most steps a round takes: the call to the model, five steps for each
\* tool it asks for, and the end of the round.
Work == 5 * MaxCalls + 2

\* What is left to do when the tools of a round are done.
After(round) == (MaxRounds - round) * Work + 1

\* Steps until the tool returns.
ToolSteps(at) ==
    CASE at = "confirm" -> 4
      [] at \in {"lookup", "unlink"} -> 3
      [] at \in {"move", "delete"} -> 2
      [] at = "clear" -> 1

\* The steps a handler may still make before it rests.
Left(x) ==
    CASE x.at = "idle" -> 0
      [] x.at = "reply" -> 1
      [] x.at = "think" -> After(x.round) + Work
      [] x.at = "tools" -> After(x.round) + 5 * x.calls + 1
      [] x.at \in InTool ->
            ToolSteps(x.at)
                + (IF x.round = 0 THEN 1 ELSE After(x.round) + 5 * (x.calls - 1) + 1)

Longest == MaxRounds * Work + 1

\* A round takes its share of the way, and no more than that is left of it.
LEMMA RoundShare ==
    ASSUME NEW r \in 1..MaxRounds
    PROVE  /\ Work \in Nat /\ Work >= 7 /\ After(r) \in Nat /\ After(r) >= 1
           /\ After(r) + Work <= Longest
           /\ r + 1 <= MaxRounds => After(r) = After(r + 1) + Work
  <1>1. MaxRounds \in Nat \ {0} /\ Work \in Nat /\ Work >= 7
    BY ChatAssumption DEF Work
  <1>2. PICK k \in Nat : k = MaxRounds - r
    BY <1>1
  <1>3. k * Work \in Nat /\ (k + 1) * Work = k * Work + Work
    BY <1>1, <1>2
  <1>4. (k + 1) * Work <= MaxRounds * Work
    <2>1. PICK j \in Nat : MaxRounds = (k + 1) + j
      BY <1>1, <1>2
    <2>2. MaxRounds * Work = (k + 1) * Work + j * Work /\ j * Work \in Nat
      BY <1>1, <1>2, <2>1
    <2> QED  BY <1>1, <1>3, <2>2
  <1>5. After(r) = k * Work + 1
    BY <1>2 DEF After
  <1>6. ASSUME r + 1 <= MaxRounds PROVE k * Work = (MaxRounds - (r + 1)) * Work + Work
    <2>1. PICK m \in Nat : m = MaxRounds - (r + 1) /\ k = m + 1
      BY <1>1, <1>2, <1>6
    <2>2. (m + 1) * Work = m * Work + Work
      BY <1>1, <2>1
    <2> QED  BY <2>1, <2>2
  <1>7. MaxRounds * Work \in Nat /\ (r + 1 <= MaxRounds => (MaxRounds - (r + 1)) * Work \in Int)
    BY <1>1
  <1> QED  BY <1>1, <1>3, <1>4, <1>5, <1>6, <1>7 DEF After, Longest

\* The way left is a number, and never more than the whole.
LEMMA WayLeft ==
    ASSUME NEW x, TurnOK(x)
    PROVE  Left(x) \in 0..Longest
  <1>1. /\ x.at \in Places /\ x.round \in 0..MaxRounds /\ x.calls \in 0..MaxCalls
        /\ MaxRounds \in Nat \ {0} /\ MaxCalls \in Nat \ {0}
    BY ChatAssumption DEF TurnOK, Turns
  <1>2. Work \in Nat /\ Work >= 7 /\ Longest \in Nat /\ Longest >= Work + 1
    <2>1. Work \in Nat /\ Work >= 7
      BY <1>1 DEF Work
    <2>2. PICK k \in Nat : MaxRounds = k + 1
      BY <1>1
    <2>3. (k + 1) * Work = k * Work + Work /\ k * Work \in Nat
      BY <2>1
    <2> QED  BY <2>1, <2>2, <2>3 DEF Longest
  <1>3. CASE x.at \in {"idle", "reply"}
    BY <1>2, <1>3 DEF Left, InTool
  <1>4. ASSUME x.round > 0
        PROVE  /\ After(x.round) \in Nat /\ After(x.round) + Work <= Longest
               /\ Work = 5 * MaxCalls + 2
    BY <1>1, <1>4, RoundShare DEF Work
  <1>5. CASE x.at = "think"
    BY <1>2, <1>4, <1>5 DEF Left, InTool, TurnOK
  <1>6. CASE x.at = "tools"
    <2>1. 5 * x.calls \in Nat /\ 5 * x.calls <= 5 * MaxCalls
      BY <1>1
    <2>2. x.round > 0
      BY <1>6 DEF TurnOK
    <2>3. Left(x) = After(x.round) + 5 * x.calls + 1
      BY <1>6 DEF Left, InTool
    <2> QED  BY <1>1, <1>2, <1>4, <2>1, <2>2, <2>3
  <1>7. CASE x.at \in InTool
    <2>1. ToolSteps(x.at) \in 1..4
      BY <1>7 DEF InTool, ToolSteps
    <2>2. CASE x.round = 0
      BY <1>2, <1>7, <2>1, <2>2 DEF Left, InTool
    <2>3. CASE x.round > 0
      <3>1. x.calls \in 1..MaxCalls
        BY <1>1, <1>7, <2>3 DEF TurnOK
      <3>2. Left(x) = ToolSteps(x.at) + (After(x.round) + 5 * (x.calls - 1) + 1)
        BY <1>1, <1>7, <2>3 DEF Left, InTool
      <3> QED  BY <1>1, <1>2, <1>4, <2>1, <2>3, <3>1, <3>2
    <2> QED  BY <1>1, <2>2, <2>3
  <1> QED  BY <1>1, <1>3, <1>5, <1>6, <1>7 DEF Places, InTool

\* The tool returns, to the shortcut or to the loop.
LEMMA ReturnGetsOn ==
    ASSUME ChatInv, NEW h \in Talk, turn[h].at \in InTool \/ CallTool(h)
    PROVE  Left(AfterTool(h)) < Left(turn[h])
  <1> DEFINE x == turn[h]
  <1>1. TurnOK(x) /\ x.round \in 0..MaxRounds /\ x.calls \in 0..MaxCalls /\ MaxCalls \in Nat
    BY ChatAssumption DEF ChatInv, TurnOK, Turns
  <1>2. CASE x.round = 0
    <2>1. x.at \in InTool /\ ToolSteps(x.at) \in 1..4
      BY <1>1, <1>2 DEF CallTool, At, TurnOK, InTool, ToolSteps
    <2>2. Left(x) = ToolSteps(x.at) + 1
      BY <1>2, <2>1 DEF Left, InTool
    <2>3. Left(AfterTool(h)) = 1
      BY <1>2 DEF AfterTool, Replying, Free, Left, InTool
    <2> QED  BY <2>1, <2>2, <2>3
  <1>3. CASE x.round > 0
    <2>1. After(x.round) \in Nat /\ x.calls \in 1..MaxCalls
      BY <1>1, <1>3, RoundShare DEF CallTool, TurnOK
    <2>2. Left(AfterTool(h)) = After(x.round) + 5 * (x.calls - 1) + 1
      BY <1>1, <1>3 DEF AfterTool, Free, Left, InTool
    <2>3. CASE x.at = "tools"
      <3>1. Left(x) = After(x.round) + 5 * x.calls + 1
        BY <2>3 DEF Left, InTool
      <3> QED  BY <1>1, <2>1, <2>2, <3>1
    <2>4. CASE x.at \in InTool
      <3>1. ToolSteps(x.at) \in 1..4
        BY <2>4 DEF InTool, ToolSteps
      <3>2. Left(x) = ToolSteps(x.at) + (After(x.round) + 5 * (x.calls - 1) + 1)
        BY <1>1, <1>3, <2>4 DEF Left, InTool
      <3> QED  BY <1>1, <2>1, <2>2, <3>1, <3>2
    <2> QED  BY <2>3, <2>4 DEF CallTool, At
  <1> QED  BY <1>1, <1>2, <1>3

\* A handler goes on inside its tool, or into one the model has asked for.
LEMMA GoGetsOn ==
    ASSUME ChatInv, NEW h \in Talk, NEW y, y.round = turn[h].round, y.calls = turn[h].calls,
           y.at \in InTool,
           \/ CallTool(h)
           \/ turn[h].at \in InTool /\ ToolSteps(y.at) < ToolSteps(turn[h].at)
    PROVE  Left(y) < Left(turn[h])
  <1> DEFINE x == turn[h]
             rest == IF x.round = 0 THEN 1 ELSE After(x.round) + 5 * (x.calls - 1) + 1
  <1>1. TurnOK(x) /\ x.round \in 0..MaxRounds /\ x.calls \in 0..MaxCalls /\ MaxCalls \in Nat
    BY ChatAssumption DEF ChatInv, TurnOK, Turns
  <1>2. Left(y) = ToolSteps(y.at) + rest /\ ToolSteps(y.at) \in 1..4
    BY DEF Left, InTool, ToolSteps
  <1>3. rest \in Int
    BY <1>1, RoundShare
  <1>4. CASE CallTool(h)
    <2>1. x.at = "tools" /\ x.round > 0 /\ x.calls > 0
      BY <1>1, <1>4 DEF CallTool, At, TurnOK
    <2>2. Left(x) = After(x.round) + 5 * x.calls + 1
      BY <2>1 DEF Left, InTool
    <2>3. rest = After(x.round) + 5 * (x.calls - 1) + 1 /\ After(x.round) \in Nat
      BY <1>1, <2>1, RoundShare
    <2> QED  BY <1>1, <1>2, <2>2, <2>3
  <1>5. CASE x.at \in InTool /\ ToolSteps(y.at) < ToolSteps(x.at)
    <2>1. Left(x) = ToolSteps(x.at) + rest /\ ToolSteps(x.at) \in 1..4
      BY <1>5 DEF Left, InTool, ToolSteps
    <2> QED  BY <1>2, <1>3, <1>5, <2>1
  <1> QED  BY <1>4, <1>5

\* Every step of a handler that has a message brings it nearer to its rest.
LEMMA HandleGetsOn ==
    ASSUME ChatInv, NEW h \in Talk, Handle(h)
    PROVE  \E y : Step(h, y) /\ Left(y) < Left(turn[h])
  <1> DEFINE x == turn[h]
  <1>1. /\ TurnOK(x) /\ x.round \in 0..MaxRounds /\ x.calls \in 0..MaxCalls
        /\ MaxCalls \in Nat \ {0} /\ MaxRounds \in Nat \ {0}
    BY ChatAssumption DEF ChatInv, TurnOK, Turns
  <1>2. Left(Resting) = 0 /\ Left(Replying) = 1
    BY DEF Left, InTool, Resting, Replying, Free
  <1>3. \A r \in 1..MaxRounds : /\ Left(Free("think", r, 0)) = After(r) + Work
                                /\ \A n \in 0..MaxCalls :
                                    Left(Free("tools", r, n)) = After(r) + 5 * n + 1
    BY DEF Left, InTool, Free
  <1>4. ASSUME turn[h].at \in InTool \/ CallTool(h), ToolDone(h)
        PROVE  \E y : Step(h, y) /\ Left(y) < Left(x)
    BY <1>4, ReturnGetsOn DEF ToolDone, Step
  <1>5. ASSUME NEW at \in InTool, NEW z, GoHolding(h, at, z),
               \/ CallTool(h)
               \/ x.at \in InTool /\ ToolSteps(at) < ToolSteps(x.at)
        PROVE  \E y : Step(h, y) /\ Left(y) < Left(x)
    <2> DEFINE y == [at |-> at, round |-> turn[h].round, calls |-> turn[h].calls, held |-> z]
    <2>1. Step(h, y)
      BY <1>5 DEF GoHolding, Step
    <2>2. y.at = at /\ y.round = turn[h].round /\ y.calls = turn[h].calls
      OBVIOUS
    <2> HIDE DEF y
    <2>3. Left(y) < Left(x)
      BY <1>5, <2>2, GoGetsOn
    <2> QED  BY <2>1, <2>3
  <1>6. CASE Respond(h)
    <2>1. Left(x) = 1
      BY <1>6 DEF Respond, At, Left, InTool
    <2>2. Step(h, Resting)
      BY <1>6 DEF Respond, Step
    <2>3. Left(Resting) < Left(x)
      BY <1>2, <2>1
    <2> QED  BY <2>2, <2>3
  <1>7. CASE AgentEnds(h) \/ AgentCallsTools(h)
    <2>1. /\ x.at = "think" /\ x.round \in 1..MaxRounds /\ Left(x) = After(x.round) + Work
      BY <1>1, <1>7 DEF AgentEnds, AgentCallsTools, At, Left, InTool, TurnOK
    <2>2. After(x.round) \in Nat /\ Work = 5 * MaxCalls + 2 /\ After(x.round) >= 1
      BY <2>1, RoundShare DEF Work
    <2>3. CASE AgentEnds(h)
      <3>1. Step(h, Replying)
        BY <2>3 DEF AgentEnds, Step
      <3>2. Left(Replying) < Left(x)
        BY <1>1, <1>2, <2>1, <2>2
      <3> QED  BY <3>1, <3>2
    <2>4. CASE AgentCallsTools(h)
      <3>1. PICK n \in 1..MaxCalls : Step(h, Free("tools", x.round, n))
        BY <2>4 DEF AgentCallsTools, Step
      <3>2. Left(Free("tools", x.round, n)) = After(x.round) + 5 * n + 1
        BY <1>1, <1>3, <2>1
      <3>3. Left(Free("tools", x.round, n)) < Left(x)
        BY <1>1, <2>1, <2>2, <3>2
      <3> QED  BY <3>1, <3>3
    <2> QED  BY <1>7, <2>3, <2>4
  <1>8. CASE NextRound(h)
    <2>1. /\ x.at = "tools" /\ x.round \in 1..MaxRounds /\ x.calls = 0
          /\ Left(x) = After(x.round) + 1
      <3>1. x.at = "tools" /\ x.calls = 0 /\ x.round \in 1..MaxRounds
        BY <1>1, <1>8 DEF NextRound, At, TurnOK
      <3>2. After(x.round) \in Nat
        BY <3>1, RoundShare
      <3> QED  BY <3>1, <3>2 DEF Left, InTool
    <2>2. After(x.round) \in Nat /\ After(x.round) >= 1
      BY <2>1, RoundShare
    <2>3. CASE Round(h) <= MaxRounds
      <3>1. Step(h, Free("think", x.round + 1, 0)) /\ x.round + 1 \in 1..MaxRounds
        BY <1>1, <1>8, <2>1, <2>3 DEF NextRound, Step, Round
      <3>2. After(x.round) = After(x.round + 1) + Work
        BY <2>1, <3>1, RoundShare
      <3>3. Left(Free("think", x.round + 1, 0)) = After(x.round)
        BY <1>3, <3>1, <3>2
      <3> QED  BY <2>1, <2>2, <3>1, <3>3
    <2>4. CASE ~(Round(h) <= MaxRounds)
      <3>1. Step(h, Replying)
        BY <1>8, <2>4 DEF NextRound, Step
      <3> QED  BY <1>2, <2>1, <2>2, <3>1
    <2> QED  BY <2>3, <2>4
  <1>9. CASE Tool(h)
    <2>1. CASE ToolConfirms(h)
      <3>1. CallTool(h) /\ \E at \in {"confirm", "unlink"} : GoHolding(h, at, Held(h))
        BY <2>1 DEF ToolConfirms, Go
      <3>2. {"confirm", "unlink"} \subseteq InTool
        BY DEF InTool
      <3> QED  BY <1>5, <3>1, <3>2
    <2>2. CASE ~ToolConfirms(h)
      <3>1. CallTool(h) /\ ToolDone(h)
        BY <1>9, <2>2 DEF Tool, ToolReads, ToolCancelAction, ToolInitiateTransfer,
                          ToolInitiateUnlink, ToolFundWallet, ToolUpdateBankPriority
      <3> QED  BY <1>4, <3>1
    <2> QED  BY <2>1, <2>2
  <1>10. CASE Confirmation(h)
    <2>1. x.at \in InTool
      BY <1>10 DEF Confirmation, LoadTransfer, LookUp, TransferMade, TransferFails,
         ClearPending, LoadUnlink, DeleteUnlinked, At, InTool
    <2>2. \/ ToolDone(h)
          \/ x.at = "confirm" /\ \E z : GoHolding(h, "lookup", z)
          \/ x.at = "lookup" /\ \E at \in {"clear", "move"} : GoHolding(h, at, Held(h))
          \/ x.at = "move" /\ GoHolding(h, "clear", Held(h))
          \/ x.at = "unlink" /\ \E z : GoHolding(h, "delete", z)
          \/ x.at = "delete" /\ GoHolding(h, "clear", Held(h))
      BY <1>10 DEF Confirmation, LoadTransfer, LookUp, TransferMade, TransferFails,
         FailedTool, ClearPending, LoadUnlink, DeleteUnlinked, At, Go
    <2>3. \/ ToolDone(h)
          \/ \E at \in InTool : \E z :
                GoHolding(h, at, z) /\ ToolSteps(at) < ToolSteps(x.at)
      BY <2>2 DEF InTool, ToolSteps
    <2> QED  BY <1>4, <1>5, <2>1, <2>3
  <1> QED  BY <1>6, <1>7, <1>8, <1>9, <1>10 DEF Handle

\* The safety half of MessageAnswered, RunAgent, provider/llm/agent.go: from
\* the moment a message is taken up, every step of its handler brings it
\* nearer to the answer, whatever the model asks for and the tools return, and
\* nothing else moves it; so it is answered after Longest steps at the most.
THEOREM MessageIsBounded ==
    ChatSpec => /\ [](\A h \in Talk : Left(turn[h]) \in 0..Longest)
                /\ [][\A h \in Talk : \/ At(h, "idle")
                                      \/ Left(turn'[h]) < Left(turn[h])
                                      \/ turn'[h] = turn[h]]_<<bankvars, chatvars>>
  <1>1. ChatInv => \A h \in Talk : Left(turn[h]) \in 0..Longest
    BY WayLeft DEF ChatInv
  <1>2. ASSUME ChatInv, ChatNext, NEW h \in Talk
        PROVE  At(h, "idle") \/ Left(turn'[h]) < Left(turn[h]) \/ turn'[h] = turn[h]
    <2>1. \A g \in Talk : \A y : Step(g, y) => turn'[h] = IF g = h THEN y ELSE turn[h]
      BY <1>2 DEF Step, ChatInv, ChatTypeOK
    <2>2. ASSUME NEW g \in Talk, Handle(g)
          PROVE  Left(turn'[h]) < Left(turn[h]) \/ turn'[h] = turn[h]
      <3>1. PICK y : Step(g, y) /\ Left(y) < Left(turn[g])
        BY <1>2, <2>2, HandleGetsOn
      <3> QED  BY <2>1, <3>1
    <2>3. ASSUME NEW g \in Talk, Message(g)
          PROVE  At(h, "idle") \/ turn'[h] = turn[h]
      <3>1. At(g, "idle") /\ \E y : Step(g, y)
        BY <2>3 DEF Message, AskAgent, AskDirectly, SayYes, SayNo, Go, GoHolding, Step
      <3> QED  BY <2>1, <3>1
    <2>4. CASE ExpirePending \/ BanksMove
      BY <2>4 DEF ExpirePending, BanksMove, chatvars
    <2> QED  BY <1>2, <2>2, <2>3, <2>4 DEF ChatNext
  <1>3. ChatInv /\ [ChatNext]_<<bankvars, chatvars>> =>
            [\A h \in Talk : \/ At(h, "idle")
                             \/ Left(turn'[h]) < Left(turn[h])
                             \/ turn'[h] = turn[h]]_<<bankvars, chatvars>>
    BY <1>2
  <1> QED  BY <1>1, <1>3, ChatInvHolds, PTL DEF ChatSpec

=============================================================================
