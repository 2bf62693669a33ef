----------------------------- MODULE LinkedBanks -----------------------------
(***************************************************************************)
(* The linked bank accounts of one user: the REST handlers of              *)
(* handler/bank.go over bank_account_repo.go, with Mono and Redis.         *)
(*                                                                         *)
(* A stored balance is one of: "own", the balance of the account in kobo;  *)
(* "hundredfold", that number times a hundred; "foreign", the balance of   *)
(* another account of the customer; "none", the zero of an answer without  *)
(* data.  A provider token is the id of a Mono customer or of an account.  *)
(***************************************************************************)
EXTENDS Integers

CONSTANTS
    Account,    \* account numbers of the user
    Unnumbered, \* the empty account number
    Priorities, \* values UpdatePriority is asked to store; 5 is the default
    MaxId       \* bound: rows ever inserted

ASSUME BanksAssumption ==
    /\ Unnumbered \notin Account
    /\ 5 \in Priorities
    /\ MaxId \in Nat

VARIABLES
    banks,      \* the bank_accounts row of an account number, or NoRow
    lastId,     \* ids given out
    topped,     \* ids bank_fund_requests refers to
    session,    \* Redis, mono:ref:<ref>: "none", "empty" or "customer"
    listed,     \* accounts Mono lists for the customer
    linking,    \* CompleteLink: [at, left], the accounts it has yet to save
    refresh,    \* RefreshBalance: [at, number, id, token, balance]
    gone,       \* history: ids somebody was told are unlinked
    strayed     \* history: ids of rows whose account went off Mono's list

bankvars ==
    <<banks, lastId, topped, session, listed, linking, refresh, gone, strayed>>

Number == Account \cup {Unnumbered}

NoRow == [id |-> 0, priority |-> 0, balance |-> "none", token |-> "none"]

Idle ==
    [at |-> "idle", number |-> Unnumbered, id |-> 0, token |-> "none", balance |-> "none"]

Linked(n) == banks[n].id # 0

LinkedIds == {banks[n].id : n \in {m \in Number : Linked(m)}}

BankInit ==
    /\ banks = [n \in Number |-> NoRow]
    /\ lastId = 0
    /\ topped = {}
    /\ session = "none"
    /\ listed = {}
    /\ linking = [at |-> "idle", left |-> {}]
    /\ refresh = Idle
    /\ gone = {}
    /\ strayed = {}

-----------------------------------------------------------------------------
(* bank_account_repo.go                                                    *)

\* INSERT ... ON CONFLICT (user_id, account_number): an existing row keeps its
\* id and its priority.
CreateBank(n, token, balance) ==
    IF Linked(n)
    THEN /\ banks' = [banks EXCEPT ![n].balance = balance, ![n].token = token]
         /\ UNCHANGED lastId
    ELSE /\ lastId < MaxId
         /\ lastId' = lastId + 1
         /\ banks' = [banks EXCEPT ![n] =
                [id |-> lastId + 1, priority |-> 5, balance |-> balance, token |-> token]]

\* What UPDATE ... WHERE id finds: no row is no error.
OfId(id) == {n \in Number : Linked(n) /\ banks[n].id = id}

WithPriority(id, p) ==
    [n \in Number |-> IF n \in OfId(id) THEN [banks[n] EXCEPT !.priority = p] ELSE banks[n]]

WithBalance(id, b) ==
    [n \in Number |-> IF n \in OfId(id) THEN [banks[n] EXCEPT !.balance = b] ELSE banks[n]]

\* Seeded fault: the error of the statement, which the foreign key refuses, is
\* dropped.
DeletableUnchecked(id) == TRUE

\* The foreign key of bank_fund_requests refuses to lose its row.
Deletable(id) == id \notin topped

\* DELETE ... WHERE id, of no row too, and what the caller says then.
DeleteBank(id) ==
    /\ Deletable(id)
    /\ banks' = [n \in Number |->
            IF banks[n].id = id /\ id \notin topped THEN NoRow ELSE banks[n]]
    /\ gone' = gone \cup {id}

-----------------------------------------------------------------------------
(* handler/bank.go                                                         *)

\* Mono may answer without a customer; the ref is stored all the same.
InitiateLink ==
    /\ session' \in {"empty", "customer"}
    /\ UNCHANGED <<banks, lastId, topped, listed, linking, refresh, gone, strayed>>

\* The ref expires after thirty minutes.
ExpireRef ==
    /\ session # "none"
    /\ session' = "none"
    /\ UNCHANGED <<banks, lastId, topped, listed, linking, refresh, gone, strayed>>

\* CompleteLink up to GetCustomerAccounts; a missing or an empty session and
\* an empty list are refused.
CompleteLink ==
    /\ linking.at = "idle"
    /\ session = "customer"
    /\ listed # {}
    /\ linking' = [at |-> "saving", left |-> listed]
    /\ UNCHANGED <<banks, lastId, topped, session, listed, refresh, gone, strayed>>

\* One round of its loop: the row is written, with Mono's balance as it is, or
\* the error is logged.  The answer it goes through may be out of date.
SaveAccount(a) ==
    /\ linking.at = "saving"
    /\ a \in linking.left
    /\ linking' = [linking EXCEPT !.left = @ \ {a}]
    /\ \/ /\ CreateBank(a, "customer", "own")
          /\ strayed' = IF a \in listed THEN strayed ELSE strayed \cup {banks'[a].id}
       \/ UNCHANGED <<banks, lastId, strayed>>
    /\ UNCHANGED <<topped, session, listed, refresh, gone>>

\* rdb.Del of the ref, then the answer.
FinishLink ==
    /\ linking.at = "saving"
    /\ linking.left = {}
    /\ linking' = [linking EXCEPT !.at = "idle"]
    /\ session' \in {session, "none"}
    /\ UNCHANGED <<banks, lastId, topped, listed, refresh, gone, strayed>>

\* NewAmount multiplies by a hundred what Mono gives in kobo.  SyncAccount
\* looks at no status: of an answer without data, a row without a number is
\* made.
ExchangeCode(n) ==
    /\ CreateBank(n, "account", IF n = Unnumbered THEN "none" ELSE "hundredfold")
    /\ UNCHANGED <<topped, session, listed, linking, refresh, gone, strayed>>

\* Whatever number the body holds; the validate tag is never consulted, and
\* nobody asks whose row it is.
UpdatePriority(id, p) ==
    /\ banks' = WithPriority(id, p)
    /\ UNCHANGED <<lastId, topped, session, listed, linking, refresh, gone, strayed>>

UnlinkBank(id) ==
    /\ DeleteBank(id)
    /\ UNCHANGED <<lastId, topped, session, listed, linking, refresh, strayed>>

\* RefreshBalance reads the row, the token with it.
RefreshRead(n) ==
    /\ refresh.at = "idle"
    /\ Linked(n)
    /\ refresh' = [Idle EXCEPT !.at = "ask", !.number = n,
                               !.id = banks[n].id, !.token = banks[n].token]
    /\ UNCHANGED <<banks, lastId, topped, session, listed, linking, gone, strayed>>

\* Seeded fault: the first account is taken without the search for the number.
FoundFirst(n) == {IF a = n THEN "own" ELSE "foreign" : a \in listed}

\* The account with the row's number; without one, the first of the list.
Found(n) == IF n \in listed THEN {"own"} ELSE {"foreign" : a \in listed}

\* GetBalance knows account ids only.  For a customer id Mono answers 404,
\* and the accounts of the customer are searched instead.
RefreshAsk ==
    /\ refresh.at = "ask"
    /\ \/ \E b \in IF refresh.token = "account" THEN {"own"} ELSE Found(refresh.number) :
            refresh' = [Idle EXCEPT !.at = "store", !.id = refresh.id, !.balance = b]
       \/ refresh' = Idle
    /\ UNCHANGED <<banks, lastId, topped, session, listed, linking, gone, strayed>>

\* UpdateBalance, by the id that was read; it may fail.
RefreshStore ==
    /\ refresh.at = "store"
    /\ banks' \in {banks, WithBalance(refresh.id, refresh.balance)}
    /\ refresh' = Idle
    /\ UNCHANGED <<lastId, topped, session, listed, linking, gone, strayed>>

\* FundFromBank (see BankFunding) records a request for the account.
TopUp(n) ==
    /\ Linked(n)
    /\ topped' = topped \cup {banks[n].id}
    /\ UNCHANGED <<banks, lastId, session, listed, linking, refresh, gone, strayed>>

\* The customer connects an account, for the first time or again, on the page
\* of Mono that InitiateLink opens.
Connect(a) ==
    /\ a \notin listed
    /\ listed' = listed \cup {a}
    /\ UNCHANGED <<banks, lastId, topped, session, linking, refresh, gone, strayed>>

\* The customer takes an account away from Mono.
Revoke(a) ==
    /\ a \in listed
    /\ listed' = listed \ {a}
    /\ strayed' = strayed \cup {banks[n].id : n \in {m \in {a} : Linked(m)}}
    /\ UNCHANGED <<banks, lastId, topped, session, linking, refresh, gone>>

LinkNext ==
    \/ InitiateLink \/ ExpireRef \/ CompleteLink \/ FinishLink
    \/ RefreshAsk \/ RefreshStore
    \/ \E a \in Account : SaveAccount(a) \/ Connect(a) \/ Revoke(a)
    \/ \E n \in Number : ExchangeCode(n) \/ RefreshRead(n)
    \/ \E id \in 1..lastId : UnlinkBank(id)

RowNext ==
    \/ \E n \in Number : TopUp(n)
    \/ \E id \in 1..lastId, p \in Priorities : UpdatePriority(id, p)

BankNext == LinkNext \/ RowNext

BankSpec == BankInit /\ [][BankNext]_bankvars

-----------------------------------------------------------------------------

Balances == {"none", "own", "hundredfold", "foreign"}

Tokens == {"account", "customer"}

BankRows ==
    [id : 1..lastId, priority : Priorities, balance : Balances, token : Tokens]
        \cup {NoRow}

\* Types of the linked accounts.
BankTypeOK ==
    /\ banks \in [Number -> BankRows]
    /\ lastId \in 0..MaxId
    /\ topped \subseteq 1..lastId
    /\ session \in {"none", "empty", "customer"}
    /\ listed \subseteq Account
    /\ linking \in [at : {"idle", "saving"}, left : SUBSET Account]
    /\ refresh \in [at : {"idle", "ask", "store"}, number : Number, id : 0..lastId,
                    token : Tokens \cup {"none"}, balance : Balances]
    /\ gone \subseteq 1..lastId
    /\ strayed \subseteq 1..lastId

\* CompleteLink, ExchangeCode and RefreshBalance, handler/bank.go:173, 253 and
\* 459.  The stored balance, from which transfers are planned, is the kobo
\* balance of the row's own account, however links, refreshes and changes at
\* Mono interleave, with two exceptions.  A row of ExchangeCode has a hundred
\* times the balance, until it is refreshed or linked again; no other row has.
\* And a row may have another account's balance if its own account was off
\* Mono's list at some time since the row was made: the balance stays when the
\* account is connected again, until the row is saved or refreshed, but never
\* comes to the new row of an account unlinked and linked again, not from a
\* refresh that was under way either.
BalanceIsOwn ==
    \A n \in Number :
        /\ banks[n].balance = "hundredfold" => banks[n].token = "account"
        /\ banks[n].balance = "foreign" => banks[n].id \in strayed

\* UnlinkBank and confirm_unlink, handler/bank.go:400 and chat_tools.go:446.
\* What somebody was told is unlinked is not linked, even if it was topped up
\* from or unlinked by two at once; an account linked again has another id.
UnlinkedIsGone == gone \cap LinkedIds = {}

=============================================================================
