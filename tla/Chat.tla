-------------------------------- MODULE Chat --------------------------------
(***************************************************************************)
(* The assistant (handler/chat*.go, provider/llm/agent.go): messages of    *)
(* one user, answered by handlers that run at the same time and share the  *)
(* pending action in Redis, the linked accounts and the transfer service.  *)
(*                                                                         *)
(* A handler follows a keyword shortcut (round 0) or the agent loop, whose *)
(* model may call any tool at any time; tools that only read change        *)
(* nothing, and are one step.  InitiateTransfer is the lookup of the key   *)
(* and then its outcome; TransferService has the steps between.            *)
(***************************************************************************)
EXTENDS LinkedBanks

CONSTANTS
    Talk,       \* handler goroutines, each serving one message after another
    Plan,       \* arguments of initiate_transfer: the key is their hash
    MaxRounds,  \* maxIterations of the agent loop
    MaxCalls,   \* bound: tool calls in one answer of the model
    MaxPaid     \* bound: payouts of one key

ASSUME ChatAssumption ==
    /\ MaxRounds \in Nat \ {0}
    /\ MaxCalls \in Nat \ {0}
    /\ MaxPaid \in Nat
    /\ Plan \cap Nat = {}

VARIABLES
    pending,    \* Redis, chat:pending: a plan, the id of an account to unlink, or Nothing
    turn,       \* a handler: [at, round, calls, held], held being what it loaded
    ledger,     \* statuses of the committed parent rows of a key
    paid,       \* payouts accepted or simulated for a key
    sent,       \* history: plans somebody was told are done
    excused     \* history: plans confirmed twice at a time, or paid out by a
                \* transaction that was not committed

chatvars == <<pending, turn, ledger, paid, sent, excused>>

Nothing == 0

\* A handler that holds nothing.
Free(at, round, calls) == [at |-> at, round |-> round, calls |-> calls, held |-> Nothing]

Resting == Free("idle", 0, 0)

At(h, at) == turn[h].at = at

Held(h) == turn[h].held

\* A handler goes to another place, with what it has or has loaded.
GoHolding(h, at, x) ==
    turn' = [turn EXCEPT ![h] =
        [at |-> at, round |-> turn[h].round, calls |-> turn[h].calls, held |-> x]]

Go(h, at) == GoHolding(h, at, Held(h))

\* The shortcut or the agent has its reply.
Replying == Free("reply", 0, 0)

\* The tool returns, to the shortcut or to the agent loop.
AfterTool(h) ==
    IF turn[h].round = 0 THEN Replying
    ELSE Free("tools", turn[h].round, turn[h].calls - 1)

ToolDone(h) == turn' = [turn EXCEPT ![h] = AfterTool(h)]

Restful == UNCHANGED bankvars
Moneyless == UNCHANGED <<ledger, paid, sent, excused>>

ChatInit ==
    /\ BankInit
    /\ pending = Nothing
    /\ turn = [h \in Talk |-> Resting]
    /\ ledger = [t \in Plan |-> {}]
    /\ paid = [t \in Plan |-> 0]
    /\ sent = {}
    /\ excused = {}

-----------------------------------------------------------------------------
(* HandleMessage and the shortcuts.                                        *)

\* loadHistory, then the agent's prompt (which shows the pending action).
AskAgent(h) ==
    /\ At(h, "idle")
    /\ turn' = [turn EXCEPT ![h] = Free("think", 1, 0)]
    /\ UNCHANGED pending /\ Moneyless /\ Restful

\* help, balance and banks only read.
AskDirectly(h) ==
    /\ At(h, "idle")
    /\ Go(h, "reply")
    /\ UNCHANGED pending /\ Moneyless /\ Restful

\* "yes", or POST /chat/confirm: the kind of the pending action selects the
\* tool, which loads the action again.
SayYes(h) ==
    /\ At(h, "idle")
    /\ Go(h, IF pending = Nothing THEN "reply"
             ELSE IF pending \in Plan THEN "confirm" ELSE "unlink")
    /\ UNCHANGED pending /\ Moneyless /\ Restful

\* "no": what Redis says of the Del is not looked at.
SayNo(h) ==
    /\ At(h, "idle")
    /\ Go(h, "reply")
    /\ pending' \in {Nothing, pending}
    /\ Moneyless /\ Restful

\* persistPair and saveHistory (see ChatHistory), and the response.
Respond(h) ==
    /\ At(h, "reply")
    /\ turn' = [turn EXCEPT ![h] = Resting]
    /\ UNCHANGED pending /\ Moneyless /\ Restful

-----------------------------------------------------------------------------
(* RunAgent.                                                               *)

\* The call to the model fails, or its answer asks for no tool.
AgentEnds(h) ==
    /\ At(h, "think")
    /\ turn' = [turn EXCEPT ![h] = Replying]
    /\ UNCHANGED pending /\ Moneyless /\ Restful

AgentCallsTools(h) ==
    /\ At(h, "think")
    /\ \E n \in 1..MaxCalls :
            turn' = [turn EXCEPT ![h] = Free("tools", turn[h].round, n)]
    /\ UNCHANGED pending /\ Moneyless /\ Restful

\* Seeded fault: a round of tool calls is not counted.
RoundUncounted(h) == turn[h].round

Round(h) == turn[h].round + 1

\* All calls of the round are answered.
NextRound(h) ==
    /\ At(h, "tools")
    /\ turn[h].calls = 0
    /\ turn' = [turn EXCEPT ![h] =
            IF Round(h) <= MaxRounds THEN Free("think", Round(h), 0) ELSE Replying]
    /\ UNCHANGED pending /\ Moneyless /\ Restful

-----------------------------------------------------------------------------
(* The tools.                                                              *)

CallTool(h) == At(h, "tools") /\ turn[h].calls > 0

\* The tools that read, a refused call of any tool, and refresh_bank_balance:
\* GetByUserID does not select the token, so Mono knows no account it asks for.
ToolReads(h) ==
    /\ CallTool(h)
    /\ ToolDone(h)
    /\ UNCHANGED pending /\ Moneyless /\ Restful

\* initiate_transfer: whatever was pending is replaced.
ToolInitiateTransfer(h, t) ==
    /\ CallTool(h)
    /\ ToolDone(h)
    /\ pending' \in {t, pending}    \* the error of Set is not looked at
    /\ Moneyless /\ Restful

\* initiate_unlink, of a bank findBankByIdentifier finds.
ToolInitiateUnlink(h, n) ==
    /\ CallTool(h)
    /\ Linked(n)
    /\ ToolDone(h)
    /\ pending' \in {banks[n].id, pending}
    /\ Moneyless /\ Restful

\* cancel_transfer
ToolCancelAction(h) ==
    /\ CallTool(h)
    /\ ToolDone(h)
    /\ pending' \in {Nothing, pending}
    /\ Moneyless /\ Restful

\* update_bank_priority asks for 1 to 5.
ToolUpdateBankPriority(h, n, p) ==
    /\ CallTool(h)
    /\ Linked(n)
    /\ p \in 1..5
    /\ ToolDone(h)
    /\ UpdatePriority(banks[n].id, p)
    /\ UNCHANGED pending /\ Moneyless

\* fund_wallet
ToolFundWallet(h, n) ==
    /\ CallTool(h)
    /\ ToolDone(h)
    /\ TopUp(n)
    /\ UNCHANGED pending /\ Moneyless

\* confirm_transfer and confirm_unlink may be called with nothing shown.
ToolConfirms(h) ==
    /\ CallTool(h)
    /\ Go(h, "confirm") \/ Go(h, "unlink")
    /\ UNCHANGED pending /\ Moneyless /\ Restful

\* toolConfirmTransfer loads the action.  If it has expired, is of the other
\* kind, or Redis fails, it is an error.
LoadTransfer(h) ==
    /\ At(h, "confirm")
    /\ \/ pending \in Plan /\ GoHolding(h, "lookup", pending)
       \/ ToolDone(h)
    /\ UNCHANGED pending /\ Moneyless /\ Restful

\* Seeded fault: every confirmation has a key of its own.
FreshKey(t) == {}

\* Committed rows with the key of plan t.
RowsWithKey(t) == ledger[t]

\* InitiateTransfer looks the key up.  Any row is the answer, with no error,
\* whatever its status.
LookUp(h) ==
    /\ At(h, "lookup")
    /\ IF RowsWithKey(Held(h)) # {}
       THEN Go(h, "clear") /\ sent' = sent \cup {Held(h)} /\ UNCHANGED excused
       ELSE /\ Go(h, "move")
            /\ excused' = excused \cup
                 {t \in Plan : \E g \in Talk \ {h} : At(g, "move") /\ Held(g) = t /\ Held(h) = t}
            /\ UNCHANGED sent
    /\ UNCHANGED <<pending, ledger, paid>> /\ Restful

\* The payout goes out, and the row COMPLETED commits or is lost; the caller
\* is told "success" either way.
TransferMade(h) ==
    /\ At(h, "move")
    /\ paid[Held(h)] < MaxPaid
    /\ paid' = [paid EXCEPT ![Held(h)] = @ + 1]
    /\ \/ ledger' = [ledger EXCEPT ![Held(h)] = @ \cup {"COMPLETED"}] /\ UNCHANGED excused
       \/ excused' = excused \cup {Held(h)} /\ UNCHANGED ledger
    /\ sent' = sent \cup {Held(h)}
    /\ Go(h, "clear")
    /\ UNCHANGED pending /\ Restful

\* Seeded fault: the error is logged and the answer built all the same.
FailedToolUnchecked(h) == Go(h, "clear") /\ sent' = sent \cup {Held(h)}

FailedTool(h) == ToolDone(h) /\ UNCHANGED sent

\* InitiateTransfer fails: before any row; in a debit leg, which commits the
\* row PENDING; in the payout, which commits it FAILED whether or not
\* Paystack has accepted it; or later, with the payout out and no row.
TransferFails(h) ==
    /\ At(h, "move")
    /\ \/ \E left \in {{}, {"PENDING"}, {"FAILED"}} :
            /\ ledger' = [ledger EXCEPT ![Held(h)] = @ \cup left]
            /\ UNCHANGED <<paid, excused>>
       \/ /\ paid[Held(h)] < MaxPaid
          /\ paid' = [paid EXCEPT ![Held(h)] = @ + 1]
          /\ \/ ledger' = [ledger EXCEPT ![Held(h)] = @ \cup {"FAILED"}] /\ UNCHANGED excused
             \/ excused' = excused \cup {Held(h)} /\ UNCHANGED ledger
    /\ FailedTool(h)
    /\ UNCHANGED pending /\ Restful

\* clearPending deletes whatever is pending by now.
ClearPending(h) ==
    /\ At(h, "clear")
    /\ pending' \in {Nothing, pending}
    /\ ToolDone(h)
    /\ Moneyless /\ Restful

\* toolConfirmUnlink
LoadUnlink(h) ==
    /\ At(h, "unlink")
    /\ \/ pending \in Nat \ {Nothing} /\ GoHolding(h, "delete", pending)
       \/ ToolDone(h)
    /\ UNCHANGED pending /\ Moneyless /\ Restful

\* Its Delete, which may fail.
DeleteUnlinked(h) ==
    /\ At(h, "delete")
    /\ \/ UnlinkBank(Held(h)) /\ Go(h, "clear")
       \/ ToolDone(h) /\ Restful
    /\ UNCHANGED pending /\ Moneyless

-----------------------------------------------------------------------------

\* The pending action expires after ten minutes.
ExpirePending ==
    /\ pending # Nothing
    /\ pending' = Nothing
    /\ UNCHANGED turn /\ Moneyless /\ Restful

Message(h) == AskAgent(h) \/ AskDirectly(h) \/ SayYes(h) \/ SayNo(h)

Confirmation(h) ==
    \/ LoadTransfer(h) \/ LookUp(h) \/ TransferMade(h) \/ TransferFails(h)
    \/ ClearPending(h) \/ LoadUnlink(h) \/ DeleteUnlinked(h)

Tool(h) ==
    \/ ToolReads(h) \/ ToolCancelAction(h) \/ ToolConfirms(h)
    \/ \E t \in Plan : ToolInitiateTransfer(h, t)
    \/ \E n \in Number :
        \/ ToolInitiateUnlink(h, n) \/ ToolFundWallet(h, n)
        \/ \E p \in Priorities : ToolUpdateBankPriority(h, n, p)

Handle(h) ==
    \/ AgentEnds(h) \/ AgentCallsTools(h) \/ NextRound(h)
    \/ Tool(h) \/ Confirmation(h) \/ Respond(h)

BanksMove == BankNext /\ UNCHANGED chatvars

ChatNext == ExpirePending \/ BanksMove \/ \E h \in Talk : Message(h) \/ Handle(h)

\* A goroutine keeps running, and every call it makes ends, if only because
\* the request's context does after thirty seconds.
ChatFairness == \A h \in Talk : WF_<<bankvars, chatvars>>(Handle(h))

ChatSpec == ChatInit /\ [][ChatNext]_<<bankvars, chatvars>> /\ ChatFairness

-----------------------------------------------------------------------------

Places == {"idle", "think", "tools", "confirm", "lookup", "move", "clear",
           "unlink", "delete", "reply"}

Actions == Plan \cup {Nothing} \cup 1..lastId

\* Types of the assistant.
ChatTypeOK ==
    /\ pending \in Actions
    /\ turn \in [Talk -> [at : Places, round : 0..MaxRounds, calls : 0..MaxCalls, held : Actions]]
    /\ ledger \in [Plan -> SUBSET {"PENDING", "FAILED", "COMPLETED"}]
    /\ paid \in [Plan -> 0..MaxPaid]
    /\ sent \subseteq Plan
    /\ excused \subseteq Plan

\* toolConfirmTransfer, handler/chat_tools.go:265.  Who is told that a transfer
\* is done has had it paid out, unless an earlier attempt has failed and left
\* its row: the second "yes" finds that row and is told of a success nobody
\* had, and the pending action is cleared.
SuccessWasPaid ==
    \A t \in sent : paid[t] > 0 \/ ledger[t] \cap {"PENDING", "FAILED"} # {}

\* toolInitiateTransfer, handler/chat_tools.go:240.  One plan is paid out at
\* most once, over any number of messages, repeats, failures and expiries, as
\* long as two confirmations do not run at once and no payout is lost with
\* its transaction.  (So the same transfer, wanted again a month later, is
\* reported as done and never made.)
PaidOncePerKey == \A t \in Plan \ excused : paid[t] <= 1

\* HandleMessage, handler/chat.go:115, and RunAgent.  Every message is
\* answered, however often the model asks for tools.
MessageAnswered == \A h \in Talk : ~At(h, "idle") ~> At(h, "idle")

-----------------------------------------------------------------------------

Times(n) == IF n = 0 THEN "never" ELSE IF n = 1 THEN "once" ELSE "again"

Payouts == [t \in Plan |-> Times(paid[t])]

\* Handlers in InitiateTransfer, past its lookup, each with its plan.
Movers == {<<h, Held(h)>> : h \in {g \in Talk : At(g, "move")}}

Keys == INSTANCE KeyLedger
    WITH Caller <- Talk, Key <- Plan, moving <- Movers, rows <- ledger, paid <- Payouts

\* What LookUp, TransferMade and TransferFails take InitiateTransfer to do is
\* what TransferService is shown to do with a key.
KeepsKeyLedger == Keys!Spec

=============================================================================
