---------------------------- MODULE MCAssistant ----------------------------
(***************************************************************************)
(* The assistant for TLC.  A behaviour follows one part, chosen by         *)
(* `focus`, and what is explored is the sum of the parts: the linked       *)
(* accounts alone; conversations about transfers; conversations about      *)
(* accounts, with handlers that disturb them; and the chat history, which  *)
(* shares no state with the others.                                        *)
(***************************************************************************)
EXTENDS Chat, ChatHistory

CONSTANTS a1, a2, t1, h1, h2, m1, m2, m3

MCAccount == {a1, a2}
MCPlan == {t1}
MCTalk == {h1, h2}
MCTurn == {m1, m2, m3}

\* The account the conversations about accounts are held about.
ASSUME FocusAssumption == a1 \in Account

VARIABLE focus

MCvars == <<focus, bankvars, chatvars, histvars>>

MCInit ==
    /\ focus \in {"banks", "transfers", "unlinks", "history"}
    /\ ChatInit /\ HistInit

\* Priorities and top-ups, which these handlers ignore, come below.
BanksAlone == focus = "banks" /\ LinkNext /\ UNCHANGED <<focus, chatvars, histvars>>

\* The messages, the agent loop, and the tools both conversations share.
Talks(h) ==
    \/ Message(h) \/ AgentEnds(h) \/ AgentCallsTools(h) \/ NextRound(h) \/ Respond(h)
    \/ ToolReads(h) \/ ToolCancelAction(h) \/ ToolConfirms(h) \/ ClearPending(h)

TransfersTalked ==
    /\ focus = "transfers"
    /\ \/ ExpirePending
       \/ \E h \in Talk :
            \/ Talks(h) \/ Confirmation(h)
            \/ \E t \in Plan : ToolInitiateTransfer(h, t)
    /\ UNCHANGED <<focus, histvars>>

\* One account, which is linked with a code and unlinked behind the
\* assistant's back.
UnlinksTalked ==
    /\ focus = "unlinks"
    /\ \/ ExpirePending
       \/ /\ ExchangeCode(a1) \/ RowNext \/ \E id \in 1..lastId : UnlinkBank(id)
          /\ UNCHANGED chatvars
       \/ \E h \in Talk :
            \/ Talks(h) \/ Confirmation(h)
            \/ ToolInitiateUnlink(h, a1) \/ ToolFundWallet(h, a1)
            \/ \E p \in Priorities : ToolUpdateBankPriority(h, a1, p)
    /\ UNCHANGED <<focus, histvars>>

HistoryAlone == focus = "history" /\ HistNext /\ UNCHANGED <<focus, bankvars, chatvars>>

MCNext == BanksAlone \/ TransfersTalked \/ UnlinksTalked \/ HistoryAlone

\* A part at rest has no step that is fair.
MCSpec == MCInit /\ [][MCNext]_MCvars /\ ChatFairness

\* The types of the parts.
AssistantTypeOK == ChatTypeOK /\ BankTypeOK /\ HistTypeOK

=============================================================================
