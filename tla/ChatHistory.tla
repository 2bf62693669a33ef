---------------------------- MODULE ChatHistory ----------------------------
(***************************************************************************)
(* The memory of the assistant: the chat_messages table, which is kept,    *)
(* and the model's context in Redis, a copy of its end that each message   *)
(* reads first, writes back last, and DELETE /chat/history flushes.        *)
(* A turn, the user's text and the reply, is named by its message; the two *)
(* rows of a turn, written one after the other, are not told apart.        *)
(***************************************************************************)
EXTENDS Naturals, SequencesExt

CONSTANTS
    Turn,       \* messages sent, each a turn of the conversation
    Keep        \* turns a context keeps: maxHistoryMessages / 2

ASSUME HistoryAssumption == Keep \in Nat \ {0}

VARIABLES
    stored,     \* chat_messages, oldest first
    context,    \* Redis, chat:history: turns, oldest first; empty when missing
    stage,      \* stage of a message
    view,       \* the history a message has loaded
    clearing,   \* ClearHistory is between the two deletions
    cleared,    \* history: turns that were answered when a clear began
    raced       \* history: the last clear overlapped a message, or its Del failed

histvars == <<stored, context, stage, view, clearing, cleared, raced>>

Running(m) == stage[m] \notin {"new", "done"}

HistInit ==
    /\ stored = <<>>
    /\ context = <<>>
    /\ stage = [m \in Turn |-> "new"]
    /\ view = [m \in Turn |-> <<>>]
    /\ clearing = FALSE
    /\ cleared = {}
    /\ raced = FALSE

Advance(m, at) == stage' = [stage EXCEPT ![m] = at]

Loaded(m, turns) == view' = [view EXCEPT ![m] = turns]

Noted == raced' = (raced \/ clearing)

\* Seeded fault: the context grows with the conversation.
Untrimmed(turns) == turns

\* saveHistory trims to the most recent.
Recent(turns) ==
    SubSeq(turns, IF Len(turns) > Keep THEN Len(turns) - Keep + 1 ELSE 1, Len(turns))

\* loadHistory finds the context, or else, if Redis has none or fails, reads
\* the table, which may fail too.
LoadHistory(m) ==
    /\ stage[m] = "new"
    /\ \/ context # <<>> /\ Loaded(m, context) /\ Advance(m, "ask")
       \/ stored # <<>> /\ Loaded(m, Recent(stored)) /\ Advance(m, "warm")
       \/ Loaded(m, <<>>) /\ Advance(m, "ask")
    /\ Noted
    /\ UNCHANGED <<stored, context, clearing, cleared>>

\* "Re-warm Redis so next request hits cache."
Rewarm(m) ==
    /\ stage[m] = "warm"
    /\ context' \in {view[m], context}
    /\ Advance(m, "ask")
    /\ UNCHANGED <<stored, view, clearing, cleared, raced>>

\* The shortcut or the agent has its reply; a failed agent's is not saved.
Reply(m) ==
    /\ stage[m] = "ask"
    /\ Advance(m, "persist") \/ Advance(m, "persistError")
    /\ UNCHANGED <<stored, context, view, clearing, cleared, raced>>

\* persistPair; its errors are logged.
PersistPair(m) ==
    /\ stage[m] \in {"persist", "persistError"}
    /\ stored' \in {Append(stored, m), stored}
    /\ IF stage[m] = "persist" THEN Advance(m, "save") /\ UNCHANGED view
       ELSE Advance(m, "done") /\ Loaded(m, <<>>)
    /\ UNCHANGED <<context, clearing, cleared, raced>>

\* saveHistory of what was loaded when the message began, and its own turn.
SaveHistory(m) ==
    /\ stage[m] = "save"
    /\ context' \in {Recent(Append(view[m], m)), context}
    /\ Advance(m, "done")
    /\ Loaded(m, <<>>)
    /\ UNCHANGED <<stored, clearing, cleared, raced>>

\* The context expires after two hours.
ExpireContext ==
    /\ context # <<>>
    /\ context' = <<>>
    /\ UNCHANGED <<stored, stage, view, clearing, cleared, raced>>

\* ClearHistory deletes the rows ...
ClearRows ==
    /\ ~clearing
    /\ stored' = <<>>
    /\ clearing' = TRUE
    /\ cleared' = cleared \cup {m \in Turn : stage[m] = "done"}
    /\ raced' = \E m \in Turn : Running(m)
    /\ UNCHANGED <<context, stage, view>>

\* Seeded fault: the flush is forgotten.
FlushedNot == {context}

Flushed == {<<>>}

\* ... and then flushes the context.
FlushContext ==
    /\ clearing
    /\ clearing' = FALSE
    /\ context' \in Flushed
    /\ UNCHANGED <<stored, stage, view, cleared, raced>>

\* The error of the Del is not looked at.
FlushFails ==
    /\ clearing
    /\ clearing' = FALSE
    /\ raced' = TRUE
    /\ UNCHANGED <<stored, context, stage, view, cleared>>

HistNext ==
    \/ ExpireContext \/ ClearRows \/ FlushContext \/ FlushFails
    \/ \E m \in Turn :
        LoadHistory(m) \/ Rewarm(m) \/ Reply(m) \/ PersistPair(m) \/ SaveHistory(m)

HistSpec == HistInit /\ [][HistNext]_histvars

-----------------------------------------------------------------------------

\* Types of the history; a context has at most Keep turns.
HistTypeOK ==
    /\ ToSet(stored) \subseteq Turn
    /\ ToSet(context) \subseteq Turn
    /\ Len(context) <= Keep
    /\ stage \in [Turn -> {"new", "warm", "ask", "persist", "persistError", "save", "done"}]
    /\ \A m \in Turn : ToSet(view[m]) \subseteq Turn
    /\ clearing \in BOOLEAN
    /\ cleared \subseteq Turn
    /\ raced \in BOOLEAN

\* ClearHistory, handler/chat.go:361.  A cleared turn does not come back into
\* the table or into the context of a later message, whatever expires or is
\* rebuilt, if the flush worked and no message was in flight during the last
\* clear: one that has loaded the old context writes it back when it ends, and
\* the next clear, when nobody is in flight, removes it again.
ClearedStaysCleared ==
    ~raced /\ ~clearing =>
        cleared \cap (ToSet(stored) \cup ToSet(context)) = {}

=============================================================================
