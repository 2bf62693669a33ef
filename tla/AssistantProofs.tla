-------------------------- MODULE AssistantProofs --------------------------
(***************************************************************************)
(* Proofs about the chat history, for any messages and any length of the   *)
(* context, and about the assistant as the parts MCAssistant puts side by  *)
(* side.                                                                   *)
(***************************************************************************)
EXTENDS MCAssistant, ChatProofs, SequenceTheorems

----------------------------------------------------------------------------
(* The history.                                                            *)

\* Unless the last clear overlapped a message or failed, a cleared turn is in
\* none of the three places a turn comes back from: the table, the context,
\* except between the two deletions, and what a running message has loaded.
HistoryInv ==
    /\ HistTypeOK
    /\ stored \in Seq(Turn)
    /\ context \in Seq(Turn)
    /\ view \in [Turn -> Seq(Turn)]
    /\ \A m \in Turn : Len(view[m]) <= Keep
    /\ \A m \in cleared : stage[m] = "done"
    /\ ~raced =>
        /\ cleared \cap ToSet(stored) = {}
        /\ ~clearing => cleared \cap ToSet(context) = {}
        /\ \A m \in Turn : Running(m) => ~clearing /\ cleared \cap ToSet(view[m]) = {}

----------------------------------------------------------------------------

\* The turns of a sequence of turns.
LEMMA TurnsOf ==
    ASSUME NEW s \in Seq(Turn)
    PROVE  ToSet(s) \subseteq Turn /\ ToSet(s) = {s[i] : i \in 1..Len(s)}
  <1>1. DOMAIN s = 1..Len(s) /\ s \in [1..Len(s) -> Turn]
    BY LenProperties
  <1> QED  BY <1>1 DEF ToSet

\* The missing context.
LEMMA NoTurns == <<>> \in Seq(Turn) /\ Len(<<>>) = 0 /\ ToSet(<<>>) = {}
  <1>1. <<>> \in Seq(Turn) /\ Len(<<>>) = 0
    BY EmptySeq
  <1>2. ToSet(<<>>) = {}
    BY DEF ToSet
  <1> QED  BY <1>1, <1>2

\* Append adds the turn and no other.
LEMMA AppendedTurn ==
    ASSUME NEW s \in Seq(Turn), NEW m \in Turn
    PROVE  Append(s, m) \in Seq(Turn) /\ ToSet(Append(s, m)) \subseteq ToSet(s) \cup {m}
  <1>1. /\ Append(s, m) \in Seq(Turn) /\ Len(Append(s, m)) = Len(s) + 1
        /\ \A i \in 1..Len(s) : Append(s, m)[i] = s[i]
        /\ Append(s, m)[Len(s) + 1] = m
    BY AppendProperties
  <1>2. /\ Len(s) \in Nat /\ ToSet(s) = {s[i] : i \in 1..Len(s)}
        /\ ToSet(Append(s, m)) = {Append(s, m)[i] : i \in 1..Len(s) + 1}
    BY <1>1, LenProperties, TurnsOf
  <1>3. \A i \in 1..Len(s) + 1 : i = Len(s) + 1 \/ i \in 1..Len(s)
    BY <1>2
  <1> QED  BY <1>1, <1>2, <1>3

\* saveHistory and loadHistory keep the end of a conversation: no more than
\* Keep turns, and none that was not there.
LEMMA RecentTurns ==
    ASSUME NEW s \in Seq(Turn)
    PROVE  /\ Recent(s) \in Seq(Turn)
           /\ Len(Recent(s)) <= Keep
           /\ ToSet(Recent(s)) \subseteq ToSet(s)
  <1> DEFINE from == IF Len(s) > Keep THEN Len(s) - Keep + 1 ELSE 1
  <1>1. Len(s) \in Nat /\ Keep \in Nat /\ Keep > 0
    BY LenProperties, HistoryAssumption
  <1>2. from \in Nat /\ from >= 1 /\ Len(s) - from + 1 <= Keep
    BY <1>1
  <1>3. Recent(s) = SubSeq(s, from, Len(s))
    BY DEF Recent
  <1> HIDE DEF from
  <1>4. \A i \in from..Len(s) : s[i] \in Turn
    BY <1>1, <1>2, ElementOfSeq
  <1>5. /\ Recent(s) \in Seq(Turn)
        /\ Len(Recent(s)) = IF from <= Len(s) THEN Len(s) - from + 1 ELSE 0
        /\ \A i \in 1..Len(s) - from + 1 : Recent(s)[i] = s[from + i - 1]
    BY <1>1, <1>2, <1>3, <1>4, SubSeqProperties
  <1>6. ASSUME NEW i \in 1..Len(Recent(s))
        PROVE  Recent(s)[i] = s[from + i - 1] /\ from + i - 1 \in 1..Len(s)
    <2>1. Len(Recent(s)) = Len(s) - from + 1
      BY <1>1, <1>2, <1>5
    <2>2. i \in 1..(Len(s) - from + 1)
      BY <2>1
    <2> QED  BY <1>1, <1>2, <1>5, <2>2
  <1> QED  BY <1>1, <1>2, <1>5, <1>6, TurnsOf

\* The initial state satisfies the invariant.
LEMMA InitHistoryInv == HistInit => HistoryInv
  <1> SUFFICES ASSUME HistInit PROVE HistoryInv
    OBVIOUS
  <1>1. <<>> \in Seq(Turn) /\ Len(<<>>) = 0 /\ ToSet(<<>>) = {} /\ Keep \in Nat
    BY NoTurns, HistoryAssumption
  <1>2. \A m \in Turn : stage[m] = "new" /\ view[m] = <<>>
    BY DEF HistInit
  <1>3. HistTypeOK
    <2>1. /\ stored = <<>> /\ context = <<>> /\ cleared = {}
          /\ clearing \in BOOLEAN /\ raced \in BOOLEAN
      BY DEF HistInit
    <2>2. stage \in [Turn -> {"new", "warm", "ask", "persist", "persistError", "save", "done"}]
      BY DEF HistInit
    <2>3. ToSet(stored) = {} /\ ToSet(context) = {} /\ Len(context) = 0
      BY <1>1, <2>1
    <2>4. \A m \in Turn : ToSet(view[m]) = {}
      BY <1>1, <1>2
    <2>5. Len(context) <= Keep
      BY <1>1, <2>3
    <2> QED  BY <2>1, <2>2, <2>3, <2>4, <2>5 DEF HistTypeOK
  <1> QED  BY <1>1, <1>2, <1>3 DEF HistInit, HistoryInv, Running

\* What the steps of a message have in common: the message goes to another
\* stage, keeps its view, or drops or loads one; it may add itself to the
\* table and may write the context, neither with a turn that is new to it.
LEMMA MessageKeeps ==
    ASSUME HistoryInv, NEW m \in Turn, Running(m) \/ stage[m] = "new",
           NEW at \in {"ask", "warm", "persist", "persistError", "save", "done"},
           Advance(m, at),
           NEW turns \in Seq(Turn), Len(turns) <= Keep,
           view' = [view EXCEPT ![m] = turns],
           stored' \in Seq(Turn), context' \in Seq(Turn), Len(context') <= Keep,
           UNCHANGED <<clearing, cleared>>,
           raced' \in BOOLEAN, raced => raced', ~raced' /\ stage[m] = "new" => ~clearing,
           ~raced' => ToSet(stored') \subseteq ToSet(stored) \cup {m},
           ~raced' /\ ~clearing =>
                /\ cleared \cap ToSet(context') = {}
                /\ at # "done" => cleared \cap ToSet(turns) = {}
    PROVE  HistoryInv'
  <1>1. /\ stage' = [stage EXCEPT ![m] = at] /\ m \notin cleared
        /\ stage'[m] = at /\ \A q \in Turn \ {m} : stage'[q] = stage[q]
        /\ view'[m] = turns /\ \A q \in Turn \ {m} : view'[q] = view[q]
    BY DEF HistoryInv, HistTypeOK, Advance, Running
  <1>2. view' \in [Turn -> Seq(Turn)] /\ \A q \in Turn : Len(view'[q]) <= Keep
    BY <1>1 DEF HistoryInv
  <1>3. HistTypeOK'
    <2>1. ToSet(stored') \subseteq Turn /\ ToSet(context') \subseteq Turn
      BY TurnsOf
    <2>2. \A q \in Turn : ToSet(view'[q]) \subseteq Turn
      BY <1>2, TurnsOf
    <2> QED  BY <1>1, <2>1, <2>2 DEF HistoryInv, HistTypeOK
  <1>4. \A q \in cleared' : stage'[q] = "done"
    BY <1>1 DEF HistoryInv, HistTypeOK
  <1>5. ASSUME ~raced'
        PROVE  /\ cleared' \cap ToSet(stored') = {}
               /\ ~clearing' => cleared' \cap ToSet(context') = {}
               /\ \A q \in Turn :
                    Running(q)' => ~clearing' /\ cleared' \cap ToSet(view'[q]) = {}
    <2>1. ~raced /\ ~clearing
      BY <1>5 DEF HistoryInv
    <2> QED  BY <1>1, <1>5, <2>1 DEF HistoryInv, Running
  <1> QED  BY <1>2, <1>3, <1>4, <1>5 DEF HistoryInv

\* LoadHistory takes the context or the end of the table, which are clean
\* unless it runs into a clear.
LEMMA LoadHistoryKeeps ==
    ASSUME HistoryInv, NEW m \in Turn, LoadHistory(m)
    PROVE  HistoryInv'
  <1>1. PICK turns \in {context, Recent(stored), <<>>}, at \in {"ask", "warm"} :
            Loaded(m, turns) /\ Advance(m, at)
    BY DEF LoadHistory
  <1>2. /\ stage[m] = "new" /\ UNCHANGED <<stored, context, clearing, cleared>>
        /\ raced' = (raced \/ clearing)
    BY DEF LoadHistory, Noted
  <1>3. /\ stored \in Seq(Turn) /\ context \in Seq(Turn) /\ Len(context) <= Keep
        /\ raced \in BOOLEAN /\ clearing \in BOOLEAN
    BY DEF HistoryInv, HistTypeOK
  <1>4. /\ turns \in Seq(Turn) /\ Len(turns) <= Keep
        /\ ToSet(turns) \subseteq ToSet(stored) \cup ToSet(context)
    <2>1. <<>> \in Seq(Turn) /\ Len(<<>>) <= Keep /\ ToSet(<<>>) = {}
      BY NoTurns, HistoryAssumption
    <2>2. /\ Recent(stored) \in Seq(Turn) /\ Len(Recent(stored)) <= Keep
          /\ ToSet(Recent(stored)) \subseteq ToSet(stored)
      BY <1>3, RecentTurns
    <2>3. CASE turns = context
      BY <1>3, <2>3
    <2>4. CASE turns = Recent(stored)
      BY <2>2, <2>4
    <2>5. CASE turns = <<>>
      BY <2>1, <2>5
    <2> QED  BY <2>3, <2>4, <2>5
  <1>5. ~raced /\ ~clearing => cleared \cap (ToSet(stored) \cup ToSet(context)) = {}
    BY DEF HistoryInv
  <1>6. view' = [view EXCEPT ![m] = turns]
    BY <1>1 DEF Loaded
  <1> QED  BY <1>1, <1>2, <1>3, <1>4, <1>5, <1>6, MessageKeeps

\* Rewarm, Reply, PersistPair and SaveHistory are steps of a running message,
\* which no clear has begun beside.
LEMMA ServeHistoryKeeps ==
    ASSUME HistoryInv, NEW m \in Turn,
           Rewarm(m) \/ Reply(m) \/ PersistPair(m) \/ SaveHistory(m)
    PROVE  HistoryInv'
  <1>1. /\ Running(m) /\ stage[m] # "new" /\ UNCHANGED <<clearing, cleared, raced>>
        /\ stored \in Seq(Turn) /\ context \in Seq(Turn) /\ Len(context) <= Keep
        /\ view \in [Turn -> Seq(Turn)] /\ Len(view[m]) <= Keep
        /\ raced \in BOOLEAN /\ m \notin cleared
    BY DEF HistoryInv, HistTypeOK, Running, Rewarm, Reply, PersistPair, SaveHistory
  <1>2. ~raced => /\ ~clearing
                  /\ cleared \cap ToSet(context) = {}
                  /\ cleared \cap ToSet(view[m]) = {}
    BY <1>1 DEF HistoryInv
  <1>3. PICK at \in {"ask", "persist", "persistError", "save", "done"},
             turns \in {view[m], <<>>} :
            /\ Advance(m, at)
            /\ view' = [view EXCEPT ![m] = turns]
            /\ at # "done" => turns = view[m]
    <2>1. view = [view EXCEPT ![m] = view[m]]
      BY <1>1
    <2> QED  BY <2>1 DEF Rewarm, Reply, PersistPair, SaveHistory, Loaded
  <1>4. turns \in Seq(Turn) /\ Len(turns) <= Keep
    <2>1. <<>> \in Seq(Turn) /\ Len(<<>>) <= Keep
      BY NoTurns, HistoryAssumption
    <2>2. CASE turns = <<>>
      BY <2>1, <2>2
    <2> QED  BY <1>1, <2>2
  <1>5. stored' \in Seq(Turn) /\ ToSet(stored') \subseteq ToSet(stored) \cup {m}
    <2>1. stored' \in {Append(stored, m), stored}
      BY DEF Rewarm, Reply, PersistPair, SaveHistory
    <2>2. /\ Append(stored, m) \in Seq(Turn)
          /\ ToSet(Append(stored, m)) \subseteq ToSet(stored) \cup {m}
      BY <1>1, AppendedTurn
    <2> QED  BY <1>1, <2>1, <2>2
  <1>6. /\ context' \in Seq(Turn) /\ Len(context') <= Keep
        /\ ToSet(context') \subseteq ToSet(context) \cup ToSet(view[m]) \cup {m}
    <2>1. context' \in {context, view[m], Recent(Append(view[m], m))}
      BY DEF Rewarm, Reply, PersistPair, SaveHistory
    <2>2. view[m] \in Seq(Turn)
      BY <1>1
    <2>3. /\ Append(view[m], m) \in Seq(Turn)
          /\ ToSet(Append(view[m], m)) \subseteq ToSet(view[m]) \cup {m}
      BY <2>2, AppendedTurn
    <2>4. /\ Recent(Append(view[m], m)) \in Seq(Turn)
          /\ Len(Recent(Append(view[m], m))) <= Keep
          /\ ToSet(Recent(Append(view[m], m))) \subseteq ToSet(view[m]) \cup {m}
      BY <2>3, RecentTurns
    <2> QED  BY <1>1, <2>1, <2>2, <2>4
  <1>7. ~raced => cleared \cap ToSet(context') = {}
    BY <1>1, <1>2, <1>6
  <1> QED  BY <1>1, <1>2, <1>3, <1>4, <1>5, <1>6, <1>7, MessageKeeps

\* Clears and the expiry take turns away and add none.
LEMMA ClearKeeps ==
    ASSUME HistoryInv, ExpireContext \/ ClearRows \/ FlushContext \/ FlushFails
    PROVE  HistoryInv'
  <1>1. /\ UNCHANGED <<stage, view>>
        /\ stored' \in {stored, <<>>} /\ context' \in {context, <<>>}
        /\ clearing' \in BOOLEAN /\ raced' \in BOOLEAN
        /\ cleared' \in {cleared, cleared \cup {m \in Turn : stage[m] = "done"}}
    BY DEF HistoryInv, HistTypeOK, ExpireContext, ClearRows, FlushContext, FlushFails, Flushed
  <1>2. <<>> \in Seq(Turn) /\ Len(<<>>) = 0 /\ ToSet(<<>>) = {} /\ Keep \in Nat
    BY NoTurns, HistoryAssumption
  <1>3. HistTypeOK'
    BY <1>1, <1>2 DEF HistoryInv, HistTypeOK
  <1>4. /\ stored' \in Seq(Turn) /\ context' \in Seq(Turn) /\ view' \in [Turn -> Seq(Turn)]
        /\ \A m \in Turn : Len(view'[m]) <= Keep
        /\ \A m \in cleared' : stage'[m] = "done"
    BY <1>1, <1>2 DEF HistoryInv
  <1>5. ASSUME ~raced'
        PROVE  /\ cleared' \cap ToSet(stored') = {}
               /\ ~clearing' => cleared' \cap ToSet(context') = {}
               /\ \A m \in Turn :
                    Running(m)' => ~clearing' /\ cleared' \cap ToSet(view'[m]) = {}
    <2>1. ~FlushFails
      BY <1>5 DEF FlushFails
    <2>2. CASE ExpireContext
      BY <1>2, <1>5, <2>2 DEF ExpireContext, HistoryInv, Running
    <2>3. CASE ClearRows
      BY <1>2, <1>5, <2>3 DEF ClearRows, HistoryInv, Running
    <2>4. CASE FlushContext
      BY <1>2, <1>5, <2>4 DEF FlushContext, Flushed, HistoryInv, Running
    <2> QED  BY <2>1, <2>2, <2>3, <2>4
  <1> QED  BY <1>3, <1>4, <1>5 DEF HistoryInv

\* Every step of the history keeps the invariant.
LEMMA NextHistoryInv == HistoryInv /\ [HistNext]_histvars => HistoryInv'
  <1> SUFFICES ASSUME HistoryInv, [HistNext]_histvars PROVE HistoryInv'
    OBVIOUS
  <1>1. CASE UNCHANGED histvars
    BY <1>1 DEF histvars, HistoryInv, HistTypeOK, Running
  <1> QED  BY <1>1, LoadHistoryKeeps, ServeHistoryKeeps, ClearKeeps DEF HistNext

\* The inductive invariant of the chat history.
THEOREM HistoryInvAlways == HistSpec => []HistoryInv
  BY InitHistoryInv, NextHistoryInv, PTL DEF HistSpec

\* ClearHistory, handler/chat.go:361: what was cleared stays cleared, however
\* many messages there are and whatever expires, is rebuilt or fails, unless a
\* message and the last clear overlapped or its flush failed.
THEOREM ClearedStaysClearedAlways == HistSpec => []ClearedStaysCleared
  <1>1. HistoryInv => ClearedStaysCleared
    BY DEF HistoryInv, ClearedStaysCleared
  <1> QED  BY <1>1, HistoryInvAlways, PTL

----------------------------------------------------------------------------
(* The assistant: conversations, linked accounts and history side by side. *)

\* A behaviour of MCAssistant is one of every part, so what is proved of the
\* parts holds in the runs, and what a run refutes is refuted of a part.
THEOREM AssistantIsItsParts == MCSpec => ChatSpec /\ HistSpec
  <1>1. MCInit => ChatInit /\ HistInit
    BY DEF MCInit
  <1>2. [MCNext]_MCvars => [HistNext]_histvars
    BY DEF MCNext, MCvars, BanksAlone, TransfersTalked, UnlinksTalked, HistoryAlone
  <1>3. [MCNext]_MCvars => [ChatNext]_<<bankvars, chatvars>>
    <2>1. CASE BanksAlone
      BY <2>1 DEF BanksAlone, ChatNext, BanksMove, BankNext
    <2>2. CASE TransfersTalked
      BY <2>2 DEF TransfersTalked, Talks, ChatNext, Handle, Tool, Confirmation
    <2>3. CASE UnlinksTalked
      <3>1. a1 \in Number
        BY FocusAssumption DEF Number
      <3>2. CASE BanksMove
        BY <3>2 DEF ChatNext
      <3>3. (ExchangeCode(a1) \/ RowNext \/ \E id \in 1..lastId : UnlinkBank(id)) => BankNext
        BY <3>1 DEF BankNext, LinkNext
      <3> QED  BY <2>3, <3>1, <3>2, <3>3
               DEF UnlinksTalked, Talks, ChatNext, BanksMove, Handle, Tool, Confirmation
    <2>4. CASE HistoryAlone \/ UNCHANGED MCvars
      BY <2>4 DEF HistoryAlone, MCvars
    <2> QED  BY <2>1, <2>2, <2>3, <2>4 DEF MCNext
  <1> QED  BY <1>1, <1>2, <1>3, PTL DEF MCSpec, ChatSpec, HistSpec

\* The assistant keeps its types: handlers, plans, linked accounts, history.
THEOREM AssistantTypeCorrect == MCSpec => []AssistantTypeOK
  <1>1. ChatInv => ChatTypeOK /\ BankTypeOK
    BY DEF ChatInv, BankInv
  <1>2. HistoryInv => HistTypeOK
    BY DEF HistoryInv
  <1>3. ChatTypeOK /\ BankTypeOK /\ HistTypeOK => AssistantTypeOK
    BY DEF AssistantTypeOK
  <1> QED  BY <1>1, <1>2, <1>3, AssistantIsItsParts, ChatInvHolds, HistoryInvAlways, PTL

=============================================================================
