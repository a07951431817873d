----------------------------- MODULE AgentLoop -----------------------------
(***************************************************************************)
(* One conversation and the agent invocations that run on it               *)
(* (engine/agent_loop.rs, run_agent_loop_with_vault) together with the     *)
(* compaction each of them may perform (compaction/engine.rs).             *)
(*                                                                         *)
(* Every SQL statement is a step of its own: an invocation has its own     *)
(* SQLite connection, the loop uses no transaction, and nothing keeps two  *)
(* invocations of one conversation apart (two Slack messages in a thread,  *)
(* two chat calls with one conversation_id).                               *)
(***************************************************************************)
EXTENDS Integers, Sequences, CompactionCuts

CONSTANTS
  Invocations,     \* the calls of the agent loop, numbered as they begin; each runs once
  MaxConcurrent,   \* how many of them may run at a time
  ContextWindow,   \* tokens of the model's context window
  ThresholdPct,    \* compaction starts at this share of the window
  ProtectedTurns,  \* recent turns a compaction leaves alone
  PromptTokens,    \* tokens of the system prompt
  TurnTokens,      \* sizes a turn may have
  SummaryTokens,   \* sizes a summary may have
  MaxIterations,   \* LLM calls of one invocation (10 in the code)
  MaxToolCalls,    \* bound: tool calls in one LLM response
  MaxFaults        \* bound: failing statements and crashes

(***************************************************************************)
(* CompactionConfig's validators admit 1 to 20 protected turns.            *)
(***************************************************************************)
ASSUME ConcurrencyAssumption ==
  /\ Invocations \subseteq Nat
  /\ IsFiniteSet(Invocations)
  /\ MaxConcurrent \in Nat \ {0}
ASSUME ConfigAssumption ==
  /\ ContextWindow \in Nat
  /\ ThresholdPct \in 50 .. 100
  /\ ProtectedTurns \in 1 .. 20
  /\ PromptTokens \in Nat
ASSUME SizesAssumption == TurnTokens \subseteq Nat /\ SummaryTokens \subseteq Nat
ASSUME BoundsAssumption ==
  /\ MaxIterations \in Nat \ {0}
  /\ MaxToolCalls \in Nat
  /\ MaxFaults \in Nat

NoSlot == -1
NoPlan == [how |-> "none", tok |-> 0]
NoSummary == [covers |-> {}, tok |-> 0]
NoContext == [turns |-> {}, covers |-> {}]

VARIABLES
  turns,        \* conversation_turns rows
  archive,      \* raw_turn_archive rows: the turn and the invocation that archived it
  expired,      \* turns whose archive row the retention deleted
  summary,      \* compacted_summary: the turns it stands for and its tokens
  compactions,  \* compaction_count
  events,       \* how many compaction_events rows were written
  nextId,       \* turns appended so far
  faults,       \* failures so far, at most MaxFaults
  pc,           \* where each invocation is
  queue,        \* roles of the turns it is about to append
  slot,         \* the turn_index it read for the next append
  snap,         \* the turns its compaction check read
  base,         \* the summary its compaction check read
  plan,         \* how it compacts, and the tokens of the new summary
  cut,          \* the turns it takes away
  todo,         \* those of them the current loop has not reached
  context,      \* what its first LLM call sees: ids of turns, and of summarised ones
  calls         \* LLM calls it has made

dbVars   == <<turns, archive, expired, summary, compactions, events, nextId>>
compVars == <<snap, base, plan, cut, todo>>
loopVars == <<queue, slot, context, calls>>
vars == <<dbVars, faults, pc, compVars, loopVars>>

Compacting == {"readSummary", "decide", "summarize", "archive", "remove", "record", "event"}
Ended      == {"answered", "noReply", "failed"}
Running    == {i \in Invocations : pc[i] \notin Ended \cup {"idle"}}

ArchivedTurns == {row.turn : row \in archive}
Written       == turns \cup ArchivedTurns \cup expired
Ids(T)        == {t.id : t \in T}

Goto(i, l) == pc' = [pc EXCEPT ![i] = l]

Init ==
  /\ turns = {} /\ archive = {} /\ expired = {}
  /\ summary = NoSummary
  /\ compactions = 0 /\ events = 0 /\ nextId = 0 /\ faults = 0
  /\ pc      = [i \in Invocations |-> "idle"]
  /\ queue   = [i \in Invocations |-> << >>]
  /\ slot    = [i \in Invocations |-> NoSlot]
  /\ snap    = [i \in Invocations |-> {}]
  /\ base    = [i \in Invocations |-> NoSummary]
  /\ plan    = [i \in Invocations |-> NoPlan]
  /\ cut     = [i \in Invocations |-> {}]
  /\ todo    = [i \in Invocations |-> {}]
  /\ context = [i \in Invocations |-> NoContext]
  /\ calls   = [i \in Invocations |-> 0]

(***************************************************************************)
(* An invocation begins with its user message.                             *)
(***************************************************************************)
Start(i) ==
  /\ pc[i] = "idle"
  /\ \A j \in Invocations : pc[j] = "idle" => i <= j
  /\ Cardinality(Running) < MaxConcurrent
  /\ queue' = [queue EXCEPT ![i] = <<"user">>]
  /\ Goto(i, "append")
  /\ UNCHANGED <<dbVars, faults, compVars, slot, context, calls>>

\* Mutant of NextIndex: the number of turns.
CountIndex(T) == Cardinality(T)

(***************************************************************************)
(* ConversationTurn::append: COALESCE(MAX(turn_index), -1) + 1, and then,  *)
(* as a statement of its own, the INSERT.                                  *)
(***************************************************************************)
NextIndex(T) == IF T = {} THEN 0 ELSE Max({t.idx : t \in T}) + 1

ReadIndex(i) ==
  /\ pc[i] = "append" /\ slot[i] = NoSlot
  /\ slot' = [slot EXCEPT ![i] = NextIndex(turns)]
  /\ UNCHANGED <<dbVars, faults, pc, compVars, queue, context, calls>>

(***************************************************************************)
(* After the last append of a group the loop goes on: to the compaction    *)
(* check after the user turn, to the next LLM call after a tool result, to *)
(* its end after the final answer.                                         *)
(***************************************************************************)
AfterAppend(i) ==
  LET role == Head(queue[i])
  IN  IF Len(queue[i]) > 1 THEN "append"
      ELSE CASE role = "user"        -> "check"
             [] role = "tool_result" -> "chat"
             [] OTHER                -> "answered"

InsertTurn(i) ==
  /\ pc[i] = "append" /\ slot[i] # NoSlot
  /\ \E n \in TurnTokens :
       turns' = turns \cup {[id |-> nextId, idx |-> slot[i], role |-> Head(queue[i]), tok |-> n]}
  /\ nextId' = nextId + 1
  /\ slot'  = [slot EXCEPT ![i] = NoSlot]
  /\ queue' = [queue EXCEPT ![i] = Tail(@)]
  /\ Goto(i, AfterAppend(i))
  /\ UNCHANGED <<archive, expired, summary, compactions, events, faults, compVars, context, calls>>

(***************************************************************************)
(* CompactionEngine::check_and_compact.  The turns and the stored summary  *)
(* are read by two statements.                                             *)
(***************************************************************************)
ReadTurns(i) ==
  /\ pc[i] = "check"
  /\ snap' = [snap EXCEPT ![i] = turns]
  /\ Goto(i, IF turns = {} THEN "history" ELSE "readSummary")
  /\ UNCHANGED <<dbVars, faults, base, plan, cut, todo, loopVars>>

ReadSummary(i) ==
  /\ pc[i] = "readSummary"
  /\ base' = [base EXCEPT ![i] = summary]
  /\ Goto(i, "decide")
  /\ UNCHANGED <<dbVars, faults, snap, plan, cut, todo, loopVars>>

(***************************************************************************)
(* get_compacted_summary swallows an error of its SELECT (unwrap_or of     *)
(* None): the compaction goes on as if no summary were stored, and its new *)
(* one will replace the old.                                               *)
(***************************************************************************)
SummaryUnread(i) ==
  /\ pc[i] = "readSummary"
  /\ faults < MaxFaults
  /\ faults' = faults + 1
  /\ base' = [base EXCEPT ![i] = NoSummary]
  /\ Goto(i, "decide")
  /\ UNCHANGED <<dbVars, snap, plan, cut, todo, loopVars>>

(***************************************************************************)
(* check_and_compact returns, with a value or an error, and its locals are *)
(* gone; plan stays as the record of what it did.                          *)
(***************************************************************************)
DropLocals(i) ==
  /\ snap' = [snap EXCEPT ![i] = {}]
  /\ base' = [base EXCEPT ![i] = NoSummary]
  /\ cut'  = [cut EXCEPT ![i] = {}]
  /\ todo' = [todo EXCEPT ![i] = {}]

\* A stored summary is counted with the message it is put in, by the threshold check
\* (role and heading) as by the truncator.
SummaryCost(s) == IF s = NoSummary THEN 0 ELSE s.tok + SummaryOverhead

Threshold == (ContextWindow * ThresholdPct) \div 100

(***************************************************************************)
(* Below the threshold, or with nothing outside the protected turns, no    *)
(* compaction is needed.                                                   *)
(***************************************************************************)
Decide(i) ==
  LET total == PromptTokens + SummaryCost(base[i]) + Tokens(snap[i]) + Priming
      old   == SplitForCompaction(snap[i], ProtectedTurns)
  IN  /\ pc[i] = "decide"
      /\ \/ /\ total < Threshold \/ old = {}
            /\ Goto(i, "history")
            /\ DropLocals(i)
         \/ /\ total >= Threshold /\ old # {}
            /\ Goto(i, "summarize")
            /\ cut' = [cut EXCEPT ![i] = old]
            /\ UNCHANGED <<snap, base, todo>>
      /\ UNCHANGED <<dbVars, faults, plan, loopVars>>

(***************************************************************************)
(* Summarizer::summarize awaits the LLM, once or twice, and ends with a    *)
(* summary of the turns to compact or with an error.                       *)
(***************************************************************************)
Summarized(i) ==
  /\ pc[i] = "summarize"
  /\ \E n \in SummaryTokens : plan' = [plan EXCEPT ![i] = [how |-> "summarization", tok |-> n]]
  /\ todo' = [todo EXCEPT ![i] = cut[i]]
  /\ Goto(i, "archive")
  /\ UNCHANGED <<dbVars, faults, snap, base, cut, loopVars>>

SummaryFailed(i) ==
  LET dropped == TruncateDropped(snap[i], ProtectedTurns, ContextWindow, SummaryCost(base[i]))
  IN  /\ pc[i] = "summarize"
      /\ plan' = [plan EXCEPT ![i] = [how |-> "truncation", tok |-> 0]]
      /\ cut'  = [cut EXCEPT ![i] = dropped]
      /\ todo' = [todo EXCEPT ![i] = dropped]
      /\ Goto(i, "archive")
      /\ UNCHANGED <<dbVars, faults, snap, base, loopVars>>

\* Mutant of ArchiveTurn: the same turn over and over.
ArchiveForever(i) ==
  /\ pc[i] = "archive" /\ todo[i] # {}
  /\ \E t \in todo[i] :
       /\ Earlier(t, todo[i]) = {}
       /\ archive' = archive \cup {[turn |-> t, run |-> i]}
  /\ UNCHANGED <<turns, expired, summary, compactions, events, nextId, faults, pc,
                 compVars, loopVars>>

(***************************************************************************)
(* archive_turns: one INSERT per turn, in the order of the list.           *)
(***************************************************************************)
ArchiveTurn(i) ==
  /\ pc[i] = "archive"
  /\ \E t \in todo[i] :
       /\ Earlier(t, todo[i]) = {}
       /\ archive' = archive \cup {[turn |-> t, run |-> i]}
       /\ todo' = [todo EXCEPT ![i] = @ \ {t}]
  /\ UNCHANGED <<turns, expired, summary, compactions, events, nextId, faults, pc,
                 snap, base, plan, cut, loopVars>>

ArchiveDone(i) ==
  /\ pc[i] = "archive" /\ todo[i] = {}
  /\ todo' = [todo EXCEPT ![i] = cut[i]]
  /\ Goto(i, "remove")
  /\ UNCHANGED <<dbVars, faults, snap, base, plan, cut, loopVars>>

\* Mutant of RemoveTurn: by turn_index, which overlapping appends may share.
RemoveByIndex(i) ==
  /\ pc[i] = "remove"
  /\ \E t \in todo[i] :
       /\ Earlier(t, todo[i]) = {}
       /\ turns' = {u \in turns : u.idx # t.idx}
       /\ todo' = [todo EXCEPT ![i] = @ \ {t}]
  /\ UNCHANGED <<archive, expired, summary, compactions, events, nextId, faults, pc,
                 snap, base, plan, cut, loopVars>>

(***************************************************************************)
(* remove_compacted_turns: one DELETE per turn, by id.                     *)
(***************************************************************************)
RemoveTurn(i) ==
  /\ pc[i] = "remove"
  /\ \E t \in todo[i] :
       /\ Earlier(t, todo[i]) = {}
       /\ turns' = {u \in turns : u.id # t.id}
       /\ todo' = [todo EXCEPT ![i] = @ \ {t}]
  /\ UNCHANGED <<archive, expired, summary, compactions, events, nextId, faults, pc,
                 snap, base, plan, cut, loopVars>>

RemoveDone(i) ==
  /\ pc[i] = "remove" /\ todo[i] = {}
  /\ Goto(i, "record")
  /\ UNCHANGED <<dbVars, faults, compVars, loopVars>>

\* Mutant of NewSummary: the new text replaces the old one.
OnlyNewSummary(i) ==
  IF plan[i].how = "summarization"
  THEN [covers |-> Ids(cut[i]), tok |-> plan[i].tok]
  ELSE base[i]

\* Mutant of NewSummary: it stands for all the turns that were read.
SummaryOfAll(i) ==
  IF plan[i].how = "summarization"
  THEN [covers |-> base[i].covers \cup Ids(snap[i]), tok |-> base[i].tok + plan[i].tok]
  ELSE base[i]

(***************************************************************************)
(* The summary the compaction leaves: the one it read, with the new text   *)
(* appended to it.                                                         *)
(***************************************************************************)
NewSummary(i) ==
  IF plan[i].how = "summarization"
  THEN [covers |-> base[i].covers \cup Ids(cut[i]), tok |-> base[i].tok + plan[i].tok]
  ELSE base[i]

(***************************************************************************)
(* update_compaction_state after a summarisation, increment_compaction_    *)
(* count after a truncation.                                               *)
(***************************************************************************)
RecordState(i) ==
  /\ pc[i] = "record"
  /\ summary' = IF plan[i].how = "summarization" THEN NewSummary(i) ELSE summary
  /\ compactions' = compactions + 1
  /\ Goto(i, "event")
  /\ UNCHANGED <<turns, archive, expired, events, nextId, faults, compVars, loopVars>>

(***************************************************************************)
(* CompactionEvent::create; the outcome carries the summary to the loop.   *)
(***************************************************************************)
RecordEvent(i) ==
  /\ pc[i] = "event"
  /\ events' = events + 1
  /\ context' = [context EXCEPT ![i].covers = NewSummary(i).covers]
  /\ Goto(i, "history")
  /\ DropLocals(i)
  /\ UNCHANGED <<turns, archive, expired, summary, compactions, nextId, faults, plan,
                 queue, slot, calls>>

(***************************************************************************)
(* The loop reads the conversation again and builds the LLM input from     *)
(* it, with the summary only when this invocation has just compacted.      *)
(***************************************************************************)
LoadHistory(i) ==
  /\ pc[i] = "history"
  /\ context' = [context EXCEPT ![i].turns = Ids(turns)]
  /\ Goto(i, "chat")
  /\ UNCHANGED <<dbVars, faults, compVars, queue, slot, calls>>

(***************************************************************************)
(* The tool-call loop.  A response with tool calls appends its text, if    *)
(* any, and a tool_use / tool_result pair per call.                        *)
(***************************************************************************)
Pairs(n) == [k \in 1 .. 2 * n |-> IF k % 2 = 1 THEN "tool_use" ELSE "tool_result"]

CallsLeft(i) == pc[i] = "chat" /\ calls[i] < MaxIterations

ChatTools(i) ==
  /\ CallsLeft(i)
  /\ \E n \in 1 .. MaxToolCalls, text \in {<< >>, <<"assistant">>} :
       queue' = [queue EXCEPT ![i] = text \o Pairs(n)]
  /\ calls' = [calls EXCEPT ![i] = @ + 1]
  /\ Goto(i, "append")
  /\ UNCHANGED <<dbVars, faults, compVars, slot, context>>

ChatAnswer(i) ==
  /\ CallsLeft(i)
  /\ queue' = [queue EXCEPT ![i] = <<"assistant">>]
  /\ calls' = [calls EXCEPT ![i] = @ + 1]
  /\ Goto(i, "append")
  /\ UNCHANGED <<dbVars, faults, compVars, slot, context>>

\* Neither tool calls nor content: the loop breaks and nothing is appended.
ChatEmpty(i) ==
  /\ CallsLeft(i)
  /\ calls' = [calls EXCEPT ![i] = @ + 1]
  /\ Goto(i, "noReply")
  /\ UNCHANGED <<dbVars, faults, compVars, queue, slot, context>>

ChatError(i) ==
  /\ CallsLeft(i)
  /\ Goto(i, "failed")
  /\ UNCHANGED <<dbVars, faults, compVars, loopVars>>

OutOfIterations(i) ==
  /\ pc[i] = "chat" /\ calls[i] >= MaxIterations
  /\ Goto(i, "noReply")
  /\ UNCHANGED <<dbVars, faults, compVars, loopVars>>

(***************************************************************************)
(* execute_capability fails (no credential, say) before its pair is        *)
(* appended: the `?` ends the invocation.                                  *)
(***************************************************************************)
ToolFails(i) ==
  /\ pc[i] = "append" /\ slot[i] = NoSlot /\ Head(queue[i]) = "tool_use"
  /\ Goto(i, "failed")
  /\ UNCHANGED <<dbVars, faults, compVars, loopVars>>

(***************************************************************************)
(* A statement fails (SQLITE_BUSY after the busy timeout, a full disk).    *)
(* Inside check_and_compact the loop carries on as if no compaction had    *)
(* been needed (but see SummaryUnread); anywhere else the invocation ends. *)
(***************************************************************************)
StatementFails(i) ==
  /\ faults < MaxFaults
  /\ faults' = faults + 1
  /\ DropLocals(i)
  /\ \/ pc[i] \in {"check", "archive", "remove", "record", "event"} /\ Goto(i, "history")
     \/ pc[i] \in {"append", "check", "history"} /\ Goto(i, "failed")
  /\ UNCHANGED <<dbVars, plan, loopVars>>

(***************************************************************************)
(* The process dies: every running invocation is gone, the database stays. *)
(***************************************************************************)
Crash ==
  /\ faults < MaxFaults
  /\ Running # {}
  /\ faults' = faults + 1
  /\ pc' = [i \in Invocations |-> IF i \in Running THEN "failed" ELSE pc[i]]
  /\ snap' = [i \in Invocations |-> {}]
  /\ base' = [i \in Invocations |-> NoSummary]
  /\ cut'  = [i \in Invocations |-> {}]
  /\ todo' = [i \in Invocations |-> {}]
  /\ UNCHANGED <<dbVars, plan, loopVars>>

(***************************************************************************)
(* run_compaction_retention deletes the archive rows of one compaction 30  *)
(* days later; bound: the invocation that wrote them has ended by then.    *)
(***************************************************************************)
ExpireArchive(i) ==
  LET rows == {row \in archive : row.run = i}
  IN  /\ pc[i] \in Ended /\ rows # {}
      /\ archive' = archive \ rows
      /\ expired' = expired \cup {row.turn : row \in rows}
      /\ UNCHANGED <<turns, summary, compactions, events, nextId, faults, pc, compVars, loopVars>>

Step(i) ==
  \/ ReadIndex(i) \/ InsertTurn(i)
  \/ ReadTurns(i) \/ ReadSummary(i) \/ Decide(i)
  \/ Summarized(i) \/ SummaryFailed(i)
  \/ ArchiveTurn(i) \/ ArchiveDone(i) \/ RemoveTurn(i) \/ RemoveDone(i)
  \/ RecordState(i) \/ RecordEvent(i) \/ LoadHistory(i)
  \/ ChatTools(i) \/ ChatAnswer(i) \/ ChatEmpty(i) \/ ChatError(i) \/ OutOfIterations(i)

Next ==
  \/ \E i \in Invocations :
       \/ Start(i) \/ Step(i) \/ ExpireArchive(i)
       \/ ToolFails(i) \/ SummaryUnread(i) \/ StatementFails(i)
  \/ Crash

Spec == Init /\ [][Next]_vars

(***************************************************************************)
(* A started invocation is a running task: each of its steps is taken or   *)
(* fails, and an awaited LLM call answers or errors in the end.            *)
(***************************************************************************)
FairSpec == Spec /\ \A i \in Invocations : WF_vars(Step(i))

-----------------------------------------------------------------------------
TurnRecords == [id : Nat, idx : Nat, role : Roles, tok : Nat]
Summaries   == [covers : SUBSET Nat, tok : Nat]
Labels      == {"idle", "append", "check", "history", "chat"} \cup Compacting \cup Ended

TypeOK ==
  /\ turns \subseteq TurnRecords
  /\ archive \subseteq [turn : TurnRecords, run : Invocations]
  /\ expired \subseteq TurnRecords
  /\ summary \in Summaries
  /\ compactions \in Nat /\ events \in Nat /\ nextId \in Nat /\ faults \in Nat
  /\ pc \in [Invocations -> Labels]
  /\ queue \in [Invocations -> Seq(Roles)]
  /\ slot \in [Invocations -> Nat \cup {NoSlot}]
  /\ snap \in [Invocations -> SUBSET TurnRecords]
  /\ base \in [Invocations -> Summaries]
  /\ plan \in [Invocations -> [how : {"none", "summarization", "truncation"}, tok : Nat]]
  /\ cut \in [Invocations -> SUBSET TurnRecords]
  /\ todo \in [Invocations -> SUBSET TurnRecords]
  /\ context \in [Invocations -> [turns : SUBSET Nat, covers : SUBSET Nat]]
  /\ calls \in [Invocations -> Nat]

(***************************************************************************)
(* Properties that hold whatever runs at the same time and whatever fails. *)
(***************************************************************************)

\* No turn is lost: every turn ever appended is in the conversation or in
\* the archive, or expired there.  Compaction copies before it deletes.
NoTurnLost == \A n \in 0 .. nextId - 1 : \E t \in Written : t.id = n

\* A turn leaves the conversation only while ProtectedTurns later ones are
\* still in it, though the decision was made on an older reading.
RecentTurnsSurvive ==
  [][\A t \in turns \ turns' : t \notin Recent(turns, ProtectedTurns)]_vars

\* The stored summary stands only for turns that have left the conversation
\* through the archive, and no LLM input has a turn twice, in full and behind the
\* summary: whichever compactions overlap, and wherever one of them breaks off.
SummaryOnlyForArchived ==
  /\ summary.covers \subseteq Ids(ArchivedTurns \cup expired) \ Ids(turns)
  /\ \A i \in Invocations : context[i].turns \cap context[i].covers = {}

\* The store keeps the promises of TurnLedger: turns are written once, leave
\* through the archive, word for word, and leave that by expiry only.
Ledger == INSTANCE TurnLedger WITH live <- turns, kept <- ArchivedTurns, gone <- expired
ImplementsLedger == Ledger!LedgerSpec

(***************************************************************************)
(* Properties of a conversation whose invocations come one after another   *)
(* (MaxConcurrent = 1).                                                    *)
(***************************************************************************)

\* turn_index orders the turns as they were appended and is never used
\* twice, neither in the conversation nor in the archive: a compaction
\* never takes the turn with the highest index.
IndexFollowsAppend ==
  \A t, u \in turns \cup ArchivedTurns : t.id < u.id => t.idx < u.idx

\* A tool_result among the protected turns still has its tool_use (T020).
ToolPairsTogether ==
  \A r \in Recent(turns, ProtectedTurns) :
    r.role = "tool_result" => \E u \in turns : u.role = "tool_use" /\ u.id = r.id - 1

(***************************************************************************)
(* The same, as long as no statement has failed.                           *)
(***************************************************************************)

\* After a summarisation the LLM input misses nothing but what truncations
\* dropped: every turn is in it or stands behind the summary in it.
CompactedContextComplete ==
  \A i \in Invocations :
    faults = 0 /\ pc[i] = "chat" /\ calls[i] = 0 /\ plan[i].how = "summarization" =>
      \A t \in Written \ expired :
        \/ t.id \in context[i].turns \cup context[i].covers
        \/ \E row \in archive : row.turn = t /\ plan[row.run].how = "truncation"

(***************************************************************************)
(* Liveness.                                                               *)
(***************************************************************************)

\* An invocation that has started ends: it answers, gives up or fails.
InvocationsEnd == \A i \in Invocations : pc[i] = "append" ~> pc[i] \in Ended

(***************************************************************************)
(* What the documentation promises and the code does not keep.             *)
(***************************************************************************)

\* docs/architecture.md, step 4: the LLM input has the compaction summary,
\* if there is any.
SummaryReachesLlm ==
  \A i \in Invocations :
    pc[i] = "chat" /\ calls[i] = 0 => context[i].covers = summary.covers
=============================================================================
