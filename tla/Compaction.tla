----------------------------- MODULE Compaction -----------------------------
(***************************************************************************)
(* The cuts of CompactionCuts on a conversation that grows turn by turn    *)
(* and is compacted either way, each time with the settings in force,      *)
(* while admins change them (CompactionSettings).  A check of the          *)
(* conversation (CompactionEngine::check_and_compact) is one step here;    *)
(* AgentLoop has its statements.  The prompt and the stored summary are     *)
(* left out of what is counted here.  And how a summary that came out too  *)
(* long is cut (compaction/summarizer.rs).                                 *)
(***************************************************************************)
EXTENDS CompactionCuts, CompactionSettings, Sequences

CONSTANTS
  MaxTurns,     \* bound: turns ever appended
  RolesUsed,    \* roles the conversation is made of
  Sizes,        \* tokens of a turn
  Windows,      \* context windows of the models in use
  Budgets,      \* tokens a summary may have
  Marker        \* tokens of "[summary truncated]"

ASSUME CompactionAssumption ==
  RolesUsed \subseteq Roles /\ {MaxTurns, Marker} \cup Sizes \cup Windows \cup Budgets \subseteq Nat

VARIABLES list, appended

conversation == <<list, appended>>

InitCompaction == InitSettings /\ list = {} /\ appended = 0

Grow ==
  /\ appended < MaxTurns
  /\ \E r \in RolesUsed, n \in Sizes :
       list' = list \cup {[id |-> appended, idx |-> appended, role |-> r, tok |-> n]}
  /\ appended' = appended + 1
  /\ UNCHANGED settings

Reached(window) == Tokens(list) + Priming >= (window * InForce["threshold"]) \div 100

Compactable == SplitForCompaction(list, InForce["protected"])

Summarise ==
  /\ \E w \in Windows : Reached(w)
  /\ Compactable # {}
  /\ list' = list \ Compactable
  /\ UNCHANGED <<settings, appended>>

\* The fallback, when the model gave no summary.
Truncate ==
  /\ Compactable # {}
  /\ \E w \in Windows :
       Reached(w) /\ list' = list \ TruncateDropped(list, InForce["protected"], w, 0)
  /\ UNCHANGED <<settings, appended>>

NextCompaction ==
  \/ Grow \/ Summarise \/ Truncate
  \/ NextSettings /\ UNCHANGED conversation

SpecCompaction == InitCompaction /\ [][NextCompaction]_<<settings, conversation>>

(***************************************************************************)
(* hard_truncate_summary, of a summary given by the tokens of its lines.   *)
(* Tokens of lines add up; a character is a token when a line is split.    *)
(***************************************************************************)
PrefixTokens(lines, k) ==
  LET sum[i \in 0..Len(lines)] == IF i = 0 THEN 0 ELSE sum[i - 1] + lines[i]
  IN  sum[k]

\* Mutant of LinesThatFit: a prefix must be below the budget.
LinesBelow(lines, budget) ==
  LET search[r \in (0..Len(lines)) \X (0..Len(lines))] ==
        LET lo  == r[1]
            hi  == r[2]
            mid == (lo + hi + 1) \div 2
        IN  IF lo >= hi THEN lo
            ELSE IF PrefixTokens(lines, mid) < budget THEN search[<<mid, hi>>] ELSE search[<<lo, mid - 1>>]
  IN  search[<<0, Len(lines)>>]

\* The binary search over the lines.
LinesThatFit(lines, budget) ==
  LET search[r \in (0..Len(lines)) \X (0..Len(lines))] ==
        LET lo  == r[1]
            hi  == r[2]
            mid == (lo + hi + 1) \div 2
        IN  IF lo >= hi THEN lo
            ELSE IF PrefixTokens(lines, mid) <= budget THEN search[<<mid, hi>>] ELSE search[<<lo, mid - 1>>]
  IN  search[<<0, Len(lines)>>]

\* No line fits: a quarter of the characters is taken off until they do.
CharactersThatFit(lines, budget) ==
  LET all == PrefixTokens(lines, Len(lines))
      shrunk[end \in 0..all] ==
        IF end <= budget \/ end <= 1 THEN end ELSE shrunk[(end * 3) \div 4]
  IN  shrunk[all]

\* The tokens of what is left; the marker comes on top.
HardTruncate(lines, budget) ==
  LET k == LinesThatFit(lines, budget)
  IN  IF k = 0 THEN CharactersThatFit(lines, budget) + Marker
      ELSE PrefixTokens(lines, k) + (IF k < Len(lines) THEN Marker ELSE 0)

(***************************************************************************)
(* Properties.                                                             *)
(***************************************************************************)
\* The turns T and a summary counted as s tokens, in a window.
Fits(T, w, s) == Tokens(T) + Priming + s <= TruncationTarget(w)

\* Whatever admins set, a compaction leaves the latest turn alone, and neither
\* way separates a tool_result among the protected turns from the tool_use right
\* before it (T020).
PairsStayTogether ==
  LET n == InForce["protected"]
  IN  \A r \in Recent(list, n) :
        /\ r \notin Compactable
        /\ \A w \in Windows :
             LET dropped == TruncateDropped(list, n, w, 0)
             IN  /\ r \notin dropped
                 /\ r.role = "tool_result" =>
                      \A u \in list : u.role = "tool_use" /\ Precedes(u, r, list) =>
                        u \notin Compactable \cup dropped

\* However the loop of Truncator::truncate gets there, with a stored summary or
\* without: what it drops are the oldest of the turns it may drop, the rest fits or
\* is all protected, and with the newest dropped turn back it would not fit.
TruncationIsTight ==
  \A w \in Windows, s \in {0} \cup {b + SummaryOverhead : b \in Budgets} :
    LET n         == InForce["protected"]
        dropped   == TruncateDropped(list, n, w, s)
        left      == list \ dropped
        protected == TruncateProtected(list, n)
    IN  /\ \A t \in dropped : Earlier(t, list) \subseteq dropped \cup protected
        /\ Fits(left, w, s) \/ left = protected
        /\ \A t \in dropped : Later(t, dropped) = {} => ~Fits(left \cup {t}, w, s)

\* A summary that is over its budget, with as many lines as there are turns, each as
\* long as one of them, is cut to the budget and the marker, or to one
\* character; whole lines are kept when one fits, and no further line would have.
SummaryCutIsTight ==
  \A lines \in [1..Cardinality(list) -> {t.tok : t \in list}], b \in Budgets :
    PrefixTokens(lines, Len(lines)) > b =>
      LET k   == LinesThatFit(lines, b)
          cut == HardTruncate(lines, b)
      IN  /\ cut <= b + Marker \/ cut = 1 + Marker
          /\ k < Len(lines) /\ PrefixTokens(lines, k + 1) > b
          /\ k > 0 => cut = PrefixTokens(lines, k) + Marker
=============================================================================
