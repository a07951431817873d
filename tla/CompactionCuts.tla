-------------------------- MODULE CompactionCuts --------------------------
(***************************************************************************)
(* Which turns of a conversation a compaction takes away: the two pure     *)
(* functions split_turns_for_compaction (the summarisation path) and       *)
(* Truncator::truncate (the fallback).                                     *)
(*                                                                         *)
(* A conversation is a finite set of turn records [id, idx, role, tok]:    *)
(* id is the order of insertion (SQLite's rowid), idx the turn_index       *)
(* column, tok the tokens the turn costs, message overhead included.  The  *)
(* code's "assistant" turns whose content starts with "tool_use:" have     *)
(* the role "tool_use" here.                                               *)
(***************************************************************************)
EXTENDS Naturals, FiniteSets, FiniteSetsExt

Roles == {"system", "user", "assistant", "tool_use", "tool_result"}

(***************************************************************************)
(* ORDER BY turn_index; rows of one index come in the order of insertion.  *)
(***************************************************************************)
Before(t, u) == t.idx < u.idx \/ (t.idx = u.idx /\ t.id < u.id)

Earlier(t, T) == {u \in T : Before(u, t)}
Later(t, T)   == {u \in T : Before(t, u)}

Tokens(T) == MapThenSumSet(LAMBDA t : t.tok, T)

(***************************************************************************)
(* The n most recent turns of T (all of them when there are fewer).        *)
(***************************************************************************)
Recent(T, n) == {t \in T : Cardinality(Later(t, T)) < n}

System(T) == {t \in T : t.role = "system"}

\* count_kept_tokens adds 3 to the messages for the answer's priming; the truncator
\* counts 10 for the message a stored summary is put in.
Priming == 3
SummaryOverhead == 10

\* Mutants of SplitForCompaction: the pair is split; nothing is protected.
SplitPairs(T, n)      == (T \ Recent(T, n)) \ System(T)
SplitEverything(T, n) == T \ System(T)

(***************************************************************************)
(* The turns a summarisation replaces: everything but the system turns and *)
(* the n most recent ones, less a tool_use that would be cut from the      *)
(* tool_result it belongs to.                                              *)
(***************************************************************************)
SplitForCompaction(T, n) ==
  LET old       == (T \ Recent(T, n)) \ System(T)
      protected == (T \ old) \ System(T)
      InFlight(t) ==
        /\ t.role = "tool_use"
        /\ Later(t, old) = {}
        /\ \E r \in protected : Earlier(r, protected) = {} /\ r.role = "tool_result"
  IN  {t \in old : ~InFlight(t)}

(***************************************************************************)
(* The turn right before t in the list T.                                  *)
(***************************************************************************)
Precedes(u, t, T) == u \in Earlier(t, T) /\ Earlier(t, T) \cap Later(u, T) = {}

(***************************************************************************)
(* What the truncation never drops: system turns, the n most recent turns, *)
(* and the turn before each tool_result among those.                       *)
(***************************************************************************)
TruncateProtected(T, n) ==
  LET base == System(T) \cup Recent(T, n)
  IN  base \cup {u \in T : \E r \in base : r.role = "tool_result" /\ Precedes(u, r, T)}

(***************************************************************************)
(* 90% of the context window; the rest is the response buffer.             *)
(***************************************************************************)
TruncationTarget(window) == (window * 9) \div 10

\* Mutant of Enough: what is left must be below the target.
EnoughBelow(K, P, window, s) ==
  \/ Tokens(K) + Priming + s < TruncationTarget(window)
  \/ Cardinality(K) <= Cardinality(P)

(***************************************************************************)
(* When the truncator stops: the turns K it has kept, with s tokens for    *)
(* the stored summary, fit the target, or only the protected ones P are    *)
(* left.                                                                   *)
(***************************************************************************)
Enough(K, P, window, s) ==
  \/ Tokens(K) + Priming + s <= TruncationTarget(window)
  \/ Cardinality(K) <= Cardinality(P)

\* K without the oldest of its turns that is not protected.
OneLess(K, P) == {t \in K : t \in P \/ Earlier(t, K \ P) # {}}

(***************************************************************************)
(* The loop of the truncator: kept[k] is what it keeps after k rounds.     *)
(***************************************************************************)
TruncateKept(T, P, window, s) ==
  LET kept[k \in 0 .. Cardinality(T)] ==
        IF k = 0 THEN T
        ELSE LET K == kept[k - 1]
             IN  IF Enough(K, P, window, s) THEN K ELSE OneLess(K, P)
  IN  kept[Cardinality(T)]

(***************************************************************************)
(* It reports turn_index values, so a turn that shares its index with a    *)
(* kept one is kept too.                                                   *)
(***************************************************************************)
TruncateDropped(T, n, window, s) ==
  LET kept == TruncateKept(T, TruncateProtected(T, n), window, s)
  IN  {t \in T : \A u \in kept : u.idx # t.idx}
=============================================================================
