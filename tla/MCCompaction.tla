--------------------------- MODULE MCCompaction ---------------------------
(***************************************************************************)
(* Compaction with platform defaults small enough for short conversations, *)
(* and patches of one setting or two, one of them invalid.                 *)
(***************************************************************************)
EXTENDS Compaction

SomeDefaults == [threshold |-> 80, fraction |-> 30, protected |-> 2]

SomeBodies ==
  {[protected |-> 1], [threshold |-> 50, protected |-> 3], [fraction |-> 9]}
=============================================================================
