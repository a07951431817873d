---------------------------- MODULE MCScheduler ----------------------------
(***************************************************************************)
(* Instances of Scheduler for TLC: a few jobs that share an agent or have  *)
(* one each, and a clock that passes the first instants of a cron job.     *)
(***************************************************************************)
EXTENDS Scheduler, TLC

CONSTANTS j1, j2, a1

SharedAgent == [j \in {j1, j2} |-> a1]
OneJob      == [j \in {j1} |-> a1]

JobSymmetry == Permutations(Jobs)
=============================================================================
