---------------------------- MODULE MCDeliveries ----------------------------
(***************************************************************************)
(* Instances of Deliveries for TLC.                                        *)
(***************************************************************************)
EXTENDS Deliveries, TLC

CONSTANTS t1, t2, s1, s2, h1, d1, d2

SubsOfOne    == [s \in {s1, s2} |-> t1]
ThreadOfOne  == [h \in {h1} |-> t1]

\* Ids, and the subscriptions of one tenant, differ in nothing but their identity.
Alike == Permutations({d1, d2}) \cup Permutations({s1, s2})
=============================================================================
