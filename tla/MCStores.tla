----------------------------- MODULE MCStores -----------------------------
(***************************************************************************)
(* Stores with two archives to start with: one of the default tenant, made *)
(* while its log held a row, and one of another instance's tenant 9.       *)
(***************************************************************************)
EXTENDS Stores

Commits(migs) == {[mig |-> m, by |-> 0] : m \in migs}

FoundArchives ==
  {[by |-> -1, calm |-> TRUE, files |-> [db |-> Commits(0..Migrations), wal |-> {}],
    row |-> [id |-> 9, slug |-> "theirs", status |-> "active"]],
   [by |-> -2, calm |-> TRUE, files |-> [db |-> Commits(1..Migrations), wal |-> Commits({0})],
    row |-> [id |-> 0, slug |-> "default", status |-> "active"]]}

OneDefault == {-1}
=============================================================================
