----------------------------- MODULE MCMemory -----------------------------
(***************************************************************************)
(* Memory with three scope settings: private by the agent's policy,        *)
(* private by dropping what is not, shared by coercion.                    *)
(***************************************************************************)
EXTENDS Memory

Setting(mode, policy, coerce) == [mode |-> mode, policy |-> policy, coerce |-> coerce]

SomeChoices ==
  {Setting("dual", "user", "drop"), Setting("user-only", "tenant", "drop"),
   Setting("tenant-only", "user", "coerce")}
=============================================================================
