--------------------------- MODULE MCCredentials ---------------------------
(***************************************************************************)
(* Credentials for TLC: the names of capabilities are alike.               *)
(***************************************************************************)
EXTENDS Credentials, TLC

Alike == Permutations(Tools)
=============================================================================
