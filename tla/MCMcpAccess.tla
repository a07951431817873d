---------------------------- MODULE MCMcpAccess ----------------------------
(***************************************************************************)
(* McpAccess with two agents, which are alike.                             *)
(***************************************************************************)
EXTENDS McpAccess, TLC

Alike == Permutations(Agents)
=============================================================================
