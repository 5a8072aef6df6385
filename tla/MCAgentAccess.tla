--------------------------- MODULE MCAgentAccess ----------------------------
(***************************************************************************)
(* A small instance of AgentAccess for TLC: interchangeable requests.      *)
(***************************************************************************)
EXTENDS AgentAccess, TLC

Symmetry == Permutations(Requests)
=============================================================================
