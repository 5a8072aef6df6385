----------------------------- MODULE MCIdentity -----------------------------
(***************************************************************************)
(* A small instance of Identity for TLC: interchangeable requests.         *)
(***************************************************************************)
EXTENDS Identity, TLC

Symmetry == Permutations(Requests)
=============================================================================
