---------------------------- MODULE MCPlanToken ----------------------------
(***************************************************************************)
(* PlanToken for TLC: two holders beside one sign-in, interchangeable      *)
(* holders and tokens.                                                     *)
(***************************************************************************)
EXTENDS PlanToken, TLC

Symmetry == Permutations(Holders) \cup Permutations(Tokens)
===========================================================================
