-------------------------- MODULE MCCommandLocks --------------------------
(***************************************************************************)
(* CommandLocks for TLC: any two commands at once on two pieces of work of *)
(* one task.                                                               *)
(***************************************************************************)
EXTENDS CommandLocks

TwoOnOneTask == [w \in {1, 2} |-> 1]
===========================================================================
