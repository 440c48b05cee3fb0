-------------------------- MODULE MCBudgetAnswers --------------------------
(***************************************************************************)
(* BudgetAnswers for TLC: one model call beside the effect and all that is *)
(* said of it, or two calls in every interleaving with the sweep and the   *)
(* counts and no effect.                                                   *)
(***************************************************************************)
EXTENDS BudgetInvariant

\* Calls are numbered as they are reserved, and what a step did is never undone;
\* only a worker, the register or a person leaves an instance, and none of them is
\* fair.
Untouched(h) ==
    /\ hold[h].marked => \E c \in Call : call[c].of = h /\ call[c].lost
    /\ hold[h].step \notin {"completed", "failed", "written_off"}
    /\ ~ hold[h].observed /\ ~ hold[h].absent /\ hold[h].word = "none"

OneCallOrNoEffect ==
    (\A c \in Call : c > 1 => call[c].state = "none") \/ \A h \in Hold : Untouched(h)
=============================================================================
