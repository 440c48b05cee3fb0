--------------------------- MODULE MCStepOutcome ---------------------------
(***************************************************************************)
(* Two instances of StepOutcome for TLC in one run, each with a part of    *)
(* its actions: the model's calls multiply every other case.               *)
(***************************************************************************)
EXTENDS StepInvariant

VARIABLE instance   \* "effect" or "call", for good

\* What each instance has: the step is picked up and dispatched, its work is
\* observed, handed back or lost, and a person answers.
Common(a) ==
    \/ PickUp(a, TRUE) \/ Lapse(a) \/ Dispatch(a)
    \/ \E ending \in {"completed", "failed"}, cost \in Costs \cup {0} : Observe(a, ending, cost)
    \/ \E room \in BOOLEAN :
        \/ \E ending \in {"completed", "failed", "dropped"} : HandBack(a, ending, room)
        \/ Person(a, room)

\* The pass, in the order of its phases.
Passes == StopWrittenOffReplacements \/ (\E room \in BOOLEAN : Sweep(room)) \/ Replay

\* The effect and its provider, without a model call: who ends the work, and in
\* what order with the late worker.
EffectNext(a) ==
    \/ PickUp(a, FALSE)
    \/ StartProvider(a) \/ CheckEffect(a) \/ WriteEffect(a)
    \/ LoseAuthority(a) \/ EndApproval
    \/ \E room \in BOOLEAN :
        \/ \E agent \in BOOLEAN : PickUpReplacing(a, agent, room)
        \/ \E cost \in Costs : Reconcile(a, FALSE, cost, room)

\* The model's call beside the step.
CallNext(a) ==
    \/ StartCall(a) \/ ProveCall(a)
    \/ \E flag, room \in BOOLEAN :
        \/ AnswerCall(a, flag, room)
        \/ \E cost \in Costs : Reconcile(a, flag, cost, room)

InstanceInit == Init /\ instance \in {"effect", "call"}

InstanceNext ==
    /\ \/ Passes
       \/ \E a \in Attempt :
           \/ Common(a)
           \/ instance = "effect" /\ EffectNext(a)
           \/ instance = "call" /\ CallNext(a)
    /\ UNCHANGED instance

\* The pass on its interval, in each.
FairSteps == InstanceInit /\ [][InstanceNext]_<<vars, instance>> /\ Fairness
=============================================================================
