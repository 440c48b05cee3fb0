---------------------------- MODULE StepOutcome ----------------------------
(***************************************************************************)
(* What became of one planned step: its worker's effect, its loss, and the *)
(* answers that settle it -- the worker's observation, the reconciliation  *)
(* pass's reading of the operation register, a person's recorded outcome,  *)
(* a person's write-off -- with the attempts that each of them reserves or *)
(* stops (core-runtime/src/recovery: reconcile.ts, outcome.ts,             *)
(* write-off.ts, written-off-replacements.ts; dispatch.ts, observe.ts and  *)
(* core-commands/src/commands/tasks-comment-effect.ts).                    *)
(*                                                                         *)
(* An attempt carries its reservation, its lease, its effect and one model *)
(* call.  Other work shares the envelope and the cap, so whether a new     *)
(* reservation finds room is any answer.  An action is one transaction     *)
(* under the step's lock; the effect alone is two, since its first check   *)
(* reads before it holds that lock.                                        *)
(***************************************************************************)
EXTENDS Integers, FiniteSets, FiniteSetsExt, Functions

CONSTANTS
    Attempts,   \* how many attempts the step may reach: the bound of the model
    Amount,     \* the approved amount of its first hold
    CallCost,   \* what an attempt's model call costs once it is answered
    Costs,      \* what the price book may make of the step's work
    Figures     \* what a person may charge in a write-off

ASSUME SomeAttempts == Attempts \in Nat \ {0}
ASSUME SomeMoney ==
    /\ Amount \in Nat \ {0} /\ CallCost \in Nat \ {0}
    /\ Costs \subseteq Nat \ {0} /\ Figures \subseteq Nat

Attempt == 1 .. Attempts

Words == {"nothing_happened", "happened", "happened_differently", "written_off"}

VARIABLES
    att,        \* attempt -> its row, with its reservation's, lease's and call's
    run,        \* the planned run
    approved,   \* the version is live, its gate approved, its lineage live
    envelope    \* what the step's holds hold of the envelope and have spent of it

vars == <<att, run, approved, envelope>>

Row == [state : {"none", "reserved", "dispatched", "settled", "abandoned", "dropped",
                 "handed_back", "liability_unknown"},
        outcome : {"none", "completed", "failed", "abandoned", "unknown"},
        marked : BOOLEAN, observed : BOOLEAN,       \* dispatch_marker, observed
        started : BOOLEAN,                          \* provider_started_at
        drop : {"none", "worker_lost", "provider"}, \* drop_cause
        reported : BOOLEAN,                         \* a settled hand-back report
        stopped : BOOLEAN,                          \* a final run outcome
        hold : {"none", "held", "actual", "abandoned"},
        amount : 0 .. Amount, actual : Nat,
        absent : BOOLEAN,                           \* absence_proved_at
        cause : {"none", "stopped", "outcome_recorded", "written_off"},
        lease : {"none", "live", "lapsed", "expired", "released"},
        worker : {"none", "agent", "person", "ended"},
        note : {"none", "checked", "written"},      \* the effect in the register
        call : {"none", "dispatched", "unknown", "settled", "released"},
        lost : BOOLEAN,                             \* the call's unknown_since
        word : Words \cup {"none"}]

Unwritten ==
    [state |-> "none", outcome |-> "none", marked |-> FALSE, observed |-> FALSE,
     started |-> FALSE, drop |-> "none", reported |-> FALSE, stopped |-> FALSE,
     hold |-> "none", amount |-> 0, actual |-> 0, absent |-> FALSE, cause |-> "none",
     lease |-> "none", worker |-> "none", note |-> "none", call |-> "none", lost |-> FALSE,
     word |-> "none"]

\* A row decide.ts's reserve writes: a held hold and an attempt nobody claimed.
Fresh(amount) ==
    [Unwritten EXCEPT !.state = "reserved", !.hold = "held", !.amount = amount]

\* The rows a transaction reads and writes, passed from one helper to the next.
Tables == [att |-> att, run |-> run, envelope |-> envelope]

Commit(t) == att' = t.att /\ run' = t.run /\ envelope' = t.envelope /\ approved' = approved

Written(t) == {a \in Attempt : t.att[a].state # "none"}

Held(t) == {a \in Attempt : t.att[a].hold = "held"}

CallOpen(r) == r.call \in {"dispatched", "unknown"}

\* modelCallsOn: what the hold's settled calls cost.
CallsSpent(r) == IF r.call = "settled" THEN CallCost ELSE 0

Marked(r) == r.marked \/ r.observed

LeaseLive(r) == r.lease \in {"live", "lapsed"}

\* The worker behind the attempt can still be answered.
Stands(r) == r.worker \in {"agent", "person"}

\* step-written-off.ts: a person wrote off some attempt of the step.
WrittenOff(t) ==
    \E a \in Attempt :
        \/ t.att[a].outcome = "unknown"
        \/ t.att[a].cause = "written_off"
        \/ t.att[a].word = "written_off"

\* STEP_SETTLED, asked at effect time: written off, or done by an attempt that
\* no person said happened differently.
StepSettled(t) ==
    \/ WrittenOff(t)
    \/ \E a \in Attempt : /\ t.att[a].state = "settled" /\ t.att[a].outcome = "completed"
                          /\ t.att[a].word # "happened_differently"

(***************************************************************************)
(* Closing a hold and reserving the next.                                  *)
(***************************************************************************)

\* Slip: the envelope gives back the difference and keeps the charge held as well.
ClosedByDifference(t, a, cause, charge, records) ==
    IF t.att[a].hold # "held" THEN t
    ELSE [t EXCEPT
        !.att[a].hold = IF charge > 0 THEN "actual" ELSE "abandoned",
        !.att[a].actual = charge,
        !.att[a].cause = IF charge = 0 \/ records THEN cause ELSE "none",
        !.envelope.held = @ - (t.att[a].amount - charge),
        !.envelope.actual = @ + charge]

\* closeHold: the envelope gives the hold back once and takes only the charge.
Closed(t, a, cause, charge, records) ==
    IF t.att[a].hold # "held" THEN t
    ELSE [t EXCEPT
        !.att[a].hold = IF charge > 0 THEN "actual" ELSE "abandoned",
        !.att[a].actual = charge,
        !.att[a].cause = IF charge = 0 \/ records THEN cause ELSE "none",
        !.envelope.held = @ - t.att[a].amount,
        !.envelope.actual = @ + charge]

\* settleAtObserved, within the hold: the attempt settles and the hold with it.
Settled(t, a, spent, outcome) ==
    LET closed == Closed(t, a, "none", spent, FALSE) IN
    [closed EXCEPT !.att[a].state = "settled", !.att[a].outcome = outcome]

\* The classifier: a marked step that is still dispatched, or an open call,
\* keeps the whole hold as an unknown liability; anything else gives it back.
Classified(t, a) ==
    LET r == t.att[a]
        spent == CallsSpent(r)
        closed == Closed(t, a, "stopped", spent, TRUE)
    IN
    IF r.hold # "held" THEN t
    ELSE IF Marked(r)
        THEN IF r.state = "dispatched"
                THEN [t EXCEPT !.att[a].state = "liability_unknown"] ELSE t
    ELSE IF CallOpen(r) THEN [t EXCEPT !.att[a].state = "liability_unknown"]
    ELSE [closed EXCEPT
             !.att[a].state = IF spent > 0 /\ @ = "handed_back" THEN @ ELSE "abandoned",
             !.att[a].outcome = IF @ = "none" THEN "abandoned" ELSE @]

\* The attempt a new reservation is written as.
NextNumber(t) == Cardinality(Written(t)) + 1

Numbered(t) == NextNumber(t) \in Attempt

Reserved(t, amount) ==
    [t EXCEPT !.att[NextNumber(t)] = Fresh(amount), !.envelope.held = @ + amount]

\* An agent's delegation is revoked or settled; a person has none.
Unseated(t, a) ==
    [t EXCEPT !.att[a].worker = IF @ = "agent" THEN "ended" ELSE @]

\* What the old hold has not spent is held again.
Left(t, a) == t.att[a].amount - (IF t.att[a].state = "settled" THEN 0 ELSE t.att[a].actual)

\* The run stops at its budget and asks a person.
AtBudget(t) ==
    [t EXCEPT !.run = IF @ \in {"planned", "claimed"} THEN "waiting_budget" ELSE @]

\* Slip: the old hold is not marked absence-proved.
ResumedUnmarked(t, a, keep, room) ==
    IF ~ approved \/ WrittenOff(t) THEN t
    ELSE IF Left(t, a) <= 0 THEN AtBudget(Unseated(t, a))
    ELSE IF ~ (room /\ Numbered(t)) THEN t
    ELSE Reserved(Unseated(t, a), Left(t, a))

\* resume: the step again on its own hold, unless the approval moved, a person
\* wrote the step off, nothing is left (the run asks for budget) or there is no
\* room.  keep: the old hold stays, marked absence-proved; a refusal for room
\* takes that mark back.
Resumed(t, a, keep, room) ==
    IF ~ approved \/ WrittenOff(t) THEN t
    ELSE IF Left(t, a) <= 0 THEN AtBudget(Unseated(t, a))
    ELSE IF ~ (room /\ Numbered(t)) THEN t
    ELSE Reserved(Unseated([t EXCEPT !.att[a].absent = @ \/ keep], a), Left(t, a))

\* recordDrop: the cause is written once, on an attempt that stopped; an
\* unmarked one comes back by itself, a marked one waits for proof.
Dropped(t, a, cause, room) ==
    LET dropped == [t EXCEPT !.att[a].drop = cause,
                             !.att[a].state = IF @ = "abandoned" THEN "dropped" ELSE @]
    IN
    IF t.att[a].drop # "none" \/ t.att[a].state \notin {"abandoned", "liability_unknown"} THEN t
    ELSE IF t.att[a].state = "liability_unknown" THEN dropped
    ELSE Resumed(dropped, a, FALSE, room)

\* attempts_marker_in_owning_state: no row both marked and dropped.  The write of
\* one fails, and its transaction with it.
DropFits(t, a) == t.att[a].state = "abandoned" => ~ Marked(t.att[a])

\* The lease ends and its delegation with it.
Retired(t, a) == [Unseated(t, a) EXCEPT !.att[a].lease = "released"]

\* retireWork: an attempt whose lease is over has nothing to retire.
LeaseRetired(t, a) == IF LeaseLive(t.att[a]) THEN Retired(t, a) ELSE t

\* release: nothing happened, so the hold closes at what its calls cost.
Released(t, a) ==
    LET closed == Closed(t, a, "outcome_recorded", CallsSpent(t.att[a]), FALSE) IN
    [closed EXCEPT !.att[a].state = "abandoned", !.att[a].outcome = "abandoned"]

\* stopReplacement: never while its model call is out.
ReplacementStopped(t, b) ==
    IF CallOpen(t.att[b]) THEN t
    ELSE Released(LeaseRetired(t, b), b)

\* One after another, as the code's loops go through a set of attempts.
InTurn(Op(_, _), t, A) == FoldSet(LAMBDA a, s : Op(s, a), t, A)

Init ==
    /\ att = [a \in Attempt |-> IF a = 1 THEN Fresh(Amount) ELSE Unwritten]
    /\ run = "planned"
    /\ approved = TRUE
    /\ envelope = [held |-> Amount, actual |-> 0]

(***************************************************************************)
(* The worker (pickup.ts, dispatch.ts, heartbeat.ts, handback.ts and the   *)
(* effect's comment).                                                      *)
(***************************************************************************)

\* refusedBeforeAnyWrite and the approval, for every claim.
Claimable(a) ==
    /\ ~ Marked(att[a]) /\ ~ att[a].stopped
    /\ ~ WrittenOff(Tables)
    /\ run # "waiting_budget"
    /\ approved

\* One live lease to the task: one still running refuses the claim, one past
\* its expiry is fenced and its hold classified.
TaskFree == \A b \in Attempt : att[b].lease # "live"

Fenced(t) ==
    InTurn(LAMBDA u, b : Classified([u EXCEPT !.att[b].lease = "expired"], b),
           t, {b \in Attempt : t.att[b].lease = "lapsed"})

LeaseTaken(t, a, agent) ==
    [Fenced(t) EXCEPT !.att[a].state = "dispatched", !.att[a].lease = "live",
              !.att[a].worker = IF agent THEN "agent" ELSE "person",
              !.run = "claimed"]

PickUp(a, agent) ==
    /\ att[a].hold = "held" /\ att[a].lease = "none"
    /\ Claimable(a) /\ TaskFree
    /\ Commit(LeaseTaken(Tables, a, agent))

\* An ended lease is fenced and its hold classified; a hold already closed needs
\* its work unreported, nothing held or newer beside it and its run open.
Replaceable(a) ==
    \/ att[a].hold = "held" /\ att[a].lease \in {"lapsed", "expired", "released"}
    \/ /\ \/ att[a].hold = "abandoned"
          \/ att[a].hold = "actual" /\ att[a].state = "abandoned"
       /\ ~ att[a].reported
       /\ Held(Tables) = {}
       /\ a = Cardinality(Written(Tables))
       /\ run \in {"claimed", "planned"}

LetGo(t, a) ==
    IF t.att[a].hold # "held" THEN t
    ELSE Classified([t EXCEPT !.att[a].lease = IF LeaseLive(t.att[a]) THEN "expired" ELSE @], a)

\* versionRoom: what the run has not committed of its approved ceiling.
VersionRoom(t) ==
    Amount - SumFunctionOnSet([b \in Attempt |-> IF t.att[b].hold = "held" THEN t.att[b].amount
                                                 ELSE t.att[b].actual], Attempt)

PickUpReplacing(a, agent, room) ==
    LET t1 == LetGo(Tables, a)
        amount == Min({Left(t1, a), VersionRoom(t1)})
    IN
    /\ att[a].state # "none"
    /\ Claimable(a) /\ Replaceable(a) /\ TaskFree
    /\ t1.att[a].hold # "held"
    /\ \/ amount <= 0 /\ t1.att[a].lease # "none" /\ Commit(AtBudget(t1))
       \/ /\ amount > 0 /\ room /\ Numbered(t1)
          /\ Commit(LeaseTaken(Reserved(t1, amount), NextNumber(t1), agent))

Lapse(a) ==
    /\ att[a].lease = "live"
    /\ Commit([Tables EXCEPT !.att[a].lease = "lapsed"])

\* Slip: the step's other attempts are not asked.
EffectFactsOfHold(a) ==
    /\ att[a].lease = "live" /\ Stands(att[a]) /\ approved
    /\ att[a].hold = "held" /\ att[a].state = "dispatched"

\* The facts re-read under the locks before the mark.
EffectFacts(a) ==
    /\ att[a].lease = "live" /\ Stands(att[a]) /\ approved
    /\ att[a].hold = "held" /\ att[a].state = "dispatched"
    /\ ~ StepSettled(Tables)

Dispatch(a) ==
    /\ EffectFacts(a)
    /\ Commit([Tables EXCEPT !.att[a].marked = TRUE])

\* A heartbeat records that the worker is about to reach its provider.
StartProvider(a) ==
    /\ att[a].lease = "live" /\ Stands(att[a])
    /\ att[a].marked /\ att[a].state = "dispatched"
    /\ Commit([Tables EXCEPT !.att[a].started = TRUE])

DispatchedToAuthor(a) == att[a].marked /\ att[a].state = "dispatched"

\* effectRefusal's first look, taken before the step's lock.
CheckEffect(a) ==
    /\ Stands(att[a]) /\ att[a].note = "none"
    /\ DispatchedToAuthor(a)
    /\ Commit([Tables EXCEPT !.att[a].note = "checked"])

\* Slip: the first look is believed.
WriteCheckedEffect(a) ==
    /\ att[a].note = "checked"
    /\ Commit([Tables EXCEPT !.att[a].note = "written"])

\* Under the step's lock the attempt is looked at again; a lapsed lease is no
\* refusal.
WriteEffect(a) ==
    /\ att[a].note = "checked"
    /\ Commit([Tables EXCEPT !.att[a].note =
           IF Stands(att[a]) /\ DispatchedToAuthor(a) THEN "written" ELSE "none"])

\* A hand-back; "dropped" names a provider that failed the worker.  "completed"
\* needs every call answered and a marked step settled by its observation.
Clean(r) ==
    /\ ~ CallOpen(r) /\ ~ r.stopped
    /\ Marked(r) => r.observed /\ r.state = "settled" /\ r.outcome = "completed"

HandBack(a, ending, room) ==
    LET r == att[a]
        drop == ending = "dropped"
        t1 == [Unseated(Tables, a) EXCEPT
                  !.att[a].lease = "released", !.att[a].reported = TRUE,
                  !.run = IF drop THEN @ ELSE "handed_back"]
        quiet == ~ Marked(r) /\ ~ CallOpen(r) /\ ~ drop
        t2 == IF quiet THEN [t1 EXCEPT !.att[a].state = "handed_back", !.att[a].outcome = ending]
              ELSE t1
        t3 == Classified(t2, a)
    IN
    /\ r.lease = "live" /\ Stands(r) /\ approved
    /\ ending = "completed" => Clean(r)
    /\ drop => DropFits(t3, a)
    /\ Commit(IF drop THEN Dropped(t3, a, "provider", room) ELSE t3)

(***************************************************************************)
(* The broker's call on the hold and the worker's observation.             *)
(***************************************************************************)
StartCall(a) ==
    /\ att[a].lease = "live" /\ Stands(att[a])
    /\ att[a].hold = "held" /\ att[a].call = "none"
    /\ Commit([Tables EXCEPT !.att[a].call = "dispatched"])

\* A settlement that is no plain answer ends an attempt that still stands.
StoppedAtSettlement(t, a) ==
    IF t.att[a].lease = "live" /\ Stands(t.att[a])
        THEN [Retired(t, a) EXCEPT !.att[a].stopped = TRUE] ELSE t

\* settle: the answer prices the call, or proves that nothing happened, or
\* proves nothing.  The last holds the call and marks its step as acted; a
\* provider's failure drops the attempt as well.
AnswerCall(a, drops, room) ==
    LET held == StoppedAtSettlement(
                    [Tables EXCEPT !.att[a].call = "unknown", !.att[a].lost = TRUE,
                                   !.att[a].marked = @ \/ att[a].state = "dispatched"], a)
        stands == att[a].lease = "live" /\ Stands(att[a])
    IN
    /\ CallOpen(att[a])
    /\ \/ Commit([Tables EXCEPT !.att[a].call = "settled"])
       \/ Commit(StoppedAtSettlement([Tables EXCEPT !.att[a].call = "released"], a))
       \/ /\ att[a].call = "dispatched"
          /\ drops /\ stands => DropFits(Classified(held, a), a)
          /\ Commit(IF drops /\ stands THEN Dropped(Classified(held, a), a, "provider", room)
                    ELSE held)

\* The provider phase of the pass: its lookup proves that a held call did nothing.
ProveCall(a) ==
    /\ att[a].call = "unknown"
    /\ Commit([Tables EXCEPT !.att[a].call = "released"])

\* Slip: whatever became of the hold, its worker's observation settles it.
ObservableAnyHold(r) ==
    /\ r.lease # "none" /\ Stands(r)
    /\ r.state # "liability_unknown"

\* ownedUnderLocks, heldState: under any lease of its own, live or ended, on a
\* hold still held or a settled attempt, and not an unknown liability.
Observable(r) ==
    /\ r.lease # "none" /\ Stands(r)
    /\ r.hold = "held" \/ r.state = "settled"
    /\ r.state # "liability_unknown"

\* observe: the register's effect, or the worker's word that the step failed.
\* An unpriced report (cost 0) or a settled attempt settles nothing; an open call or a cost above
\* the hold keeps the whole hold for a person.
Observe(a, ending, cost) ==
    LET r == att[a]
        applied == r.marked /\ r.note = "written"
        t1 == [Tables EXCEPT !.att[a].observed = @ \/ applied]
        spent == cost + CallsSpent(r)
    IN
    /\ Observable(r)
    /\ applied \/ (r.marked /\ ending = "failed")
    /\ Commit(IF cost = 0 \/ r.state = "settled" THEN t1
              ELSE IF CallOpen(r) \/ spent > r.amount
                  THEN [t1 EXCEPT !.att[a].state = "liability_unknown"]
              ELSE Settled(t1, a, spent, IF applied THEN "completed" ELSE "failed"))

(***************************************************************************)
(* What ends work from outside (Recovery.tla has these for every task).    *)
(***************************************************************************)

\* holdLostCalls: the lost worker's call is held and its step marked.
CallLost(t, a) ==
    IF t.att[a].call # "dispatched" THEN t
    ELSE [t EXCEPT !.att[a].call = "unknown", !.att[a].lost = TRUE,
                   !.att[a].marked = @ \/ t.att[a].state = "dispatched"]

LapsedLost(t) ==
    {a \in Attempt : /\ t.att[a].hold = "held" /\ t.att[a].lease = "lapsed"
                     /\ t.att[a].state # "liability_unknown"}

\* sweepModelCalls: a call out on a lease that is over is held unknown.
CallsSwept(t) ==
    [t EXCEPT !.att = [a \in Attempt |->
        IF t.att[a].call = "dispatched" /\ t.att[a].lease # "live"
            THEN [t.att[a] EXCEPT !.call = "unknown", !.lost = TRUE] ELSE t.att[a]]]

SweptOne(t, a, room) ==
    Dropped(Classified([CallLost(t, a) EXCEPT !.att[a].lease = "expired"], a),
            a, "worker_lost", room)

Swept(room) ==
    CallsSwept(InTurn(LAMBDA t, a : SweptOne(t, a, room), Tables, LapsedLost(Tables)))

Sweep(room) == Commit(Swept(room))

\* Holds whose lease or approval is over and whose end nobody classified.
Unclassified ==
    {a \in Held(Tables) : /\ att[a].state # "liability_unknown"
                          /\ \/ ~ approved
                             \/ /\ att[a].lease \in {"expired", "released"}
                                /\ run # "waiting_budget"}

Replay == Commit(InTurn(Classified, Tables, Unclassified))

\* The delegation or the person's grant behind a live lease is revoked.
LoseAuthority(a) ==
    LET ended == [Tables EXCEPT !.att[a].worker = "ended", !.att[a].lease = "released",
                                !.run = IF @ = "claimed" THEN "planned" ELSE @]
    IN
    /\ LeaseLive(att[a])
    /\ Commit(Classified(ended, a))

\* The lineage is cancelled, or a revision supersedes the version.
EndApproval ==
    LET retired == InTurn(LeaseRetired, Tables, Attempt)
        over == [retired EXCEPT !.run = IF @ \in {"planned", "claimed"} THEN "cancelled" ELSE @]
        t == InTurn(Classified, over, Held(Tables))
    IN
    /\ approved /\ approved' = FALSE
    /\ att' = t.att /\ run' = t.run /\ envelope' = t.envelope

(***************************************************************************)
(* The reconciliation pass.                                                *)
(***************************************************************************)

\* discoverUnknown: marked, never observed, still held, not answered before,
\* and with no live lease behind it.
Asked(r) ==
    /\ r.state = "liability_unknown" /\ r.marked /\ ~ r.observed
    /\ r.hold = "held" /\ ~ r.absent
    /\ ~ LeaseLive(r)

\* Slip: a provider the worker reached is not held against the register.
RegisterOfComments(r) == IF r.note = "written" THEN "present" ELSE "absent"

\* registerEffectLookup: a missing comment proves nothing about a provider that
\* the worker reached.
Register(r) ==
    IF r.note = "written" THEN "present"
    ELSE IF r.started \/ r.drop = "provider" THEN "unanswered"
    ELSE "absent"

\* withProviderCalls: no answer while a held call has none, and its proof speaks
\* for the call only.  callDrop: the attempt's drop is the one its call carries.
Lookup(r, callDrop) ==
    IF ~ r.lost THEN Register(r)
    ELSE IF r.call # "released" THEN "unanswered"
    ELSE IF Register(r) # "unanswered" THEN Register(r)
    ELSE IF r.started \/ ~ callDrop THEN "unanswered"
    ELSE "absent"

\* settlePresent: by the book and the hold's calls, once; a call out, or a price
\* the hold has no room for, is left to a person.
Present(t, a, cost) ==
    LET spent == cost + CallsSpent(t.att[a]) IN
    IF CallOpen(t.att[a]) \/ spent > t.att[a].amount THEN t
    ELSE Settled([t EXCEPT !.att[a].observed = TRUE], a, spent, "completed")

Reconcile(a, callDrop, cost, room) ==
    /\ Asked(att[a])
    /\ \/ Lookup(att[a], callDrop) = "present" /\ Commit(Present(Tables, a, cost))
       \/ Lookup(att[a], callDrop) = "absent" /\ Commit(Resumed(Tables, a, TRUE, room))

\* Slip: a replacement somebody claimed is not found.
ReplacementsUnclaimed ==
    IF ~ WrittenOff(Tables) THEN {}
    ELSE {a \in Held(Tables) : att[a].state = "reserved" /\ att[a].lease = "none"}

\* discoverHeld: held replacements of a written-off step that never dispatched;
\* one whose lease is over is the sweep's to classify first.
Replacements ==
    IF ~ WrittenOff(Tables) THEN {}
    ELSE {a \in Held(Tables) : /\ att[a].state \in {"reserved", "dispatched"}
                               /\ ~ Marked(att[a])
                               /\ att[a].lease \in {"none", "live", "lapsed"}}

StopWrittenOffReplacements == Commit(InTurn(ReplacementStopped, Tables, Replacements))

(***************************************************************************)
(* A person's word.                                                        *)
(***************************************************************************)
Unknown(r) == r.state = "liability_unknown" /\ r.hold = "held"

ResumesOn(r, word) == word # "happened" /\ ~ r.absent

\* resolveHeldCalls: the held call takes the same outcome.
CallResolved(t, a, word) ==
    [t EXCEPT !.att[a].word = word,
              !.att[a].call = IF @ # "unknown" THEN @
                              ELSE IF word = "nothing_happened" THEN "released"
                              ELSE IF word = "written_off" THEN @
                              ELSE "settled"]

\* recordOutcome: "happened" is refused once a replacement dispatched and stops
\* the others; nothing happened gives the hold back, the rest spends it whole.
RecordOutcome(a, word, room) ==
    LET others == Held(Tables) \ {a}
        t1 == IF word = "happened" THEN InTurn(ReplacementStopped, Tables, others) ELSE Tables
        t2 == IF word = "nothing_happened" THEN Released(t1, a)
              ELSE Settled(t1, a, att[a].amount, "completed")
        t3 == CallResolved(t2, a, word)
    IN
    /\ Unknown(att[a])
    /\ word = "happened" => \A b \in others : ~ att[b].marked
    /\ Commit(IF ResumesOn(att[a], word) THEN Resumed(t3, a, FALSE, room) ELSE t3)

\* writeOff: charged the figure, and never less than its calls cost; the step
\* never runs again, so its replacements not yet dispatched are stopped.
WriteOff(a, figure) ==
    LET r == att[a]
        charge == Max({figure, CallsSpent(r)})
        closed == Closed(Tables, a, "written_off", charge, figure = 0 /\ r.marked)
        t1 == [closed EXCEPT
                  !.att[a].state = IF figure > 0 THEN "settled" ELSE "abandoned",
                  !.att[a].outcome = IF figure = 0 /\ r.marked THEN "abandoned" ELSE "unknown"]
        others == {b \in Held(Tables) \ {a} : ~ att[b].marked}
    IN
    /\ Unknown(r) /\ figure <= r.amount
    /\ Commit(CallResolved(InTurn(ReplacementStopped, t1, others), a, "written_off"))

(***************************************************************************)
(* The specification.                                                      *)
(***************************************************************************)
Worker(a, flag, room) ==
    \/ PickUp(a, flag)
    \/ PickUpReplacing(a, flag, room)
    \/ Lapse(a)
    \/ Dispatch(a) \/ StartProvider(a) \/ CheckEffect(a) \/ WriteEffect(a)
    \/ \E ending \in {"completed", "failed", "dropped"} : HandBack(a, ending, room)
    \/ StartCall(a)
    \/ AnswerCall(a, flag, room)
    \/ \E ending \in {"completed", "failed"}, cost \in Costs \cup {0} : Observe(a, ending, cost)

Pass(a, flag, room) ==
    \/ Sweep(room)
    \/ Replay
    \/ ProveCall(a)
    \/ \E cost \in Costs : Reconcile(a, flag, cost, room)
    \/ StopWrittenOffReplacements

Person(a, room) ==
    \/ \E word \in Words \ {"written_off"} : RecordOutcome(a, word, room)
    \/ \E figure \in Figures : WriteOff(a, figure)

Next ==
    \E a \in Attempt, flag, room \in BOOLEAN :
        \/ Worker(a, flag, room)
        \/ LoseAuthority(a) \/ EndApproval
        \/ Pass(a, flag, room)
        \/ Person(a, room)

Spec == Init /\ [][Next]_vars

(***************************************************************************)
(* Correctness.                                                            *)
(***************************************************************************)

\* Every table holds rows of its own kind; runs reach the states the code names.
TypeOK ==
    /\ \A a \in Attempt : att[a] \in Row
    /\ run \in {"planned", "claimed", "handed_back", "waiting_budget", "cancelled"}
    /\ approved \in BOOLEAN
    /\ envelope \in [held : Nat, actual : Nat]

\* Every row is of its kind, and the envelope's totals are those of the step's
\* holds, whoever closed each of them and in whatever order: no hold is given back
\* twice, none is forgotten.
EachHoldClosedOnce ==
    /\ TypeOK
    /\ envelope.held = SumFunctionOnSet([a \in Attempt |-> att[a].amount], Held(Tables))
    /\ envelope.actual = SumFunctionOnSet([a \in Attempt |-> att[a].actual], Attempt)

\* Of the step's holds at most one is at work.  Only a hold whose effect the
\* pass proved absent may be held beside its replacement.
OneWorkingHold == Cardinality({a \in Held(Tables) : ~ att[a].absent}) <= 1

\* The step's effect is written twice only if a person said of the first that it
\* did not happen, or happened otherwise.
RedoneOnlyOnAWord ==
    \A a, b \in Attempt :
        a < b /\ att[a].note = "written" /\ att[b].note = "written"
            => att[a].word \in {"nothing_happened", "happened_differently"}

\* Once a person has written the step off, or said that it happened, no attempt of
\* it is dispatched, not even a replacement that was kept because its model call
\* is out; only the call's own loss may still mark one.
Finished(S) == \E a \in Attempt : S[a].word \in {"written_off", "happened"}

FinishedStepStaysFinished ==
    [][\A a \in Attempt :
           Finished(att) /\ att'[a].marked =>
               \/ att[a].marked
               \/ att'[a].lost /\ ~ att[a].lost]_vars

\* A settled figure never moves: the hold's charge, the attempt's end and the
\* person's word are written once.
AnswersAreFinal ==
    [][\A a \in Attempt :
           /\ att[a].hold \in {"actual", "abandoned"}
                => att'[a].hold = att[a].hold /\ att'[a].actual = att[a].actual
           /\ att[a].word # "none" => att'[a].word = att[a].word
           /\ att[a].outcome # "none" => att'[a].outcome = att[a].outcome
           /\ att[a].state = "settled" => att'[a].state = "settled"]_vars

\* The money of a written-off step does not stay held for a replacement that can
\* never run: it goes back, unless a call is out on it, the worker dispatched it,
\* or its liability became unknown and a person has to answer.
Stranded(a) ==
    /\ WrittenOff(Tables) /\ att[a].hold = "held"
    /\ ~ Marked(att[a]) /\ ~ CallOpen(att[a]) /\ att[a].state # "liability_unknown"

StrandedMoneyComesBack == \A a \in Attempt : Stranded(a) ~> ~ Stranded(a)

\* The pass runs on its interval (startSweeper), each phase in its own transaction.
Fairness ==
    /\ WF_vars(StopWrittenOffReplacements)
    /\ WF_vars(Sweep(TRUE) \/ Sweep(FALSE))
    /\ WF_vars(Replay)

FairSpec == Spec /\ Fairness

=============================================================================
