-------------------------------- MODULE Work --------------------------------
(***************************************************************************)
(* Claiming approved work, doing its effect and handing it back:           *)
(* core-runtime/src/pickup.ts, dispatch.ts, handback.ts and the take_lease *)
(* function of the database.  A heartbeat only postpones a lapse.          *)
(***************************************************************************)
EXTENDS Proposals

(***************************************************************************)
(* Pickup.                                                                 *)
(***************************************************************************)

\* Slip: the recorded stop is not read.
ClaimableAfterStop(t, h) ==
    /\ t.hold[h].state # "none"
    /\ ~ t.hold[h].marked
    /\ t.version[t.hold[h].version].run # "waiting_budget"
    /\ ApprovalCurrent(t, t.hold[h].version)

\* What refuses every claim: a final recorded stop, a dispatch mark, a run that
\* waits at its budget, an approval no longer current.
Claimable(t, h) ==
    /\ t.hold[h].state # "none"
    /\ t.hold[h].end # "final"
    /\ ~ t.hold[h].marked
    /\ t.version[t.hold[h].version].run # "waiting_budget"
    /\ ApprovalCurrent(t, t.hold[h].version)

Unclaimed(t, h) == t.hold[h].state = "held" /\ t.hold[h].lease = Nil

\* Held under a lease that no longer stands.
Abandoned(t, h) ==
    t.hold[h].state = "held" /\ t.hold[h].lease # Nil /\ ~ Standing(t, t.hold[h].lease)

\* Closed without a settled report, with nothing newer or still held in its place.
Replaceable(t, h) ==
    /\ \/ t.hold[h].state = "abandoned"
       \/ t.hold[h].state = "actual" /\ t.hold[h].attempt = "abandoned"
    /\ t.hold[h].lease # Nil => t.lease[t.hold[h].lease].settled = 0
    /\ HeldOn(t, {t.hold[h].version}) = {}
    /\ ~ t.hold[h].replaced
    /\ t.version[t.hold[h].version].run \in {"claimed", "planned"}

\* The expired lease behind a held hold is fenced and the hold classified.
LetGo(t, h) ==
    IF t.hold[h].state = "held"
        THEN Classified(Lost(t, {t.hold[h].lease}), {h}) ELSE t

\* A hold that classification keeps refuses the claim, which rolls back.
Replacing(t, h) ==
    /\ Claimable(t, h)
    /\ Abandoned(t, h) \/ Replaceable(t, h)
    /\ LetGo(t, h).hold[h].state # "held"

\* What the run's spend and holds leave of the version's approved ceiling.
VersionRoom(t, v) ==
    t.version[v].maximum
        - SumFunctionOnSet([h \in Hold |-> IF t.hold[h].state = "held" THEN t.hold[h].amount
                                           ELSE t.hold[h].actual],
                           {h \in Hold : t.hold[h].version = v})

\* The replacement holds what is left of the old hold, within that room.
ReplacementAmount(t, h) == Min({Left(t, h), VersionRoom(t, t.hold[h].version)})

\* One live lease to a task: another that still stands refuses the pickup, one
\* past its expiry is fenced and its hold classified.
TaskFree(t, k) == \A x \in LiveOnTask(t, k) : t.lease[x].lapsed

\* Slip: the hold is classified and the lease left live.
FencedHoldsOnly(t, k) ==
    Classified(t, {h \in Hold : t.hold[h].state = "held" /\ t.hold[h].lease \in LiveOnTask(t, k)})

Fenced(t, k) ==
    LET L == LiveOnTask(t, k)
    IN Classified(Lost(t, L), {h \in Hold : t.hold[h].state = "held" /\ t.hold[h].lease \in L})

NextFence(t, k) ==
    Max({0} \cup {t.lease[x].fence : x \in {y \in Lease : t.lease[y].task = k}}) + 1

\* An agent works under a delegation minted with the lease, a person under none.
LeaseTaken(t, h, x, agent) ==
    LET v == t.hold[h].version
        k == TaskOf(t, v)
    IN [t EXCEPT
           !.lease[x] = [state |-> "live", task |-> k, hold |-> h, fence |-> NextFence(t, k),
                         lapsed |-> FALSE, delegation |-> IF agent THEN "live" ELSE "none",
                         settled |-> 0],
           !.hold[h].lease = x,
           !.hold[h].attempt = "dispatched",
           !.version[v].run = "claimed"]

PickUp(h, x, agent) ==
    LET k == TaskOf(Tables, hold[h].version) IN
    /\ lease[x].state = "none"
    /\ Claimable(Tables, h) /\ Unclaimed(Tables, h)
    /\ TaskFree(Tables, k)
    /\ Commit(LeaseTaken(Fenced(Tables, k), h, x, agent))

PickUpReplacing(h, n, x, agent) ==
    LET v == hold[h].version
        k == TaskOf(Tables, v)
        t1 == LetGo(Tables, h)
        amount == ReplacementAmount(t1, h)
        t2 == Reserved(t1, [m \in {n} |->
                  [version |-> v, envelope |-> hold[h].envelope, amount |-> amount]])
    IN
    /\ lease[x].state = "none" /\ n \in FreshHolds(Tables)
    /\ Replacing(Tables, h)
    /\ amount > 0
    /\ Room(t1, hold[h].envelope, amount)
    /\ TaskFree(t2, k)
    /\ Commit(LeaseTaken(Fenced(t2, k), n, x, agent))

\* Nothing left to hold: the claim is refused and the budget stop kept.
PickUpSpent(h) ==
    LET k == TaskOf(Tables, hold[h].version)
        t1 == LetGo(Tables, h)
    IN
    /\ Replacing(Tables, h)
    /\ ReplacementAmount(t1, h) <= 0
    /\ t1.hold[h].lease # Nil
    /\ TaskFree(t1, k)
    /\ Commit(Fenced(StoppedSpent(t1, {h}, {}), k))

(***************************************************************************)
(* The lease's clock and the effect.                                       *)
(***************************************************************************)

\* The lease's expires_at passes.
LapseLease(x) ==
    /\ Standing(Tables, x)
    /\ lease' = [lease EXCEPT ![x].lapsed = TRUE]
    /\ UNCHANGED <<lineage, version, hold, envelope, call>>

\* The effect-time facts, re-read under the locks: delegation, approval, the
\* reviewed output behind a launch, lease and hold.
EffectFacts(t, x) ==
    LET h == t.lease[x].hold IN
    /\ Standing(t, x)
    /\ t.lease[x].delegation \in {"none", "live"}
    /\ ApprovalCurrent(t, t.hold[h].version)
    /\ t.version[t.hold[h].version].reviewed
    /\ t.hold[h].state = "held" /\ t.hold[h].lease = x
    /\ t.hold[h].attempt = "dispatched"

\* The mark is written once, before the effect is sent.
Dispatch(x) ==
    /\ EffectFacts(Tables, x)
    /\ ~ hold[lease[x].hold].marked
    /\ hold' = [hold EXCEPT ![lease[x].hold].marked = TRUE]
    /\ UNCHANGED <<lineage, version, lease, envelope, call>>

(***************************************************************************)
(* Handing back.  A report from work that no longer stands is kept, as a   *)
(* row of its own, and changes nothing else: it is no action.              *)
(***************************************************************************)

\* The lease stands and its version and lineage are still the live ones.
HandbackBound(t, x) ==
    LET v == t.hold[t.lease[x].hold].version IN
    /\ Standing(t, x)
    /\ t.version[v].state = "current"
    /\ t.lineage[t.version[v].lineage].state = "live"

\* A completed report needs a clean attempt, or the one unobserved launch.
MayComplete(t, x) ==
    LET h == t.lease[x].hold IN
    /\ t.hold[h].end = "none"
    /\ \A c \in Call : t.call[c].lease = x =>
          t.call[c].state \notin {"reserved", "dispatched", "liability_unknown"}
    /\ t.hold[h].marked =>
          t.hold[h].attempt = "dispatched" /\ t.version[t.hold[h].version].reviewed

ReportSettled(t, x) ==
    [t EXCEPT !.lease[x].settled = @ + 1,
              !.lease[x].state = "released",
              !.lease[x].delegation = IF @ = "live" THEN "settled" ELSE @]

\* A dropped attempt keeps its run claimed and is classified as it stands.
Settled(t, x, dropped) ==
    LET h == t.lease[x].hold
        t1 == ReportSettled(t, x)
        t2 == IF dropped THEN t1 ELSE [t1 EXCEPT !.version[t.hold[h].version].run = "handed_back"]
        t3 == IF dropped \/ t.hold[h].marked \/ OpenCall(t, h) THEN t2
              ELSE [t2 EXCEPT !.hold[h].attempt = "handed_back"]
    IN Classified(t3, {h})

HandBack(x, completed) ==
    LET t1 == Settled(Tables, x, FALSE) IN
    /\ HandbackBound(Tables, x)
    /\ completed => MayComplete(Tables, x)
    /\ Commit(IF completed THEN Stopped(t1, {x}, "final") ELSE t1)

\* The output goes back for review as the lineage's next version.
HandBackForReview(x, completed, v, maximum) ==
    LET l == version[hold[lease[x].hold].version].lineage
        t1 == Settled(Tables, x, FALSE)
        t2 == IF completed THEN Stopped(t1, {x}, "final") ELSE t1
    IN
    /\ HandbackBound(Tables, x)
    /\ completed => MayComplete(Tables, x)
    /\ version[v].state = "none"
    /\ CapFits(Tables, maximum)
    /\ RoundsUsed(Tables, l) <= 2
    /\ Commit(ProposalWritten(t2, v, l, maximum, TRUE))

HandBackDropped(x, f) ==
    LET h == lease[x].hold
        t1 == Settled(Tables, x, TRUE)
    IN
    /\ HandbackBound(Tables, x)
    /\ DOMAIN f = Resuming(t1, {h})
    /\ Commit(Dropped(t1, {h}, f, FALSE))

\* run.end: an agent stops its own attempt, for good, under a code only it sees.
EndRun(x) ==
    /\ Standing(Tables, x)
    /\ lease[x].delegation = "live"
    /\ Commit(Retired(Tables, {x}, "final"))
=============================================================================
