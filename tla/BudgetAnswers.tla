--------------------------- MODULE BudgetAnswers ---------------------------
(***************************************************************************)
(* The budget stop of one run and its answers: the model calls that reach  *)
(* a hold's ceiling, the asks, a person's top-up or end, the holds that    *)
(* replace one another, and the money of every call, counted at its        *)
(* maximum and given back once when it ends lower (core-runtime/src:       *)
(* budget-stop.ts, budget-answer*.ts, budget-end.ts, pickup.ts;            *)
(* core-custody/src: broker-wait.ts, broker-give-back.ts,                  *)
(* broker-release.ts, broker-settle.ts).                                   *)
(*                                                                         *)
(* A person runs one step of one version; the step's holds are numbered in *)
(* the order they are reserved, its calls in the order they are.  An       *)
(* action is one transaction under the envelope's lock, or the run's.  Two *)
(* are taken apart, because they meet without a common lock: a count (a    *)
(* top-up, or the end) reads the calls before it locks their rows, and the *)
(* sweep's release of unsent calls reads, locks and releases in three      *)
(* statements, skipping every row that somebody holds.                     *)
(***************************************************************************)
EXTENDS Integers, FiniteSets, Sequences, FiniteSetsExt, Functions

CONSTANTS
    Holds, Calls,   \* how many of each the run may reach: the model's bounds
    Approved,       \* the version's approved ceiling
    EnvelopeMax,    \* what the envelope holds before any top-up
    Cap,            \* the limit of the cap behind it
    CallMax,        \* a call's priced maximum
    Costs,          \* what an answered call may have cost
    StepCosts,      \* what the price book may make of the step's work
    TopUps          \* the amounts a person may top up by

ASSUME SomeBounds == Holds \in Nat \ {0} /\ Calls \in Nat \ {0}
ASSUME SomePrices ==
    /\ Approved \in Nat \ {0} /\ EnvelopeMax \in Nat /\ Cap \in Nat
    /\ Approved <= EnvelopeMax /\ Approved <= Cap   \* what the approval reserved
    /\ CallMax \in Nat \ {0} /\ Costs \subseteq 0 .. CallMax
    /\ StepCosts \subseteq Nat \ {0} /\ TopUps \subseteq Nat \ {0}

Hold == 1 .. Holds
Call == 1 .. Calls

MaxAsks == 3    \* MAX_BUDGET_ASKS

VARIABLES
    hold,       \* reservation -> its row, with its attempt's and its lease's
    call,       \* model call -> its row
    asks,       \* the run's asks in order, each with its answer
    run,        \* the planned run's state
    envelope,   \* the task envelope's totals
    count,      \* the answer between its count of the calls and its commit
    sweep       \* the sweep's release of unsent calls between its statements

vars == <<hold, call, asks, run, envelope, count, sweep>>

HoldRow ==
    [state : {"none", "held", "actual", "abandoned"}, amount : Nat, actual : Nat,
     ended : BOOLEAN,            \* its cause is budget_stop_ended
     lease : {"none", "live", "lapsed", "over"},
     stop : {"none", "open", "final"},   \* its run outcome, and whether a claim may follow it
     step : {"none", "reserved", "dispatched", "unknown", "completed", "failed", "written_off",
             "abandoned", "dropped"},
     marked : BOOLEAN, observed : BOOLEAN, absent : BOOLEAN,
     word : {"none", "nothing", "happened", "differently"}]

CallRow ==
    [state : {"none", "reserved", "dispatched", "unknown", "settled", "released"},
     of : Hold, actual : 0 .. CallMax,
     lost : BOOLEAN, writtenOff : BOOLEAN]   \* unknown_since; a person's write-off

AskRow ==
    [of : Hold, answer : {"open", "top_up", "end"}, amount : Nat,
     found : {"none", "held", "closed"}]    \* hold_state

Uncounting == [kind |-> "none", of |-> 1, amount |-> 0, spent |-> 0, unsent |-> {}]

Idle == [at |-> "idle", counted |-> {}, locked |-> {}]

NoHold == [state |-> "none", amount |-> 0, actual |-> 0, ended |-> FALSE, lease |-> "none",
           stop |-> "none", step |-> "none", marked |-> FALSE, observed |-> FALSE,
           absent |-> FALSE, word |-> "none"]

NoCall == [state |-> "none", of |-> 1, actual |-> 0, lost |-> FALSE, writtenOff |-> FALSE]

\* The rows a transaction reads and writes, passed from one helper to the next.
Tables == [hold |-> hold, call |-> call, asks |-> asks, run |-> run, envelope |-> envelope]

(***************************************************************************)
(* What the calls of a hold come to.                                       *)
(***************************************************************************)
CallsOn(t, h) == {c \in Call : t.call[c].state # "none" /\ t.call[c].of = h}

Sent == {"dispatched", "unknown"}
Open == {"reserved"} \cup Sent

\* A settled call at its actual, an open or unknown one at the maximum it holds.
CallSpend(r) == IF r.state = "settled" THEN r.actual ELSE IF r.state \in Open THEN CallMax ELSE 0

\* committedMinor, spentOn and callsSpentOf: the hold's spend to date.
SpentOn(t, h) == SumFunctionOnSet([c \in Call |-> CallSpend(t.call[c])], CallsOn(t, h))

\* The top-up answers on the hold, those that found it held among them.
ToppedUp(t, h) == \E i \in DOMAIN t.asks : t.asks[i].of = h /\ t.asks[i].answer = "top_up"

ToppedUpHeld(t, h) ==
    \E i \in DOMAIN t.asks :
        t.asks[i].of = h /\ t.asks[i].answer = "top_up" /\ t.asks[i].found = "held"

\* countedHold: the hold counted its open calls at their maximum.
Counted(t, h) == t.hold[h].ended \/ ToppedUp(t, h)

\* modelCallsOn: nothing more once a top-up moved the spend to date.
CallsCost(t, h) ==
    IF ToppedUp(t, h) THEN 0
    ELSE SumFunctionOnSet(
             [c \in Call |-> IF t.call[c].state = "settled" THEN t.call[c].actual ELSE 0],
             CallsOn(t, h))

CallOut(t, h) ==
    /\ ~ ToppedUp(t, h)
    /\ \E c \in CallsOn(t, h) : t.call[c].state \in Sent

\* Slip: whether the hold ever counted the call is not asked.
GivenBackAnyway(t, c) ==
    LET h == t.call[c].of
        back == CallMax - t.call[c].actual
    IN
    IF t.call[c].state \notin {"settled", "released"} \/ t.call[c].writtenOff THEN t
    ELSE [t EXCEPT
             !.hold[h].amount = IF t.hold[h].state = "held" THEN @ + back ELSE @,
             !.envelope.actual = @ - back,
             !.envelope.held = IF t.hold[h].state = "held" THEN @ + back ELSE @]

\* giveBack: what an ended call did not spend of the maximum it was counted at,
\* back onto its hold while that is held, else off the envelope's actual alone.
GivenBack(t, c) ==
    LET h == t.call[c].of
        back == CallMax - t.call[c].actual
    IN
    IF \/ t.call[c].state \notin {"settled", "released"} \/ t.call[c].writtenOff
       \/ ~ Counted(t, h)
    THEN t
    ELSE [t EXCEPT
             !.hold[h].amount = IF t.hold[h].state = "held" THEN @ + back ELSE @,
             !.envelope.actual = @ - back,
             !.envelope.held = IF t.hold[h].state = "held" THEN @ + back ELSE @]

AllGivenBack(t, C) == FoldSet(LAMBDA c, u : GivenBack(u, c), t, C)

CallsMoved(t, C, state) ==
    [t EXCEPT !.call = [c \in Call |->
        IF c \in C THEN [t.call[c] EXCEPT !.state = state] ELSE t.call[c]]]

Unsent(t, h) == {c \in CallsOn(t, h) : t.call[c].state = "reserved"}

(***************************************************************************)
(* Holds: reserving, closing, classifying, and the end of a lease.         *)
(***************************************************************************)
Written(t) == {h \in Hold : t.hold[h].state # "none"}

HeldIn(t) == {h \in Hold : t.hold[h].state = "held"}

TopUpsOf(t) ==
    SumFunctionOnSet(
        [i \in DOMAIN t.asks |-> IF t.asks[i].answer = "top_up" THEN t.asks[i].amount ELSE 0],
        DOMAIN t.asks)

\* envelopeVerdict and capVerdict.
Fits(t, amount) ==
    /\ t.envelope.held + t.envelope.actual + amount <= t.envelope.maximum
    /\ t.envelope.held + t.envelope.actual + amount <= Cap

NextHold(t) == Cardinality(Written(t)) + 1

\* reserve: a held hold and an attempt nobody claimed.
Reserved(t, amount) ==
    [t EXCEPT !.hold[NextHold(t)] = [NoHold EXCEPT !.state = "held", !.amount = amount,
                                                   !.step = "reserved"],
              !.envelope.held = @ + amount]

Reservable(t, amount) == Fits(t, amount) /\ NextHold(t) \in Hold

\* closeHold and settleAtObserved: the envelope gives the hold back once and
\* takes only the charge.
Closed(t, h, charge, step) ==
    [t EXCEPT !.hold[h].state = IF charge > 0 THEN "actual" ELSE "abandoned",
              !.hold[h].actual = charge, !.hold[h].step = step,
              !.envelope.held = @ - t.hold[h].amount,
              !.envelope.actual = @ + charge]

\* classifyUnderLocks: a marked step, or a call out, keeps the whole hold for a
\* person; anything else closes it at what its settled calls cost.
Classified(t, h) ==
    IF t.hold[h].state # "held" THEN t
    ELSE IF t.hold[h].marked \/ CallOut(t, h)
        THEN [t EXCEPT !.hold[h].step =
                  IF @ = "dispatched" \/ ~ t.hold[h].marked THEN "unknown" ELSE @]
    ELSE Closed(t, h, CallsCost(t, h), "abandoned")

\* recordStop and endLease: the first outcome stands, and unsent calls are
\* released, those a count took left for the sweep, which gives them back.
Retired(t, h, stop) ==
    [CallsMoved(t, IF Counted(t, h) THEN {} ELSE Unsent(t, h), "released")
        EXCEPT !.hold[h].lease = "over", !.hold[h].stop = IF @ = "none" THEN stop ELSE @]

WrittenOff(t) == \E h \in Hold : t.hold[h].step = "written_off"

\* The step is done: written off, or completed by an attempt that no person said
\* happened differently.
StepSettled(t) ==
    \/ WrittenOff(t)
    \/ \E h \in Hold : t.hold[h].step = "completed" /\ t.hold[h].word # "differently"

(***************************************************************************)
(* The database's own guards over a transaction's writes.                  *)
(***************************************************************************)

\* planned_runs_budget_wait_holds: a waiting run moves only by its latest ask's
\* answer, to planned by a top-up and to cancelled by an end.
WaitHolds(t) ==
    run = "waiting" =>
        LET answer == t.asks[Len(t.asks)].answer IN
        \/ t.run = "waiting"
        \/ t.run = "planned" /\ answer = "top_up"
        \/ t.run = "cancelled" /\ answer = "end"

\* reservations_one_active_per_version_idx.
OneActive(t) == Cardinality({h \in HeldIn(t) : ~ t.hold[h].absent}) <= 1

Admitted(t) == WaitHolds(t) /\ OneActive(t)

Commit(t) ==
    /\ Admitted(t)
    /\ hold' = t.hold /\ call' = t.call /\ asks' = t.asks /\ run' = t.run
    /\ envelope' = t.envelope

\* A transaction under the envelope's or the run's lock: no answer is between its
\* count and its commit, and the sweep holds neither.
Alone == count = Uncounting /\ sweep.counted = {}

\* A transaction that locks the hold's unsent calls waits for the sweep's rows.
RowsFree(h) == \A c \in sweep.locked : call[c].of # h

Alter(t) == Alone /\ Commit(t) /\ UNCHANGED <<count, sweep>>

(***************************************************************************)
(* The stop.                                                               *)
(***************************************************************************)

\* Slip: the run waits, and its lease is left live.
StopsBesideLease(t, h) ==
    IF Len(t.asks) < MaxAsks
    THEN [t EXCEPT
             !.asks = Append(@, [of |-> h, answer |-> "open", amount |-> 0, found |-> "none"]),
             !.run = IF @ = "claimed" THEN "waiting" ELSE @]
    ELSE [Retired(t, h, "open") EXCEPT !.run = "cancelled"]

\* stopAtBudget: the lease ends, the run asks and waits; past its third ask it ends.
AtBudget(t, h) ==
    IF Len(t.asks) < MaxAsks
    THEN [Retired(t, h, "open") EXCEPT
             !.asks = Append(@, [of |-> h, answer |-> "open", amount |-> 0, found |-> "none"]),
             !.run = IF @ = "claimed" THEN "waiting" ELSE @]
    ELSE [Retired(t, h, "open") EXCEPT !.run = "cancelled"]

\* stopAtSpentHold: the same on a closed hold, the run claimed for it.
AtSpentHold(t, h) == AtBudget([t EXCEPT !.run = IF @ = "planned" THEN "claimed" ELSE @], h)

\* Slip: what the old hold settled at is not taken off.
LeftWhole(t, h) == t.hold[h].amount

\* What an old hold leaves a new one: its amount less what it settled at.
Left(t, h) == t.hold[h].amount - t.hold[h].actual

\* resume: the step again on what its hold left, unless it was written off;
\* nothing left asks a person, and without room it keeps its stop.
Resumed(t, h, left, keep) ==
    LET kept == [t EXCEPT !.hold[h].absent = @ \/ keep] IN
    IF WrittenOff(t) THEN t
    ELSE IF left <= 0 THEN AtSpentHold(t, h)
    ELSE IF Reservable(t, left) THEN Reserved(kept, left)
    ELSE t

(***************************************************************************)
(* The worker: pickup, its calls, its effect.                              *)
(***************************************************************************)
Init ==
    /\ hold = [h \in Hold |->
                 IF h = 1 THEN [NoHold EXCEPT !.state = "held", !.amount = Approved,
                                              !.step = "reserved"]
                 ELSE NoHold]
    /\ call = [c \in Call |-> NoCall]
    /\ asks = <<>>
    /\ run = "planned"
    /\ envelope = [held |-> Approved, actual |-> 0, maximum |-> EnvelopeMax]
    /\ count = Uncounting
    /\ sweep = Idle

\* refusedBeforeAnyWrite and claimStopped.
Claimable(h) ==
    ~ hold[h].marked /\ ~ WrittenOff(Tables) /\ run # "waiting" /\ hold[h].stop # "final"

\* fenceLiveLease: the other leases on the task have all run out, and each is
\* fenced and its hold classified.
TaskFree(h) == \A g \in Hold \ {h} : hold[g].lease # "live"

Fenced(t, h) ==
    FoldSet(LAMBDA g, u : Classified(Retired(u, g, "open"), g), t,
            {g \in Hold \ {h} : t.hold[g].lease = "lapsed"})

\* take_lease and writeLease: whatever the run's state was, it is claimed.
Claimed(t, h) ==
    [t EXCEPT !.hold[h].lease = "live", !.hold[h].step = "dispatched", !.run = "claimed"]

PickUp(h) ==
    /\ hold[h].state = "held" /\ hold[h].lease = "none" /\ hold[h].step = "reserved"
    /\ Claimable(h) /\ TaskFree(h) /\ \A g \in Hold : RowsFree(g)
    /\ Alter(Claimed(Fenced(Tables, h), h))

\* versionRoom: the approved ceiling and the top-ups, less what the holds
\* committed: a held one whole, a counted one at its calls as they stand and what
\* it closed at, any other at what it closed at.
CommittedBy(t, h) ==
    IF t.hold[h].state = "held" THEN t.hold[h].amount
    ELSE IF ~ Counted(t, h) THEN t.hold[h].actual
    ELSE IF t.hold[h].state = "actual" /\ ~ ToppedUpHeld(t, h)
        THEN Max({t.hold[h].actual, SpentOn(t, h)})
    ELSE t.hold[h].actual + SpentOn(t, h)

VersionRoom(t) ==
    Approved + TopUpsOf(t) - SumFunctionOnSet([h \in Hold |-> CommittedBy(t, h)], Written(t))

\* replaceable: the newest hold, closed with its work not settled, on an open run.
Replaceable(h) ==
    /\ \/ hold[h].state = "abandoned"
       \/ hold[h].state = "actual" /\ hold[h].step = "abandoned"
    /\ HeldIn(Tables) = {}
    /\ \A g \in Written(Tables) : g <= h
    /\ run \in {"claimed", "planned"}

\* claimHold: an ended lease's hold is classified first, and must close; its
\* replacement holds what it left, within the version's room, and nothing left,
\* or no room, stops the run at its budget.
PickUpReplacing(h) ==
    LET own == IF hold[h].state # "held" THEN Tables
               ELSE Classified(IF hold[h].lease = "lapsed" THEN Retired(Tables, h, "open")
                               ELSE Tables, h)
        t == Fenced(own, h)
        left == Left(own, h)
        size == Min({left, VersionRoom(own)})
    IN
    /\ \/ hold[h].state = "held" /\ hold[h].lease \in {"lapsed", "over"}
       \/ Replaceable(h)
    /\ Claimable(h) /\ TaskFree(h) /\ \A g \in Hold : RowsFree(g)
    /\ own.hold[h].state # "held"
    /\ IF size <= 0
       THEN /\ hold[h].lease # "none"
            /\ Alter(AtSpentHold(t, h))
       ELSE /\ Reservable(own, size)
            /\ Alter(Claimed(Reserved(t, size), NextHold(t)))

Working(h) == hold[h].state = "held" /\ hold[h].lease = "live"

Unknown(t, h) == \E c \in CallsOn(t, h) : t.call[c].state = "unknown"

NextCall == Cardinality({c \in Call : call[c].state # "none"}) + 1

\* Slip: what the hold's other calls may cost is not taken off.
RoomBesideCalls(h) == CallMax <= hold[h].amount

\* The call's maximum, in what the hold has left of its spend to date.
RoomFor(h) == CallMax <= hold[h].amount - SpentOn(Tables, h)

\* reserveModelCall: a refusal ends the attempt, always with a sibling held
\* unknown; a maximum the hold has no room for stops the run.
ReserveCall(h) ==
    /\ Working(h) /\ RowsFree(h)
    /\ \/ Alter(Retired(Tables, h, "final"))
       \/ /\ ~ Unknown(Tables, h)
          /\ ~ RoomFor(h)
          /\ Alter(AtBudget(Tables, h))
       \/ /\ ~ Unknown(Tables, h)
          /\ RoomFor(h)
          /\ NextCall \in Call
          /\ Alter([Tables EXCEPT
                !.call[NextCall] = [NoCall EXCEPT !.state = "reserved", !.of = h]])

\* markStarted: sent while the work stands and no sibling is unknown; refused
\* otherwise, and released with what was counted of it given back.
Start(c) ==
    LET h == call[c].of
        released == GivenBack(CallsMoved(Tables, {c}, "released"), c)
    IN
    /\ call[c].state = "reserved" /\ RowsFree(h)
    /\ \/ /\ Working(h) /\ ~ Unknown(Tables, h)
          /\ Alter(CallsMoved(Tables, {c}, "dispatched"))
       \/ Working(h) /\ Alter(Retired(released, h, "final"))
       \/ ~ Working(h) /\ Alter(released)

\* stopAtSettlement: work that still stands ends with its call.
Stopped(t, h) == IF t.hold[h].lease = "live" THEN Retired(t, h, "final") ELSE t

\* settle, priced within the maximum: the call ends at its cost.
Price(c, cost) ==
    LET priced == [Tables EXCEPT !.call[c].state = "settled", !.call[c].actual = cost] IN
    /\ call[c].state \in Sent
    /\ Alter(GivenBack(priced, c))

\* settle, on proof that nothing happened: the call is released and its attempt ends.
AnswerNothing(c) ==
    /\ call[c].state \in Sent /\ RowsFree(call[c].of)
    /\ Alter(Stopped(GivenBack(CallsMoved(Tables, {c}, "released"), c), call[c].of))

\* settle with no answer, or hold: the maximum stays held and the step is marked.
AnswerUnknown(c) ==
    LET h == call[c].of
        held == [Tables EXCEPT !.call[c].state = "unknown", !.call[c].lost = TRUE,
                               !.hold[h].marked = @ \/ hold[h].step = "dispatched"]
    IN
    /\ call[c].state = "dispatched" /\ RowsFree(h)
    /\ Alter(Stopped(held, h))

\* releaseProved: the provider proves an unknown call absent.
ProveCall(c) ==
    /\ call[c].state = "unknown" /\ ~ call[c].writtenOff
    /\ Alter(GivenBack(CallsMoved(Tables, {c}, "released"), c))

\* dispatch: the effect is marked before it is tried, on work that stands.
Dispatch(h) ==
    /\ Working(h) /\ hold[h].step = "dispatched" /\ ~ hold[h].marked
    /\ ~ StepSettled(Tables)
    /\ Alter([Tables EXCEPT !.hold[h].marked = TRUE])

\* observe: a person's own lease settles when it ended too.  Above the hold, or
\* with a call out, the whole hold stays for a person.
Observe(h, ending, cost) ==
    LET spent == cost + CallsCost(Tables, h)
        seen == [Tables EXCEPT !.hold[h].observed = @ \/ ending = "completed"]
    IN
    /\ hold[h].marked /\ hold[h].step = "dispatched" /\ hold[h].state = "held"
    /\ hold[h].lease # "none"
    /\ \/ /\ ~ CallOut(Tables, h) /\ spent <= hold[h].amount
          /\ Alter(Closed(seen, h, spent, ending))
       \/ /\ CallOut(Tables, h) \/ spent > hold[h].amount
          /\ Alter([seen EXCEPT !.hold[h].step = "unknown"])

(***************************************************************************)
(* The passes: leases that ran out, calls nobody answered, steps unknown.  *)
(***************************************************************************)
Lapse(h) ==
    /\ hold[h].lease = "live"
    /\ hold' = [hold EXCEPT ![h].lease = "lapsed"]
    /\ UNCHANGED <<call, asks, run, envelope, count, sweep>>

\* holdLostCalls: a started call is held and its step marked, an unsent one released.
CallsLost(t, h) ==
    LET started == {c \in CallsOn(t, h) : t.call[c].state = "dispatched"}
        unsent == Unsent(t, h)
        held == [t EXCEPT
                   !.call = [c \in Call |->
                       IF c \in started THEN [t.call[c] EXCEPT !.state = "unknown", !.lost = TRUE]
                       ELSE t.call[c]],
                   !.hold[h].marked = @ \/ (started # {} /\ t.hold[h].step = "dispatched")]
    IN AllGivenBack(CallsMoved(held, unsent, "released"), unsent)

\* sweepExpiredLeases and recordDrop: the lost worker's hold is classified, and
\* a step abandoned by it is dropped and comes back.
LoseWorker(h) ==
    LET t == Classified(Retired(CallsLost(Tables, h), h, "open"), h) IN
    /\ hold[h].state = "held" /\ hold[h].lease = "lapsed" /\ hold[h].step # "unknown"
    /\ RowsFree(h)
    /\ Alter(IF t.hold[h].step = "abandoned"
             THEN Resumed([t EXCEPT !.hold[h].step = "dropped"], h, Left(t, h), FALSE)
             ELSE t)

\* replayRecordedTransitions: an ended lease's hold, unless a person is asked.
Replay(h) ==
    /\ hold[h].state = "held" /\ hold[h].lease = "over" /\ hold[h].step # "unknown"
    /\ run # "waiting"
    /\ Alter(Classified(Tables, h))

\* reconcileUnknown: what the pass may ask the register about.
Reconcilable(h) ==
    /\ hold[h].state = "held" /\ hold[h].step = "unknown"
    /\ hold[h].marked /\ ~ hold[h].observed /\ ~ hold[h].absent
    /\ hold[h].lease = "over"
    /\ \A c \in CallsOn(Tables, h) : call[c].lost => call[c].state = "released"

\* The effect is absent: the hold stays, and the step comes back beside it.
ProveAbsent(h) ==
    /\ Reconcilable(h)
    /\ \A g \in Hold : RowsFree(g)
    /\ Alter(Resumed(Tables, h, Left(Tables, h), TRUE))

\* settlePresent: the effect is there, within the hold and with no call out.
ProvePresent(h, cost) ==
    LET spent == cost + CallsCost(Tables, h) IN
    /\ Reconcilable(h)
    /\ ~ CallOut(Tables, h) /\ spent <= hold[h].amount
    /\ Alter(Closed([Tables EXCEPT !.hold[h].observed = TRUE], h, spent, "completed"))

LeaseEnded(h) == hold[h].lease \in {"lapsed", "over"}

\* sweepModelCalls: a started call with no answer is held, under no lock but its row's.
SweepUnanswered(c) ==
    /\ call[c].state = "dispatched" /\ LeaseEnded(call[c].of)
    /\ sweep = Idle
    /\ call' = [call EXCEPT ![c].state = "unknown", ![c].lost = TRUE]
    /\ UNCHANGED <<hold, asks, run, envelope, count, sweep>>

SweptUnsent == {c \in Call : call[c].state = "reserved" /\ LeaseEnded(call[c].of)}

\* releaseUnsent, first: the counted ones, with their envelope and hold, none of
\* them while a count holds the envelope.
SweepCounted ==
    /\ sweep = Idle
    /\ sweep' = [at |-> "counted", locked |-> {},
                 counted |-> IF count # Uncounting THEN {}
                             ELSE {c \in SweptUnsent : Counted(Tables, call[c].of)}]
    /\ UNCHANGED <<hold, call, asks, run, envelope, count>>

\* Then the rows of the rest.
SweepLocked ==
    /\ sweep.at = "counted"
    /\ sweep' = [sweep EXCEPT !.at = "locked", !.locked = SweptUnsent \ sweep.counted]
    /\ UNCHANGED <<hold, call, asks, run, envelope, count>>

\* Slip: only the calls a count took are released.
SweptCountedAlone ==
    LET swept == SweptUnsent \cap sweep.counted
    IN AllGivenBack(CallsMoved(Tables, swept, "released"), swept)

\* And the release, which asks again whether a count took the row's call.
SweptReleased ==
    LET uncounted == {c \in sweep.locked : ~ Counted(Tables, call[c].of)}
        swept == SweptUnsent \cap (sweep.counted \cup uncounted)
    IN AllGivenBack(CallsMoved(Tables, swept, "released"), swept \cap sweep.counted)

SweepReleases ==
    /\ sweep.at = "locked"
    /\ Commit(SweptReleased)
    /\ sweep' = Idle
    /\ UNCHANGED count

(***************************************************************************)
(* A person's answer to the stop.                                          *)
(***************************************************************************)

\* openAnswer, waitsOn: the run waits, and its latest ask is unanswered.
Answerable == run = "waiting" /\ asks # <<>> /\ asks[Len(asks)].answer = "open"

Stop == asks[Len(asks)].of

\* capVerdict, for the top-up's amount.
CapAllows(amount) == envelope.held + envelope.actual + amount <= Cap

\* recordedRefusal: the step was written off, or the stopped hold's own attempt
\* was settled as done.
Recorded == WrittenOff(Tables) \/ hold[Stop].step = "completed"

Answered(t, kind, amount, found) ==
    [t EXCEPT !.asks[Len(t.asks)].answer = kind, !.asks[Len(t.asks)].amount = amount,
              !.asks[Len(t.asks)].found = found]

Counting(kind, amount) ==
    [kind |-> kind, of |-> Stop, amount |-> amount, spent |-> SpentOn(Tables, Stop),
     unsent |-> Unsent(Tables, Stop)]

\* spentOn: the top-up's locks, its refusals and its count of a held hold's calls.
CountForTopUp(amount) ==
    /\ Alone /\ Answerable /\ hold[Stop].state = "held"
    /\ ~ Recorded /\ CapAllows(amount)
    /\ count' = Counting("top_up", amount)
    /\ UNCHANGED <<hold, call, asks, run, envelope, sweep>>

\* observedRefusal and spentOn: the same for the end.
CountForEnd ==
    /\ Alone /\ Answerable /\ hold[Stop].state = "held"
    /\ hold[Stop].step # "unknown"
    /\ count' = Counting("end", 0)
    /\ UNCHANGED <<hold, call, asks, run, envelope, sweep>>

\* giveBackReleased: calls counted unsent that the sweep released since.
ReleasedSince(t) ==
    AllGivenBack(t, {c \in count.unsent : t.call[c].state = "released"})

\* raiseHold: the hold at the raised ceiling less the spend, the spend moved to
\* the envelope's actual, the run back for its pickup.
Raised(t) ==
    [t EXCEPT !.hold[count.of].amount = @ + count.amount - count.spent,
              !.envelope.maximum = @ + count.amount,
              !.envelope.held = @ + count.amount - count.spent,
              !.envelope.actual = @ + count.spent,
              !.run = "planned"]

ToppedUpNow == ReleasedSince(Raised(Answered(Tables, "top_up", count.amount, "held")))

CommitAnswer(kind, t) ==
    /\ count.kind = kind
    /\ sweep.locked \cap count.unsent = {}
    /\ Commit(t)
    /\ count' = Uncounting
    /\ UNCHANGED sweep

TopUpHeld == CommitAnswer("top_up", ToppedUpNow)

\* releaseUnstarted: the run's other holds that nothing started end with it.
Unstarted(t, h) ==
    LET others == {g \in HeldIn(t) \ {h} : t.hold[g].lease = "none"
                                           /\ t.hold[g].step = "reserved"
                                           /\ CallsOn(t, g) = {}}
    IN FoldSet(LAMBDA g, u :
                   [Closed(u, g, 0, "abandoned") EXCEPT !.hold[g].ended = TRUE], t, others)

RunEnded(t, h) == [Unstarted(Answered(t, "end", 0, "none"), h) EXCEPT !.run = "cancelled"]

\* endHeld: the hold abandoned at its spend to date and the rest released.
Ended(t) ==
    [t EXCEPT !.hold[count.of].state = "abandoned", !.hold[count.of].ended = TRUE,
              !.envelope.held = @ - t.hold[count.of].amount,
              !.envelope.actual = @ + count.spent]

EndHeld == CommitAnswer("end", RunEnded(ReleasedSince(Ended(Tables)), count.of))

\* endAtBudgetStop on a stop whose hold is closed: no money of its own.
EndClosed ==
    /\ Answerable /\ hold[Stop].state # "held"
    /\ Alter(RunEnded(Tables, Stop))

\* openCallOn: a call the hold's closing left out, which no count takes.
OutAtClose(h) ==
    \E c \in CallsOn(Tables, h) :
        call[c].state \in Sent /\ (call[c].writtenOff \/ ~ Counted(Tables, h))

\* releaseUncounted: the closed hold's unsent calls, before the answer counts it.
UncountedReleased(t, h) ==
    IF Counted(t, h) \/ ~ LeaseEnded(h) THEN t ELSE CallsMoved(t, Unsent(t, h), "released")

\* holdTopUp: the step's fresh hold, on the envelope raised by the amount.
TopUpClosed(amount) ==
    LET h == Stop
        answered == Answered(UncountedReleased(Tables, h), "top_up", amount, "closed")
        raised == [answered EXCEPT !.envelope.maximum = @ + amount, !.run = "planned"]
    IN
    /\ Answerable /\ hold[h].state # "held"
    /\ ~ OutAtClose(h) /\ ~ Recorded /\ CapAllows(amount)
    /\ RowsFree(h)
    /\ Reservable(raised, amount)
    /\ Alter(Reserved(raised, amount))

(***************************************************************************)
(* A person's word on an unknown step.                                     *)
(***************************************************************************)

\* resolveHeldCalls: the hold's unknown calls take the outcome, and a call that
\* ends so gives back what was counted of it.
CallsResolved(t, h, word) ==
    LET held == {c \in CallsOn(t, h) : t.call[c].state = "unknown" /\ ~ t.call[c].writtenOff}
        resolved == [t EXCEPT !.call = [c \in Call |->
            IF c \notin held THEN t.call[c]
            ELSE CASE word = "nothing" -> [t.call[c] EXCEPT !.state = "released"]
                   [] word = "written_off" -> [t.call[c] EXCEPT !.writtenOff = TRUE]
                   [] OTHER -> [t.call[c] EXCEPT !.state = "settled", !.actual = CallMax]]]
    IN AllGivenBack(resolved, held)

\* stopReplacement: another held attempt of the step is closed at its calls'
\* cost, unless one of them is out.
ReplacementStopped(t, g) ==
    IF CallOut(t, g) THEN t
    ELSE [Closed(t, g, CallsCost(t, g), "abandoned")
            EXCEPT !.hold[g].lease = IF @ = "none" THEN "none" ELSE "over"]

Beside(h) == HeldIn(Tables) \ {h}

StoppedBeside(t, G) == FoldSet(LAMBDA g, u : ReplacementStopped(u, g), t, G)

Answers(h) == hold[h].state = "held" /\ hold[h].step = "unknown" /\ \A g \in Hold : RowsFree(g)

\* recordOutcome, happened: the whole hold is spent and the work finished.
SayHappened(h) ==
    LET stopped == StoppedBeside(Tables, Beside(h))
        closed == Closed(stopped, h, hold[h].amount, "completed")
        worded == [closed EXCEPT !.hold[h].word = "happened"]
    IN
    /\ Answers(h)
    /\ \A g \in Beside(h) : ~ hold[g].marked
    /\ Alter(CallsResolved(worded, h, "happened"))

\* nothing_happened: the hold closes at its calls' cost and the work resumes on
\* the rest, unless the pass resumed it already.
NothingSaid(h) ==
    LET closed == Closed(Tables, h, CallsCost(Tables, h), "abandoned")
        worded == CallsResolved([closed EXCEPT !.hold[h].word = "nothing"], h, "nothing")
    IN IF hold[h].absent THEN worded ELSE Resumed(worded, h, Left(worded, h), FALSE)

SayNothing(h) == Answers(h) /\ Alter(NothingSaid(h))

\* happened_differently: the whole hold is spent and the work comes back whole.
SayDifferently(h) ==
    LET closed == Closed(Tables, h, hold[h].amount, "completed")
        worded == CallsResolved([closed EXCEPT !.hold[h].word = "differently"], h, "differently")
    IN
    /\ Answers(h)
    /\ Alter(IF hold[h].absent THEN worded ELSE Resumed(worded, h, hold[h].amount, FALSE))

\* writeOff: the hold is charged the figure, and never less than its calls.
WriteOff(h, figure) ==
    LET closed == Closed(Tables, h, Max({figure, CallsCost(Tables, h)}), "written_off")
        stopped == StoppedBeside(closed, {g \in Beside(h) : ~ hold[g].marked})
    IN
    /\ Answers(h)
    /\ Alter(CallsResolved(stopped, h, "written_off"))

(***************************************************************************)
(* The next step, by who takes it.                                         *)
(***************************************************************************)
Works ==
    \/ \E h \in Hold : PickUp(h) \/ PickUpReplacing(h) \/ ReserveCall(h) \/ Lapse(h)
    \/ \E c \in Call :
          \/ Start(c) \/ AnswerUnknown(c) \/ AnswerNothing(c)
          \/ \E cost \in Costs : Price(c, cost)

Acts ==
    \E h \in Hold :
        Dispatch(h) \/ \E ending \in {"completed", "failed"}, cost \in StepCosts : Observe(h, ending, cost)

Proves ==
    \/ \E c \in Call : ProveCall(c)
    \/ \E h \in Hold : ProveAbsent(h) \/ \E cost \in StepCosts : ProvePresent(h, cost)

Passes ==
    \/ \E h \in Hold : LoseWorker(h) \/ Replay(h)
    \/ \E c \in Call : SweepUnanswered(c)
    \/ SweepCounted \/ SweepLocked \/ SweepReleases

StopIsAnswered ==
    \/ \E amount \in TopUps : CountForTopUp(amount) \/ TopUpClosed(amount)
    \/ CountForEnd \/ TopUpHeld \/ EndHeld \/ EndClosed

StepIsAnswered ==
    \E h \in Hold : \/ SayHappened(h) \/ SayNothing(h) \/ SayDifferently(h)
                    \/ \E figure \in {0, hold[h].amount} : WriteOff(h, figure)

Next == Works \/ Acts \/ Proves \/ Passes \/ StopIsAnswered \/ StepIsAnswered

Spec == Init /\ [][Next]_vars

\* The pass runs on its interval and a count's transaction ends.
Fairness ==
    /\ WF_vars(SweepCounted) /\ WF_vars(SweepLocked) /\ WF_vars(SweepReleases)
    /\ WF_vars(TopUpHeld) /\ WF_vars(EndHeld)

FairSpec == Spec /\ Fairness

(***************************************************************************)
(* Properties.                                                             *)
(***************************************************************************)

\* Every row is of its type, and no hold, total or envelope is below zero
\* (0012 and 0013's checks on the columns).
TypeOK ==
    /\ hold \in [Hold -> HoldRow]
    /\ call \in [Call -> CallRow]
    /\ asks \in Seq(AskRow)
    /\ run \in {"planned", "claimed", "waiting", "cancelled"}
    /\ envelope.held \in Nat /\ envelope.actual \in Nat /\ envelope.maximum \in Nat
    /\ count.kind \in {"none", "top_up", "end"} /\ count.of \in Hold
    /\ count.spent \in Nat /\ count.unsent \subseteq Call
    /\ sweep.counted \subseteq Call /\ sweep.locked \subseteq Call

\* A count moved the hold's calls to the envelope's actual: the end's, or a
\* top-up's that found the hold held.
Moved(h) == hold[h].ended \/ ToppedUpHeld(Tables, h)

\* What the envelope carries of a counted call: its maximum until it ends, and
\* for good when a person wrote it off.
Carried(r) == IF r.writtenOff THEN CallMax ELSE CallSpend(r)

CarriedOf(H) ==
    SumFunctionOnSet([c \in Call |-> Carried(call[c])],
                     {c \in Call : call[c].state # "none" /\ call[c].of \in H})

\* The envelope holds exactly its held holds, and has spent exactly what its
\* closed holds closed at and what the counted calls carry: nothing is given
\* back twice, or left behind, whichever of the settlement, the start, the
\* lost-worker sweep, the release of unsent calls and the count's own reread
\* ends the call (broker-give-back.ts).
EnvelopeBalances ==
    /\ TypeOK
    /\ envelope.held = SumFunctionOnSet([h \in Hold |-> hold[h].amount], HeldIn(Tables))
    /\ envelope.actual =
          SumFunctionOnSet([h \in Hold |-> hold[h].actual], Hold)
          + CarriedOf({h \in Hold : Moved(h)})

\* What a person let the step spend a second time: a hold proved absent stays
\* held beside its replacement, and one that happened differently is spent whole
\* and comes back whole.  Either stands for its amount and for what a count moved
\* off it to the envelope.
Reopened ==
    LET again == {h \in Hold : hold[h].word = "differently" \/ hold[h].absent} IN
    SumFunctionOnSet([h \in Hold |-> hold[h].amount], again)
        + CarriedOf({h \in again : Moved(h)})

\* The version's holds and spend stay within its approved ceiling, the top-ups a
\* person approved, and the holds a person's or the register's word reopened,
\* however often the run stops, lapses and is picked up (versionRoom); and within
\* the envelope and the cap behind it, though a top-up raises the one and the
\* count reads before it writes.
SpendIsApproved ==
    LET committed == envelope.held + envelope.actual IN
    /\ committed <= Approved + TopUpsOf(Tables) + Reopened
    /\ committed <= envelope.maximum
    /\ committed <= Cap

\* A held hold covers what its calls may still cost, or a count took them; no
\* call is charged to nothing (broker-facts.ts committedMinor).
HeldCoversCalls ==
    \A h \in HeldIn(Tables) : Moved(h) \/ SpentOn(Tables, h) <= hold[h].amount

\* While the run waits nothing works for it: no lease is live, so no call is
\* reserved or sent and nothing spends until a person answers (broker-wait.ts).
NothingWorksWhileItWaits ==
    run = "waiting" => \A h \in Hold : hold[h].lease # "live"

\* A call its hold counted is never released without being given back later, and
\* no unsent call outlives its lease for good: the pass ends each one, though it
\* skips the rows and envelopes a count holds (broker-release.ts).
UnsentCallsEnd ==
    \A c \in Call :
        (call[c].state = "reserved" /\ LeaseEnded(call[c].of)) ~> call[c].state # "reserved"

(***************************************************************************)
(* What comments in the code say, and the code does not do.                *)
(***************************************************************************)

\* recorded-refusal.ts: a top-up cannot apply to a step written off, or recorded
\* as done, after the run stopped.
SettledStepTakesNoTopUp ==
    [][run = "waiting" /\ run' = "planned" => ~ StepSettled(Tables)]_vars

\* broker-wait.ts: a stop after the consolidated ask ends the run.
EndedRunStaysEnded == [][run = "cancelled" => run' = "cancelled"]_vars
=============================================================================
