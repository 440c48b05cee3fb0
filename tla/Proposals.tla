----------------------------- MODULE Proposals -----------------------------
(***************************************************************************)
(* Proposing bounded work, deciding its gate, and restarting a lineage     *)
(* that ended: core-runtime/src/propose.ts, proposal-writer.ts, decide.ts, *)
(* restart.ts and the tasks.restart command.                               *)
(***************************************************************************)
EXTENDS HoldHelpers

LiveOn(t, V) ==
    {x \in Lease : t.lease[x].state = "live" /\ t.hold[t.lease[x].hold].version \in V}

Open(t, k, maximum) ==
    \/ OpenEnvelope(t, k) = {}
    \/ \E e \in OpenEnvelope(t, k) : EnvelopeFits(t, e, maximum)

(***************************************************************************)
(* Writing a version with its run, step and gate (proposal-writer.ts).     *)
(***************************************************************************)

\* The new version supersedes the lineage's live one.  A gate still pending is
\* superseded with its version and hands its round on.
ProposalWritten(t, v, l, maximum, reviewed) ==
    LET previous == Current(t, l)
        pending == {p \in previous : t.version[p].gate = "pending"}
        round == IF previous = {} THEN 1
                 ELSE IF pending = {} THEN RoundsUsed(t, l)
                 ELSE t.version[CHOOSE p \in pending : TRUE].round
    IN [t EXCEPT !.version = [w \in Version |->
            IF w = v
                THEN [state |-> "current", lineage |-> l, maximum |-> maximum,
                      reviewed |-> reviewed, gate |-> "pending", round |-> round,
                      lapsed |-> FALSE, run |-> "planned", asks |-> 0]
            ELSE IF w \in previous
                THEN [t.version[w] EXCEPT !.state = "superseded",
                                          !.gate = IF w \in pending THEN "superseded" ELSE @]
            ELSE t.version[w]]]

Opened(t, l, k, restarts) ==
    [t EXCEPT !.lineage[l] = [state |-> "live", task |-> k, restarts |-> restarts]]

\* Slip: the holds are classified and the worker keeps its lease.
SupersedingUnretired(t, V) == Classified(t, HeldOn(t, V))

\* Slip: only the claimed holds are classified.
SupersedingClaimed(t, V) ==
    Classified(Retired(t, LiveOn(t, V), "final"), {t.lease[x].hold : x \in LiveOn(t, V)})

\* Work on the superseded version is retired and its holds classified.
Superseding(t, V) ==
    Classified(Retired(t, LiveOn(t, V), "final"), HeldOn(t, V))

(***************************************************************************)
(* Proposing (propose.ts, budget-ledger.ts).                               *)
(***************************************************************************)

\* Slip: every held hold is counted as released.
GivesBackAlways(t, h) == t.hold[h].amount - Spent(t, h)

\* What closing the superseded version's holds will give back.
GivesBack(t, h) == IF Releases(t, h) THEN t.hold[h].amount - Spent(t, h) ELSE 0

ReleasedOnClosing(t, H) == SumFunctionOnSet([h \in Hold |-> GivesBack(t, h)], H)

BudgetRoomToPropose(t, k, l, maximum) ==
    LET holds == HeldOn(t, Current(t, l)) IN
    /\ \A e \in OpenEnvelope(t, k) :
          EnvelopeFits(t, e, maximum - ReleasedOnClosing(t, {h \in holds : t.hold[h].envelope = e}))
    /\ CapFits(t, maximum - ReleasedOnClosing(t, holds))

\* A revision carries the reviewed mark on when the worker whose output was
\* reviewed proposes it.
MayMarkRevision(t, l) == \E w \in Versions(t, l) : t.version[w].reviewed

Propose(k, l, v, maximum, revision) ==
    LET t == Tables
        opens == lineage[l].state = "none"
        t1 == IF opens THEN Opened(t, l, k, Nil) ELSE t
        t2 == ProposalWritten(t1, v, l, maximum, revision)
    IN
    /\ version[v].state = "none"
    /\ opens \/ (lineage[l].state = "live" /\ lineage[l].task = k)
    /\ revision => MayMarkRevision(t, l)
    /\ BudgetRoomToPropose(t, k, l, maximum)
    /\ Commit(Superseding(t2, Current(t, l)))

(***************************************************************************)
(* Restart (restart.ts, propose.ts refuseRestart, tasks-controls.ts).      *)
(***************************************************************************)

\* The new lineage repeats the last version's ceiling under the cap alone, and
\* the task's open envelope is closed.
Restart(old, l, v) ==
    LET k == lineage[old].task
        last == CHOOSE w \in Current(Tables, old) : TRUE
        t1 == Opened(Tables, l, k, old)
        t2 == ProposalWritten(t1, v, l, version[last].maximum, FALSE)
    IN
    /\ lineage[l].state = "none" /\ version[v].state = "none"
    /\ lineage[old].state \in {"rejected", "cancelled"}
    /\ \A n \in Lineage : lineage[n].restarts # old
    /\ CapFits(Tables, version[last].maximum)
    /\ Commit([t2 EXCEPT !.envelope = [e \in Envelope |->
            IF e \in OpenEnvelope(t2, k) THEN [t2.envelope[e] EXCEPT !.state = "closed"]
            ELSE t2.envelope[e]]])

(***************************************************************************)
(* Deciding a gate (decide.ts).                                            *)
(***************************************************************************)

\* Slip: the gate's state is not re-read under the lock.
DecidableOnce(t, v) ==
    /\ t.version[v].gate \in {"pending", "approved"}
    /\ ~ t.version[v].lapsed
    /\ t.version[v].state = "current"
    /\ t.lineage[t.version[v].lineage].state = "live"

\* The gate is open and its version live, re-read under the locks.
Decidable(t, v) ==
    /\ t.version[v].gate = "pending"
    /\ ~ t.version[v].lapsed
    /\ t.version[v].state = "current"
    /\ t.lineage[t.version[v].lineage].state = "live"

GateDecided(t, v, to) == [t EXCEPT !.version[v].gate = to]

\* The task's open envelope takes the reservation, or a first one of the
\* version's maximum.
EnvelopeOpened(t, k, e, maximum) ==
    IF e \in OpenEnvelope(t, k) THEN t
    ELSE [t EXCEPT !.envelope[e] =
              [state |-> "open", task |-> k, maximum |-> maximum, held |-> 0, actual |-> 0]]

Approve(v, e, h) ==
    LET k == TaskOf(Tables, v)
        maximum == version[v].maximum
        t1 == EnvelopeOpened(GateDecided(Tables, v, "approved"), k, e, maximum)
    IN
    /\ Decidable(Tables, v)
    /\ h \in FreshHolds(Tables)
    /\ IF OpenEnvelope(Tables, k) = {} THEN envelope[e].state = "none"
       ELSE e \in OpenEnvelope(Tables, k)
    /\ Open(Tables, k, maximum) /\ CapFits(Tables, maximum)
    /\ Commit(Reserved(t1, [n \in {h} |-> [version |-> v, envelope |-> e, amount |-> maximum]]))

Reject(v) ==
    LET l == version[v].lineage
        t1 == [GateDecided(Tables, v, "rejected") EXCEPT !.lineage[l].state = "rejected"]
    IN
    /\ Decidable(Tables, v)
    /\ Commit(Classified(t1, HeldOn(t1, Versions(t1, l))))

\* Two formal rounds of requested changes, and no third.
RoundsLeft(t, v) == t.version[v].round < 2 \/ RoundsUsed(t, t.version[v].lineage) <= 2

RequestChanges(v) ==
    /\ Decidable(Tables, v)
    /\ RoundsLeft(Tables, v)
    /\ Commit(GateDecided(Tables, v, "changes_requested"))

\* The gate's expires_at passes.
LapseGate(v) ==
    /\ version[v].gate = "pending" /\ ~ version[v].lapsed
    /\ version' = [version EXCEPT ![v].lapsed = TRUE]
    /\ UNCHANGED <<lineage, hold, lease, envelope, call>>
=============================================================================
