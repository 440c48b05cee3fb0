---------------------------- MODULE TaskRuntime ----------------------------
(***************************************************************************)
(* The core runtime of one business: every command, worker call and        *)
(* recovery pass interleaved, one transaction to a step, with the clocks   *)
(* of gates and leases running beside them.                                *)
(***************************************************************************)
EXTENDS Recovery

NoLineage == [state |-> "none", task |-> Nil, restarts |-> Nil]
NoVersion == [state |-> "none", lineage |-> Nil, maximum |-> 0, reviewed |-> FALSE,
              gate |-> "none", round |-> 0, lapsed |-> FALSE, run |-> "planned", asks |-> 0]
NoHold == [state |-> "none", version |-> Nil, envelope |-> Nil, amount |-> 0, actual |-> 0,
           lease |-> Nil, replaced |-> FALSE, attempt |-> "none", marked |-> FALSE, end |-> "none"]
NoLease == [state |-> "none", task |-> Nil, hold |-> Nil, fence |-> 0, lapsed |-> FALSE,
            delegation |-> "none", settled |-> 0]
NoEnvelope == [state |-> "none", task |-> Nil, maximum |-> 0, held |-> 0, actual |-> 0]
NoCall == [state |-> "none", hold |-> Nil, lease |-> Nil, maximum |-> 0, actual |-> 0]

Init ==
    /\ lineage = [l \in Lineage |-> NoLineage]
    /\ version = [v \in Version |-> NoVersion]
    /\ hold = [h \in Hold |-> NoHold]
    /\ lease = [x \in Lease |-> NoLease]
    /\ envelope = [e \in Envelope |-> NoEnvelope]
    /\ call = [c \in Call |-> NoCall]

\* The fresh hold each resumed one gets.
Renewals(S) == Injection(S, FreshHolds(Tables))

Deciding ==
    \/ \E k \in Task, l \in Lineage, v \in Version, m \in Amounts, r \in BOOLEAN : Propose(k, l, v, m, r)
    \/ \E old, l \in Lineage, v \in Version : Restart(old, l, v)
    \/ \E v \in Version, e \in Envelope, h \in Hold : Approve(v, e, h)
    \/ \E v \in Version : Reject(v)
    \/ \E v \in Version : RequestChanges(v)

Working ==
    \/ \E h \in Hold, x \in Lease, agent \in BOOLEAN : PickUp(h, x, agent)
    \/ \E h, n \in Hold, x \in Lease, agent \in BOOLEAN : PickUpReplacing(h, n, x, agent)
    \/ \E h \in Hold : PickUpSpent(h)
    \/ \E x \in Lease : Dispatch(x)
    \/ \E x \in Lease, completed \in BOOLEAN : HandBack(x, completed)
    \/ \E x \in Lease, completed \in BOOLEAN, v \in Version, m \in Amounts :
          HandBackForReview(x, completed, v, m)
    \/ \E x \in {y \in Lease : HandbackBound(Tables, y)} :
          \E f \in Renewals(Resuming(Settled(Tables, x, TRUE), {lease[x].hold})) : HandBackDropped(x, f)
    \/ \E x \in Lease : EndRun(x)

Calling ==
    \/ \E x \in Lease, c \in Call, m \in Amounts : ReserveCall(x, c, m)
    \/ \E x \in Lease, m \in Amounts : StopAtCeiling(x, m)
    \/ \E x \in Lease : RefuseCall(x)
    \/ \E c \in Call : StartCall(c)
    \/ \E c \in Call : RefuseStart(c)
    \/ \E c \in Call, cost \in Amounts \cup {0} : SettleCall(c, cost)
    \/ \E c \in Call : ReleaseCall(c)
    \/ \E c \in Call, drops \in BOOLEAN : HoldCall(c, drops)

Sweeping ==
    \E f \in Renewals(Resuming(ExpiredFenced(Tables), Expired(Tables))) : SweepPass(f)

Ending ==
    \/ \E l \in Lineage : Cancel(l)
    \/ \E L \in SUBSET Lease : LoseAuthority(L)

Lapsing ==
    \/ \E v \in Version : LapseGate(v)
    \/ \E x \in Lease : LapseLease(x)

Next == Deciding \/ Working \/ Calling \/ Sweeping \/ Replay \/ Ending \/ Lapsing

Spec == Init /\ [][Next]_vars

TypeOK ==
    /\ lineage \in [Lineage -> LineageRow]
    /\ version \in [Version -> VersionRow]
    /\ hold \in [Hold -> HoldRow]
    /\ lease \in [Lease -> LeaseRow]
    /\ envelope \in [Envelope -> EnvelopeRow]
    /\ call \in [Call -> CallRow]

\* The API runs the reconciliation pass on an interval, a sweep and then a
\* replay; nobody promises that anything else of the system is ever done.  The
\* fairness is WF_vars of each, its ENABLED written out as the state predicate
\* it amounts to: the pass would change something.
SweepDue ==
    \E f \in Renewals(Resuming(ExpiredFenced(Tables), Expired(Tables))) : Swept(Tables, f) # Tables

ReplayDue == Replayed(Tables) # Tables

FairSpec ==
    /\ Spec
    /\ []<>(~ SweepDue) \/ []<><<Sweeping>>_vars
    /\ []<>(~ ReplayDue) \/ []<><<Replay>>_vars

(***************************************************************************)
(* Work: who may be working on what.  Each is a predicate of tables, so    *)
(* that a proof can carry it through the helpers of a transaction.         *)
(***************************************************************************)

\* One worker to a task: however pickups, expiries, fences, resumptions and
\* revisions interleave, no two leases of a task are live at once, or the same
\* work is done and paid for twice (pickup.ts fenceLiveLease).
OneLiveLease(t) ==
    \A x, y \in Lease :
        t.lease[x].state = "live" /\ t.lease[y].state = "live" /\ t.lease[x].task = t.lease[y].task
            => x = y

OneLiveLeasePerTask == OneLiveLease(Tables)

\* A live lease always covers work that is still approved: its hold is held and
\* bound to it alone, its attempt is the one dispatched, its version is the
\* lineage's current one under an approved gate, on the lease's own task.  Every
\* command that ends any of these (supersede, reject, cancel, revoke, stop,
\* expire) must end the lease in the same transaction (retireWork, loseLease).
WorksApproved(t, x) ==
    LET h == t.lease[x].hold IN
    /\ h \in Hold /\ t.hold[h].state = "held" /\ t.hold[h].lease = x
    /\ t.hold[h].attempt = "dispatched"
    /\ ApprovalCurrent(t, t.hold[h].version)
    /\ TaskOf(t, t.hold[h].version) = t.lease[x].task

LiveLeaseWorksApproved(t) ==
    \A x \in Lease : t.lease[x].state = "live" => WorksApproved(t, x)

LiveWorkIsApproved == LiveLeaseWorksApproved(Tables)

\* One open hold to a version: a replacement, a resumption or a second approval
\* never reserves beside a hold still held (pickup.ts replaceable, reconcile.ts
\* resume).
OneHeld(t) ==
    \A h, i \in Hold :
        t.hold[h].state = "held" /\ t.hold[i].state = "held" /\ t.hold[h].version = t.hold[i].version
            => h = i

OneHoldPerVersion == OneHeld(Tables)

(***************************************************************************)
(* Money.                                                                  *)
(***************************************************************************)

\* Every row is of its type, and the envelope's running totals are the sums of its
\* reservations: no hold is released twice, charged twice or forgotten, whichever
\* of the sweep, the replay, a pickup or a command closes it (close-hold.ts,
\* decide.ts reserve).
LedgerBalanced ==
    /\ TypeOK
    /\ \A e \in Envelope :
          LET ofE == {h \in Hold : hold[h].envelope = e} IN
          /\ envelope[e].held =
                SumFunctionOnSet([h \in Hold |-> hold[h].amount],
                                 {h \in ofE : hold[h].state = "held"})
          /\ envelope[e].actual = SumFunctionOnSet([h \in Hold |-> hold[h].actual], ofE)

\* Nothing is committed past an envelope's ceiling or past the business cap.
CeilingsHold ==
    /\ \A e \in Envelope : envelope[e].held + envelope[e].actual <= envelope[e].maximum
    /\ Committed(Tables) <= CapLimit

\* A closed hold was charged exactly what its calls cost, for ever: no call of
\* it is in flight, and no late answer settles another cost against it
\* (classifier.ts keeps the hold while a call is open).
ClosedHoldPaidItsCalls ==
    \A h \in Hold : hold[h].state \in {"abandoned", "actual"} =>
        ~ OpenCall(Tables, h) /\ hold[h].actual = Spent(Tables, h)

\* A proposal accepted now could be approved now: the room it was judged on,
\* forecast from the holds its superseding would release, is the room those
\* closes really leave (budget-ledger.ts releasedOnClosing, classifier.ts).
ProposalFitsCap ==
    [][\A v \in Version : version[v].state = "none" /\ version'[v].state = "current"
          => Committed(Tables)' + version'[v].maximum <= CapLimit]_vars

(***************************************************************************)
(* Stops.                                                                  *)
(***************************************************************************)

\* Never both a mark and a release: a step whose effect may have been sent
\* keeps its whole hold, whichever of dispatch and the sweep commits first
\* (sweep.ts, classifier.ts).
MarkedHoldIsKept ==
    \A h \in Hold : hold[h].marked => hold[h].state = "held"

\* An attempt ended for good is never replaced by a fresh reservation, by a
\* claim or by a resumption (lease-ownership.ts claimStopped, drop.ts).
FinalStopIsNotReplaced ==
    \A h \in Hold : hold[h].end = "final" => ~ hold[h].replaced

\* No hold of an ended lineage or of a superseded version is left to be worked:
\* what is still held there is an unknown liability (decide.ts reject,
\* propose.ts, cancelAndClassify).
EndedWorkIsClassified ==
    \A h \in Hold :
        /\ hold[h].state = "held"
        /\ \/ version[hold[h].version].state = "superseded"
           \/ lineage[version[hold[h].version].lineage].state # "live"
        => hold[h].attempt = "liability_unknown"

(***************************************************************************)
(* What the repository says and the code does not do.                      *)
(***************************************************************************)

\* tasks-controls.ts closeOpenEnvelope: the envelope a restart closes "keeps its
\* settled spend and funds nothing new".  A replacement or a resumption under a
\* sibling lineage still reserves in it, by its id.
ClosedEnvelopeFundsNothing ==
    [][\A e \in Envelope : envelope[e].state = "closed" => envelope'[e].held <= envelope[e].held]_vars

(***************************************************************************)
(* Recovery, under the interval of its pass.                               *)
(***************************************************************************)

\* A worker that stops answering is fenced.
LapsedLeaseIsFenced ==
    \A x \in Lease : (lease[x].state = "live" /\ lease[x].lapsed) ~> lease[x].state # "live"

\* A hold whose lease has ended does not stay claimed: it is released, kept as
\* an unknown liability, or waits for a person's budget answer.
EndedHoldIsClassified ==
    \A h \in Hold :
        (hold[h].state = "held" /\ hold[h].lease # Nil)
            ~> \/ hold[h].state # "held"
               \/ hold[h].attempt = "liability_unknown"
               \/ \E x \in Lease : lease[x].state = "live" /\ hold[h].lease = x
               \/ version[hold[h].version].run = "waiting_budget"

\* A call left open by ended work is closed or held unknown.
OrphanCallIsResolved ==
    \A c \in Call :
        (call[c].state \in {"reserved", "dispatched"} /\ ~ Standing(Tables, call[c].lease))
            ~> call[c].state \notin {"reserved", "dispatched"}
=============================================================================
