---------------------------- MODULE HoldHelpers ----------------------------
(***************************************************************************)
(* The helpers every transaction of the runtime is composed of: recording  *)
(* an attempt's stop, ending leases and delegations, classifying a hold,   *)
(* reserving one, stopping a run at its budget, and resuming after a drop. *)
(* Each takes tables and returns tables.  The code runs a helper row by    *)
(* row; no row's outcome depends on another's, so a helper takes the set   *)
(* of rows at once.                                                        *)
(***************************************************************************)
EXTENDS RuntimeTables

(***************************************************************************)
(* Stops and retirement (core-custody/src/broker-stop.ts,                  *)
(* core-runtime/src/recovery/lease-retirement.ts).                         *)
(***************************************************************************)

\* The first recorded stop of an attempt is kept, and the calls its lease never
\* sent are released with it.
Stopped(t, L, code) ==
    [t EXCEPT
        !.hold = [h \in Hold |->
            IF t.hold[h].lease \in L /\ t.hold[h].end = "none"
                THEN [t.hold[h] EXCEPT !.end = code] ELSE t.hold[h]],
        !.call = [c \in Call |->
            IF t.call[c].lease \in L /\ t.call[c].state = "reserved"
                THEN [t.call[c] EXCEPT !.state = "released"] ELSE t.call[c]]]

Ended(t, L, to) ==
    [t EXCEPT !.lease = [x \in Lease |->
        IF x \in L /\ t.lease[x].state = "live"
            THEN [t.lease[x] EXCEPT !.state = to] ELSE t.lease[x]]]

\* A delegation is revoked once: one settled or revoked before stays as it is.
Revoked(t, L) ==
    [t EXCEPT !.lease = [x \in Lease |->
        IF x \in L /\ t.lease[x].delegation = "live"
            THEN [t.lease[x] EXCEPT !.delegation = "revoked"] ELSE t.lease[x]]]

\* The lease is fenced after its expiry; its delegation is left alone.
Lost(t, L) == Ended(Stopped(t, L, "retryable"), L, "expired")

\* Slip: the lease is left to its expiry.
RetiredUnended(t, L, code) == Revoked(Stopped(t, L, code), L)

\* retireWork and retireAttempt: the stop, the lease and the delegation.
Retired(t, L, code) == Revoked(Ended(Stopped(t, L, code), L, "released"), L)

RunsReopened(t, V) ==
    [t EXCEPT !.version = [v \in Version |->
        IF v \in V /\ t.version[v].run = "claimed"
            THEN [t.version[v] EXCEPT !.run = "planned"] ELSE t.version[v]]]

(***************************************************************************)
(* The classifier (recovery/classifier.ts, close-hold.ts).                 *)
(***************************************************************************)

\* Slip: the open calls are not read.
ReleasesUnmarked(t, h) == t.hold[h].state = "held" /\ ~ t.hold[h].marked

\* Slip: the dispatch mark is not read.
ReleasesWhateverMark(t, h) == t.hold[h].state = "held" /\ ~ OpenCall(t, h)

\* A held hold is released unless its step was dispatched or one of its model
\* calls was sent and never settled.
Releases(t, h) ==
    /\ t.hold[h].state = "held"
    /\ ~ t.hold[h].marked
    /\ ~ OpenCall(t, h)

\* Slip: the spend goes to the envelope and not to the hold's row.
ClosedHoldUncharged(t, h) ==
    [t.hold[h] EXCEPT
        !.state = IF Spent(t, h) > 0 THEN "actual" ELSE "abandoned",
        !.attempt = IF Spent(t, h) > 0 /\ @ = "handed_back" THEN @ ELSE "abandoned"]

\* The hold closes at what its calls cost; an attempt handed back keeps that
\* state only beside a cost.
ClosedHold(t, h) ==
    LET spent == Spent(t, h) IN
    [t.hold[h] EXCEPT
        !.state = IF spent > 0 THEN "actual" ELSE "abandoned",
        !.actual = spent,
        !.attempt = IF spent > 0 /\ @ = "handed_back" THEN @ ELSE "abandoned"]

\* The whole hold is kept as an unknown liability.
UnknownHold(t, h) ==
    [t.hold[h] EXCEPT !.attempt =
        IF t.hold[h].marked /\ @ # "dispatched" THEN @ ELSE "liability_unknown"]

ClosedOf(t, H, e) == {h \in H : Releases(t, h) /\ t.hold[h].envelope = e}

Classified(t, H) ==
    [t EXCEPT
        !.hold = [h \in Hold |->
            IF h \notin H \/ t.hold[h].state # "held" THEN t.hold[h]
            ELSE IF Releases(t, h) THEN ClosedHold(t, h) ELSE UnknownHold(t, h)],
        !.envelope = [e \in Envelope |->
            [t.envelope[e] EXCEPT
                !.held = @ - SumFunctionOnSet([h \in Hold |-> t.hold[h].amount], ClosedOf(t, H, e)),
                !.actual = @ + SumFunctionOnSet([h \in Hold |-> Spent(t, h)], ClosedOf(t, H, e))]]]

(***************************************************************************)
(* Reservations (decide.ts reserve).                                       *)
(***************************************************************************)

\* new: fresh hold -> the version, envelope and amount it is written with.  The
\* run's earlier reservations are replaced from then on.
Reserved(t, new) ==
    [t EXCEPT
        !.hold = [h \in Hold |->
            IF h \in DOMAIN new
                THEN [state |-> "held", version |-> new[h].version, envelope |-> new[h].envelope,
                      amount |-> new[h].amount, actual |-> 0, lease |-> Nil, replaced |-> FALSE,
                      attempt |-> "reserved", marked |-> FALSE, end |-> "none"]
            ELSE [t.hold[h] EXCEPT
                      !.replaced = @ \/ \E n \in DOMAIN new : new[n].version = t.hold[h].version]],
        !.envelope = [e \in Envelope |->
            [t.envelope[e] EXCEPT !.held =
                @ + SumFunctionOnSet([n \in DOMAIN new |-> new[n].amount],
                                     {n \in DOMAIN new : new[n].envelope = e})]]]

\* Slip: the business cap is left to the envelope.
RoomInEnvelope(t, e, amount) == EnvelopeFits(t, e, amount)

\* The room a reservation needs under its envelope and under the business cap.
Room(t, e, amount) == EnvelopeFits(t, e, amount) /\ CapFits(t, amount)

FreshHolds(t) == {h \in Hold : t.hold[h].state = "none"}

(***************************************************************************)
(* The budget stop (core-custody/src/broker-wait.ts, budget-stop.ts).      *)
(***************************************************************************)

\* The run waits for a person while it has asks left and is cancelled after.
AtBudget(t, V) ==
    [t EXCEPT !.version = [v \in Version |->
        IF v \notin V THEN t.version[v]
        ELSE IF t.version[v].asks < MaxBudgetAsks
            THEN [t.version[v] EXCEPT !.asks = @ + 1,
                                      !.run = IF @ = "claimed" THEN "waiting_budget" ELSE @]
            ELSE [t.version[v] EXCEPT !.run = "cancelled"]]]

VersionsOf(t, H) == {t.hold[h].version : h \in H}

LeasesOf(t, H) == {t.hold[h].lease : h \in H} \ {Nil}

\* The run of each hold, claimed again if it was reopened, stops at its budget.
\* L names the leases whose delegation the caller hands over for revoking.
StoppedSpent(t, H, L) ==
    LET claimed == [t EXCEPT !.version = [v \in Version |->
            IF v \in VersionsOf(t, H) /\ t.version[v].run = "planned"
                THEN [t.version[v] EXCEPT !.run = "claimed"] ELSE t.version[v]]]
        stopped == Ended(Stopped(claimed, LeasesOf(t, H), "retryable"), LeasesOf(t, H), "released")
    IN AtBudget(Revoked(stopped, L), VersionsOf(t, H))

(***************************************************************************)
(* A dropped attempt and its resumption (recovery/drop.ts, reconcile.ts).  *)
(***************************************************************************)
\* Slip: the spend of the closed hold is forgotten.
LeftWhole(t, h) == t.hold[h].amount

Left(t, h) == t.hold[h].amount - t.hold[h].actual

\* Of the holds H whose attempts stopped, those dropped: an attempt kept as an
\* unknown liability stays for the reconciliation pass.
Dropping(t, H) == {h \in H : t.hold[h].attempt = "abandoned" /\ t.hold[h].lease # Nil}

\* Those resumed need an approval still current and room for what is left.
\* Each asks for no more than its own close released, so they are judged alone.
Resuming(t, H) ==
    {h \in Dropping(t, H) : /\ ApprovalCurrent(t, t.hold[h].version)
                            /\ Left(t, h) > 0
                            /\ Room(t, t.hold[h].envelope, Left(t, h))}

Exhausted(t, H) ==
    {h \in Dropping(t, H) : ApprovalCurrent(t, t.hold[h].version) /\ Left(t, h) <= 0}

\* f: each resumed hold -> its fresh one.  retire: the drop also revokes the
\* delegation of the attempt it replaces (the lost-worker sweep does).
Dropped(t, H, f, retire) ==
    LET dropped == [t EXCEPT !.hold = [h \in Hold |->
            IF h \in Dropping(t, H) THEN [t.hold[h] EXCEPT !.attempt = "dropped"] ELSE t.hold[h]]]
        revoke(S) == IF retire THEN LeasesOf(t, S) ELSE {}
        old(n) == CHOOSE h \in DOMAIN f : f[h] = n
        spent == StoppedSpent(dropped, Exhausted(t, H), revoke(Exhausted(t, H)))
        again == Reserved(spent, [n \in {f[h] : h \in DOMAIN f} |->
                     [version |-> t.hold[old(n)].version, envelope |-> t.hold[old(n)].envelope,
                      amount |-> Left(t, old(n))]])
    IN Revoked(again, revoke(DOMAIN f))
=============================================================================
