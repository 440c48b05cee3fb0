------------------------------ MODULE Recovery ------------------------------
(***************************************************************************)
(* What ends work from outside it: the lost-worker sweep and the replay of *)
(* the reconciliation pass, cancellation, and the loss of authority        *)
(* (core-runtime/src/recovery, apps/api/recovery-entry.ts).                *)
(***************************************************************************)
EXTENDS ModelCalls

(***************************************************************************)
(* The sweep of leases that ran out.                                       *)
(***************************************************************************)

\* Slip: a marked step is left to its worker.
ExpiredUnmarked(t) ==
    {h \in Hold : /\ t.hold[h].state = "held" /\ t.hold[h].lease # Nil
                  /\ t.lease[t.hold[h].lease].state = "live"
                  /\ t.lease[t.hold[h].lease].lapsed
                  /\ ~ t.hold[h].marked}

\* discoverExpired: holds under a live lease past its expiry.
Expired(t) ==
    {h \in Hold : /\ t.hold[h].state = "held" /\ t.hold[h].lease # Nil
                  /\ t.lease[t.hold[h].lease].state = "live"
                  /\ t.lease[t.hold[h].lease].lapsed
                  /\ t.hold[h].attempt # "liability_unknown"}

\* holdLostCalls: a call that was sent is held unknown and marks its step as
\* acted; one never sent is released.
CallsLost(t, H) ==
    [t EXCEPT
        !.call = [c \in Call |->
            IF t.call[c].hold \notin H THEN t.call[c]
            ELSE IF t.call[c].state = "dispatched"
                THEN [t.call[c] EXCEPT !.state = "liability_unknown"]
            ELSE IF t.call[c].state = "reserved"
                THEN [t.call[c] EXCEPT !.state = "released"]
            ELSE t.call[c]],
        !.hold = [h \in Hold |->
            IF /\ h \in H /\ t.hold[h].attempt = "dispatched"
               /\ \E c \in CallsOn(t, h) : t.call[c].state = "dispatched"
                THEN [t.hold[h] EXCEPT !.marked = TRUE] ELSE t.hold[h]]]

\* Every expired lease is fenced and its hold classified before any is resumed.
ExpiredFenced(t) ==
    LET H == Expired(t)
        t1 == CallsLost(t, H)
    IN Classified(Lost(t1, LeasesOf(t1, H)), H)

\* sweepLostWorkers, then sweepModelCalls, in one transaction.
Swept(t, f) == CallsSwept(Dropped(ExpiredFenced(t), Expired(t), f, TRUE))

SweepPass(f) ==
    /\ DOMAIN f = Resuming(ExpiredFenced(Tables), Expired(Tables))
    /\ Commit(Swept(Tables, f))

(***************************************************************************)
(* The replay of recorded transitions.                                     *)
(***************************************************************************)

\* Slip: a lease released without a classification is no end.
EligibleExpired(t, h) ==
    LET r == t.hold[h]
        v == r.version
    IN
    /\ r.state = "held" /\ r.attempt # "liability_unknown"
    /\ \/ t.lineage[t.version[v].lineage].state \in {"rejected", "cancelled"}
       \/ t.version[v].state = "superseded"
       \/ /\ t.version[v].run # "waiting_budget"
          /\ r.lease # Nil
          /\ t.lease[r.lease].state = "expired"

\* discoverEligible: held, not already unknown, with a recorded end that no
\* classification followed.  Elapsed time is none; a run waiting at its budget
\* ended its own lease and keeps its hold for a person's answer.
Eligible(t, h) ==
    LET r == t.hold[h]
        v == r.version
    IN
    /\ r.state = "held" /\ r.attempt # "liability_unknown"
    /\ \/ t.lineage[t.version[v].lineage].state \in {"rejected", "cancelled"}
       \/ t.version[v].state = "superseded"
       \/ /\ t.version[v].run # "waiting_budget"
          /\ r.lease # Nil
          /\ \/ t.lease[r.lease].delegation = "revoked"
             \/ t.lease[r.lease].state \in {"expired", "released"}

\* The first cause that holds: an ended lineage or a superseded version comes
\* before a revoked delegation.
LostAuthority(t, h) ==
    LET v == t.hold[h].version IN
    /\ Eligible(t, h)
    /\ t.lineage[t.version[v].lineage].state = "live"
    /\ t.version[v].state = "current"
    /\ t.hold[h].lease # Nil
    /\ t.lease[t.hold[h].lease].delegation = "revoked"

Replayed(t) ==
    LET E == {h \in Hold : Eligible(t, h)}
        A == {h \in E : LostAuthority(t, h)}
        t1 == RunsReopened(Retired(t, LeasesOf(t, A), "retryable"), VersionsOf(t, A))
    IN Classified(t1, E)

Replay == Commit(Replayed(Tables))

(***************************************************************************)
(* Cancellation and the loss of authority.                                 *)
(***************************************************************************)
Cancel(l) ==
    LET V == Versions(Tables, l)
        t1 == [Tables EXCEPT !.lineage[l].state = "cancelled"]
        t2 == Retired(t1, LiveOn(t1, V), "final")
        t3 == [t2 EXCEPT !.version = [v \in Version |->
                  IF v \in V /\ t2.version[v].run \in {"planned", "claimed"}
                      THEN [t2.version[v] EXCEPT !.run = "cancelled"] ELSE t2.version[v]]]
    IN
    /\ lineage[l].state = "live"
    /\ Commit(Classified(t3, HeldOn(t3, V)))

\* L: the live leases whose delegation or person's grant is lost at once.
LoseAuthority(L) ==
    LET held == {h \in Hold : hold[h].state = "held" /\ hold[h].lease \in L}
        t1 == Classified(Retired(Tables, L, "retryable"), held)
    IN
    /\ L # {} /\ \A x \in L : lease[x].state = "live"
    /\ Commit(RunsReopened(t1, {hold[lease[x].hold].version : x \in L}))
=============================================================================
