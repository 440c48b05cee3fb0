------------------------- MODULE TaskRuntimeProofs -------------------------
(***************************************************************************)
(* The work invariant is inductive: every command, worker call and         *)
(* recovery pass of the runtime keeps it, whatever the tables hold and     *)
(* however large they are.                                                 *)
(*                                                                         *)
(* First, what each helper of a transaction does to the state of the work, *)
(* and when the work invariant survives it.  Helpers that end work are all *)
(* of one form, Ends; the three that begin it (a reservation, a lease, a   *)
(* proposal version) have a lemma each.  Then every action.                *)
(***************************************************************************)
EXTENDS WorkInvariant, TLAPS

(***************************************************************************)
(* u is t with the leases L ended and some of the holds H closed, and      *)
(* nothing else of the work touched.                                       *)
(***************************************************************************)
SameApprovals(t, u) ==
    /\ u.lineage = t.lineage
    /\ \A v \in Version :
          /\ u.version[v].state = t.version[v].state
          /\ u.version[v].lineage = t.version[v].lineage
          /\ u.version[v].gate = t.version[v].gate

LeasesEnd(t, u, L) ==
    \A x \in Lease :
        /\ u.lease[x].hold = t.lease[x].hold
        /\ u.lease[x].task = t.lease[x].task
        /\ u.lease[x].state = "live" <=> t.lease[x].state = "live" /\ x \notin L
        /\ u.lease[x].state = "none" <=> t.lease[x].state = "none"

HoldsClose(t, u, H) ==
    \A h \in Hold :
        /\ u.hold[h].version = t.hold[h].version
        /\ u.hold[h].lease = t.hold[h].lease
        /\ u.hold[h].state = "held" => t.hold[h].state = "held"
        /\ u.hold[h].state = "none" <=> t.hold[h].state = "none"
        /\ h \notin H => u.hold[h].state = t.hold[h].state
        /\ h \notin H /\ t.hold[h].state = "held" => u.hold[h].attempt = t.hold[h].attempt
        /\ u.hold[h].state = "held" /\ t.hold[h].attempt # "abandoned"
              => u.hold[h].attempt # "abandoned"

CallsStay(t, u) ==
    \A c \in Call :
        /\ u.call[c].hold = t.call[c].hold
        /\ u.call[c].lease = t.call[c].lease
        /\ u.call[c].state = "none" <=> t.call[c].state = "none"

Ends(t, u, L, H) ==
    /\ Shaped(u)
    /\ SameApprovals(t, u)
    /\ LeasesEnd(t, u, L)
    /\ HoldsClose(t, u, H)
    /\ CallsStay(t, u)

\* One ending after another ends what both end.
LEMMA EndsTransitive ==
    ASSUME NEW t, NEW u, NEW w, NEW L, NEW M, NEW H, NEW I,
           Ends(t, u, L, H), Ends(u, w, M, I)
    PROVE  Ends(t, w, L \cup M, H \cup I)
<1>1. SameApprovals(t, w)
  BY DEF Ends, SameApprovals
<1>2. LeasesEnd(t, w, L \cup M)
  BY DEF Ends, LeasesEnd
<1>3. HoldsClose(t, w, H \cup I)
  BY DEF Ends, HoldsClose
<1>4. CallsStay(t, w)
  BY DEF Ends, CallsStay
<1> QED BY <1>1, <1>2, <1>3, <1>4 DEF Ends

\* Well-shaped tables end nothing of themselves.
LEMMA EndsReflexive ==
    ASSUME NEW t, Shaped(t)
    PROVE  Ends(t, t, {}, {})
BY DEF Ends, SameApprovals, LeasesEnd, HoldsClose, CallsStay

\* Ending work keeps the invariant when every lease left to end is ended, and
\* with it every lease whose hold is closed.
LEMMA EndingKeepsWork ==
    ASSUME NEW t, NEW u, NEW M, NEW L, NEW H,
           WorkKept(t, M), Ends(t, u, L, H), M \subseteq L,
           \A x \in Lease : t.lease[x].state = "live" /\ t.lease[x].hold \in H => x \in L
    PROVE  WorkKept(u, {})
<1>1. OneCurrent(u) /\ VersionsWritten(u)
  BY DEF WorkKept, Ends, SameApprovals, OneCurrent, VersionsWritten
<1>2. HoldsApproved(u)
  BY DEF WorkKept, Ends, SameApprovals, HoldsClose, HoldsApproved
<1>3. CallsBound(u)
  BY DEF WorkKept, Ends, CallsStay, LeasesEnd, CallsBound
<1>4. OneHeld(u) /\ OneLiveLease(u)
  BY DEF WorkKept, Ends, HoldsClose, LeasesEnd, OneHeld, OneLiveLease
<1>5. ASSUME NEW x \in Lease, u.lease[x].state = "live"
      PROVE  WorksApproved(u, x)
  <2> DEFINE h == t.lease[x].hold
  <2>1. t.lease[x].state = "live" /\ x \notin L /\ u.lease[x].hold = h
        /\ u.lease[x].task = t.lease[x].task
    BY <1>5 DEF Ends, LeasesEnd
  <2>2. WorksApproved(t, x) /\ h \notin H
    BY <2>1 DEF WorkKept
  <2>3. h \in Hold /\ t.hold[h].version \in Version
    BY <2>2 DEF WorksApproved, WorkKept, HoldsApproved
  <2>4. /\ u.hold[h].state = "held" /\ u.hold[h].lease = x /\ u.hold[h].attempt = "dispatched"
        /\ u.hold[h].version = t.hold[h].version
    BY <2>2, <2>3 DEF WorksApproved, Ends, HoldsClose
  <2> QED
    BY <2>1, <2>2, <2>3, <2>4 DEF WorksApproved, ApprovalCurrent, TaskOf, Ends, SameApprovals
<1> QED BY <1>1, <1>2, <1>3, <1>4, <1>5 DEF WorkKept, Ends

(***************************************************************************)
(* The helpers that end work.                                              *)
(***************************************************************************)
\* Recording a stop releases calls and ends neither a lease nor a hold (recordStop).
LEMMA StoppedEnds ==
    ASSUME NEW t, Shaped(t), NEW L, NEW code
    PROVE  Ends(t, Stopped(t, L, code), {}, {})
<1> DEFINE u == Stopped(t, L, code)
<1>1. u.lineage = t.lineage /\ u.version = t.version /\ u.lease = t.lease /\ u.envelope = t.envelope
  BY DEF Shaped, Stopped
<1>2. u.hold = [h \in Hold |->
          IF t.hold[h].lease \in L /\ t.hold[h].end = "none"
              THEN [t.hold[h] EXCEPT !.end = code] ELSE t.hold[h]]
  BY DEF Shaped, Stopped
<1>3. u.call = [c \in Call |->
          IF t.call[c].lease \in L /\ t.call[c].state = "reserved"
              THEN [t.call[c] EXCEPT !.state = "released"] ELSE t.call[c]]
  BY DEF Shaped, Stopped
<1>4. DOMAIN u = DOMAIN t
  BY DEF Shaped, Stopped
<1> HIDE DEF u
<1>5. Shaped(u)
  BY <1>1, <1>2, <1>3, <1>4 DEF Shaped, NoHold, NoCall
<1>6. SameApprovals(t, u) /\ LeasesEnd(t, u, {})
  BY <1>1 DEF SameApprovals, LeasesEnd
<1>7. HoldsClose(t, u, {}) /\ CallsStay(t, u)
  BY <1>2, <1>3 DEF Shaped, HoldsClose, CallsStay, NoHold, NoCall
<1> QED BY <1>5, <1>6, <1>7 DEF Ends, u

\* Only the named leases end (endLease).
LEMMA EndedEnds ==
    ASSUME NEW t, Shaped(t), NEW L, NEW to, to \notin {"live", "none"}
    PROVE  Ends(t, Ended(t, L, to), L, {})
<1> DEFINE u == Ended(t, L, to)
<1>1. /\ u.lineage = t.lineage /\ u.version = t.version /\ u.hold = t.hold
      /\ u.envelope = t.envelope /\ u.call = t.call
  BY DEF Shaped, Ended
<1>2. u.lease = [x \in Lease |->
          IF x \in L /\ t.lease[x].state = "live"
              THEN [t.lease[x] EXCEPT !.state = to] ELSE t.lease[x]]
  BY DEF Shaped, Ended
<1>3. DOMAIN u = DOMAIN t
  BY DEF Shaped, Ended
<1> HIDE DEF u
<1>4. Shaped(u)
  BY <1>1, <1>2, <1>3 DEF Shaped, NoLease
<1>5. SameApprovals(t, u) /\ HoldsClose(t, u, {}) /\ CallsStay(t, u)
  BY <1>1 DEF SameApprovals, HoldsClose, CallsStay
<1>6. LeasesEnd(t, u, L)
  BY <1>2 DEF Shaped, LeasesEnd, NoLease
<1> QED BY <1>4, <1>5, <1>6 DEF Ends, u

\* A revoked delegation leaves its lease and hold as they are.
LEMMA RevokedEnds ==
    ASSUME NEW t, Shaped(t), NEW L
    PROVE  Ends(t, Revoked(t, L), {}, {})
<1> DEFINE u == Revoked(t, L)
<1>1. /\ u.lineage = t.lineage /\ u.version = t.version /\ u.hold = t.hold
      /\ u.envelope = t.envelope /\ u.call = t.call
  BY DEF Shaped, Revoked
<1>2. u.lease = [x \in Lease |->
          IF x \in L /\ t.lease[x].delegation = "live"
              THEN [t.lease[x] EXCEPT !.delegation = "revoked"] ELSE t.lease[x]]
  BY DEF Shaped, Revoked
<1>3. DOMAIN u = DOMAIN t
  BY DEF Shaped, Revoked
<1> HIDE DEF u
<1>4. Shaped(u)
  BY <1>1, <1>2, <1>3 DEF Shaped, NoLease
<1>5. SameApprovals(t, u) /\ HoldsClose(t, u, {}) /\ CallsStay(t, u)
  BY <1>1 DEF SameApprovals, HoldsClose, CallsStay
<1>6. LeasesEnd(t, u, {})
  BY <1>2 DEF Shaped, LeasesEnd, NoLease
<1> QED BY <1>4, <1>5, <1>6 DEF Ends, u

\* A fenced worker loses its lease; its hold waits for the classifier (loseLease).
LEMMA LostEnds ==
    ASSUME NEW t, Shaped(t), NEW L
    PROVE  Ends(t, Lost(t, L), L, {})
<1> DEFINE u == Stopped(t, L, "retryable")
<1>1. Ends(t, u, {}, {})
  BY StoppedEnds
<1>2. Ends(u, Ended(u, L, "expired"), L, {})
  BY <1>1, EndedEnds DEF Ends
<1> QED BY <1>1, <1>2, EndsTransitive DEF Lost

\* Retired work loses its lease; its hold waits for the classifier (retireWork).
LEMMA RetiredEnds ==
    ASSUME NEW t, Shaped(t), NEW L, NEW code
    PROVE  Ends(t, Retired(t, L, code), L, {})
<1> DEFINE u == Stopped(t, L, code)
           w == Ended(u, L, "released")
<1>1. Ends(t, u, {}, {})
  BY StoppedEnds
<1>2. Ends(u, w, L, {})
  BY <1>1, EndedEnds DEF Ends
<1>3. Ends(w, Revoked(w, L), {}, {})
  BY <1>2, RevokedEnds DEF Ends
<1>4. Ends(t, w, {} \cup L, {} \cup {})
  BY <1>1, <1>2, EndsTransitive
<1>5. Ends(t, Revoked(w, L), ({} \cup L) \cup {}, ({} \cup {}) \cup {})
  BY <1>3, <1>4, EndsTransitive
<1> QED BY <1>5 DEF Retired

\* A reopened run touches no lease and no hold.
LEMMA RunsReopenedEnds ==
    ASSUME NEW t, Shaped(t), NEW V
    PROVE  Ends(t, RunsReopened(t, V), {}, {})
<1> DEFINE u == RunsReopened(t, V)
<1>1. /\ u.lineage = t.lineage /\ u.hold = t.hold /\ u.lease = t.lease
      /\ u.envelope = t.envelope /\ u.call = t.call
  BY DEF Shaped, RunsReopened
<1>2. u.version = [v \in Version |->
          IF v \in V /\ t.version[v].run = "claimed"
              THEN [t.version[v] EXCEPT !.run = "planned"] ELSE t.version[v]]
  BY DEF Shaped, RunsReopened
<1>3. DOMAIN u = DOMAIN t
  BY DEF Shaped, RunsReopened
<1> HIDE DEF u
<1>4. Shaped(u)
  BY <1>1, <1>2, <1>3 DEF Shaped, NoVersion
<1>5. HoldsClose(t, u, {}) /\ CallsStay(t, u) /\ LeasesEnd(t, u, {})
  BY <1>1 DEF LeasesEnd, HoldsClose, CallsStay
<1>6. SameApprovals(t, u)
  BY <1>1, <1>2 DEF Shaped, SameApprovals, NoVersion
<1> QED BY <1>4, <1>5, <1>6 DEF Ends, u

\* The classifier closes holds among those it is given and ends no lease; a hold it
\* keeps is never left abandoned (classifyUnderLocks).
LEMMA ClassifiedEnds ==
    ASSUME NEW t, Shaped(t), NEW H
    PROVE  Ends(t, Classified(t, H), {}, H)
<1> DEFINE u == Classified(t, H)
           row(h) == IF h \notin H \/ t.hold[h].state # "held" THEN t.hold[h]
                     ELSE IF Releases(t, h) THEN ClosedHold(t, h) ELSE UnknownHold(t, h)
<1>1. u.lineage = t.lineage /\ u.version = t.version /\ u.lease = t.lease /\ u.call = t.call
  BY DEF Shaped, Classified
<1>2. u.hold = [h \in Hold |-> row(h)]
  BY DEF Shaped, Classified
<1>3. DOMAIN u = DOMAIN t /\ DOMAIN u.envelope = Envelope
  BY DEF Shaped, Classified
<1>4. ASSUME NEW h \in Hold
      PROVE  /\ DOMAIN row(h) = DOMAIN NoHold
             /\ row(h).version = t.hold[h].version /\ row(h).lease = t.hold[h].lease
             /\ row(h).state = "held" => t.hold[h].state = "held"
             /\ row(h).state = "none" <=> t.hold[h].state = "none"
             /\ h \notin H => row(h) = t.hold[h]
             /\ row(h).state = "held" /\ t.hold[h].attempt # "abandoned"
                   => row(h).attempt # "abandoned"
  <2>1. DOMAIN t.hold[h] = DOMAIN NoHold
    BY DEF Shaped
  <2>2. CASE h \notin H \/ t.hold[h].state # "held"
    BY <2>1, <2>2
  <2>3. CASE h \in H /\ t.hold[h].state = "held" /\ Releases(t, h)
    <3>1. row(h) = ClosedHold(t, h)
      BY <2>3
    <3> QED BY <2>1, <2>3, <3>1 DEF ClosedHold, NoHold
  <2>4. CASE h \in H /\ t.hold[h].state = "held" /\ ~ Releases(t, h)
    <3>1. row(h) = UnknownHold(t, h)
      BY <2>4
    <3> QED BY <2>1, <2>4, <3>1 DEF UnknownHold, NoHold
  <2> QED BY <2>2, <2>3, <2>4
<1> HIDE DEF u, row
<1>5. Shaped(u)
  BY <1>1, <1>2, <1>3, <1>4 DEF Shaped
<1>6. SameApprovals(t, u) /\ LeasesEnd(t, u, {}) /\ CallsStay(t, u)
  BY <1>1 DEF SameApprovals, LeasesEnd, CallsStay
<1>7. HoldsClose(t, u, H)
  BY <1>2, <1>4 DEF HoldsClose
<1> QED BY <1>5, <1>6, <1>7 DEF Ends, u

\* A run stopped at its budget touches no lease and no hold.
LEMMA AtBudgetEnds ==
    ASSUME NEW t, Shaped(t), NEW V
    PROVE  Ends(t, AtBudget(t, V), {}, {})
<1> DEFINE u == AtBudget(t, V)
<1>1. /\ u.lineage = t.lineage /\ u.hold = t.hold /\ u.lease = t.lease
      /\ u.envelope = t.envelope /\ u.call = t.call
  BY DEF Shaped, AtBudget
<1>2. u.version = [v \in Version |->
          IF v \notin V THEN t.version[v]
          ELSE IF t.version[v].asks < MaxBudgetAsks
              THEN [t.version[v] EXCEPT !.asks = @ + 1,
                                        !.run = IF @ = "claimed" THEN "waiting_budget" ELSE @]
              ELSE [t.version[v] EXCEPT !.run = "cancelled"]]
  BY DEF Shaped, AtBudget
<1>3. DOMAIN u = DOMAIN t
  BY DEF Shaped, AtBudget
<1> HIDE DEF u
<1>4. Shaped(u)
  <2>1. \A v \in Version : DOMAIN u.version[v] = DOMAIN t.version[v]
    <3> SUFFICES ASSUME NEW v \in Version
                 PROVE  DOMAIN u.version[v] = DOMAIN t.version[v]
      OBVIOUS
    <3> DEFINE r == t.version[v]
               asked == [r EXCEPT !.asks = @ + 1,
                                  !.run = IF @ = "claimed" THEN "waiting_budget" ELSE @]
               cancelled == [r EXCEPT !.run = "cancelled"]
    <3>1. u.version[v] = IF v \notin V THEN r
                         ELSE IF r.asks < MaxBudgetAsks THEN asked ELSE cancelled
      BY <1>2
    <3>2. DOMAIN asked = DOMAIN r /\ DOMAIN cancelled = DOMAIN r
      OBVIOUS
    <3> HIDE DEF asked, cancelled
    <3> QED BY <3>1, <3>2
  <2>2. DOMAIN u.version = Version
    BY <1>2
  <2> QED BY <1>1, <1>3, <2>1, <2>2 DEF Shaped
<1>5. HoldsClose(t, u, {}) /\ CallsStay(t, u) /\ LeasesEnd(t, u, {})
  BY <1>1 DEF LeasesEnd, HoldsClose, CallsStay
<1>6. ASSUME NEW v \in Version
      PROVE  /\ u.version[v].state = t.version[v].state
             /\ u.version[v].lineage = t.version[v].lineage
             /\ u.version[v].gate = t.version[v].gate
  <2>1. DOMAIN t.version[v] = DOMAIN NoVersion
    BY DEF Shaped
  <2>2. CASE v \notin V
    BY <1>2, <2>2
  <2>3. CASE v \in V /\ t.version[v].asks < MaxBudgetAsks
    <3>1. u.version[v] = [t.version[v] EXCEPT
              !.asks = @ + 1, !.run = IF @ = "claimed" THEN "waiting_budget" ELSE @]
      BY <1>2, <2>3
    <3> QED BY <2>1, <3>1 DEF NoVersion
  <2>4. CASE v \in V /\ ~ (t.version[v].asks < MaxBudgetAsks)
    <3>1. u.version[v] = [t.version[v] EXCEPT !.run = "cancelled"]
      BY <1>2, <2>4
    <3> QED BY <2>1, <3>1 DEF NoVersion
  <2> QED BY <2>2, <2>3, <2>4
<1>7. SameApprovals(t, u)
  BY <1>1, <1>6 DEF SameApprovals
<1> QED BY <1>4, <1>5, <1>7 DEF Ends, u

\* A spent run ends the leases of its holds and closes no hold (stopSpent).
LEMMA StoppedSpentEnds ==
    ASSUME NEW t, Shaped(t), NEW H, NEW L
    PROVE  Ends(t, StoppedSpent(t, H, L), LeasesOf(t, H), {})
<1> DEFINE u == [t EXCEPT !.version = [v \in Version |->
                    IF v \in VersionsOf(t, H) /\ t.version[v].run = "planned"
                        THEN [t.version[v] EXCEPT !.run = "claimed"] ELSE t.version[v]]]
           ended == LeasesOf(t, H)
           s1 == Stopped(u, ended, "retryable")
           s2 == Ended(s1, ended, "released")
           s3 == Revoked(s2, L)
<1>1. Ends(t, u, {}, {})
  <2>1. /\ u.lineage = t.lineage /\ u.hold = t.hold /\ u.lease = t.lease
        /\ u.envelope = t.envelope /\ u.call = t.call
    BY DEF Shaped
  <2>2. u.version = [v \in Version |->
            IF v \in VersionsOf(t, H) /\ t.version[v].run = "planned"
                THEN [t.version[v] EXCEPT !.run = "claimed"] ELSE t.version[v]]
    BY DEF Shaped
  <2>3. DOMAIN u = DOMAIN t
    BY DEF Shaped
  <2> HIDE DEF u
  <2>4. Shaped(u)
    BY <2>1, <2>2, <2>3 DEF Shaped, NoVersion
  <2>5. HoldsClose(t, u, {}) /\ CallsStay(t, u) /\ LeasesEnd(t, u, {})
    BY <2>1 DEF LeasesEnd, HoldsClose, CallsStay
  <2>6. SameApprovals(t, u)
    BY <2>1, <2>2 DEF Shaped, SameApprovals, NoVersion
  <2> QED BY <2>4, <2>5, <2>6 DEF Ends
<1>2. StoppedSpent(t, H, L) = AtBudget(s3, VersionsOf(t, H))
  BY DEF StoppedSpent
<1> HIDE DEF u, ended
<1>3. Ends(u, s1, {}, {})
  BY <1>1, StoppedEnds DEF Ends
<1>4. Ends(s1, s2, ended, {})
  BY <1>3, EndedEnds DEF Ends
<1>5. Ends(s2, s3, {}, {})
  BY <1>4, RevokedEnds DEF Ends
<1>6. Ends(s3, AtBudget(s3, VersionsOf(t, H)), {}, {})
  BY <1>5, AtBudgetEnds DEF Ends
<1> HIDE DEF s1, s2, s3
<1>7. Ends(t, s1, {}, {})
  BY <1>1, <1>3, EndsTransitive, {} \cup {} = {}
<1>8. Ends(t, s2, ended, {})
  BY <1>4, <1>7, EndsTransitive, {} \cup ended = ended, {} \cup {} = {}
<1>9. Ends(t, s3, ended, {})
  BY <1>5, <1>8, EndsTransitive, ended \cup {} = ended, {} \cup {} = {}
<1>10. Ends(t, AtBudget(s3, VersionsOf(t, H)), ended, {})
  BY <1>6, <1>9, EndsTransitive, ended \cup {} = ended, {} \cup {} = {}
<1> QED BY <1>2, <1>10 DEF ended

\* The sweep of model calls only closes calls or holds them unknown.
LEMMA CallsSweptEnds ==
    ASSUME NEW t, Shaped(t)
    PROVE  Ends(t, CallsSwept(t), {}, {})
<1> DEFINE u == CallsSwept(t)
<1>1. /\ u.lineage = t.lineage /\ u.version = t.version /\ u.hold = t.hold
      /\ u.lease = t.lease /\ u.envelope = t.envelope
  BY DEF Shaped, CallsSwept
<1>2. u.call = [c \in Call |->
          IF t.call[c].state = "dispatched" /\ ~ Standing(t, t.call[c].lease)
              THEN [t.call[c] EXCEPT !.state = "liability_unknown"]
          ELSE IF t.call[c].state = "reserved" /\ ~ Standing(t, t.call[c].lease)
              THEN [t.call[c] EXCEPT !.state = "released"]
          ELSE t.call[c]]
  BY DEF Shaped, CallsSwept
<1>3. DOMAIN u = DOMAIN t
  BY DEF Shaped, CallsSwept
<1> HIDE DEF u
<1>4. Shaped(u)
  BY <1>1, <1>2, <1>3 DEF Shaped, NoCall
<1>5. SameApprovals(t, u) /\ HoldsClose(t, u, {}) /\ LeasesEnd(t, u, {})
  BY <1>1 DEF LeasesEnd, HoldsClose, SameApprovals
<1>6. CallsStay(t, u)
  BY <1>2 DEF Shaped, CallsStay, NoCall
<1> QED BY <1>4, <1>5, <1>6 DEF Ends, u

\* The calls of a lost worker mark its step and end nothing.
LEMMA CallsLostEnds ==
    ASSUME NEW t, Shaped(t), NEW H
    PROVE  Ends(t, CallsLost(t, H), {}, {})
<1> DEFINE u == CallsLost(t, H)
<1>1. u.lineage = t.lineage /\ u.version = t.version /\ u.lease = t.lease /\ u.envelope = t.envelope
  BY DEF Shaped, CallsLost
<1>2. u.call = [c \in Call |->
          IF t.call[c].hold \notin H THEN t.call[c]
          ELSE IF t.call[c].state = "dispatched"
              THEN [t.call[c] EXCEPT !.state = "liability_unknown"]
          ELSE IF t.call[c].state = "reserved"
              THEN [t.call[c] EXCEPT !.state = "released"]
          ELSE t.call[c]]
  BY DEF Shaped, CallsLost
<1>3. u.hold = [h \in Hold |->
          IF /\ h \in H /\ t.hold[h].attempt = "dispatched"
             /\ \E c \in CallsOn(t, h) : t.call[c].state = "dispatched"
              THEN [t.hold[h] EXCEPT !.marked = TRUE] ELSE t.hold[h]]
  BY DEF Shaped, CallsLost
<1>4. DOMAIN u = DOMAIN t
  BY DEF Shaped, CallsLost
<1> HIDE DEF u
<1>5. Shaped(u)
  BY <1>1, <1>2, <1>3, <1>4 DEF Shaped, NoCall, NoHold
<1>6. SameApprovals(t, u) /\ LeasesEnd(t, u, {})
  BY <1>1 DEF LeasesEnd, SameApprovals
<1>7. HoldsClose(t, u, {}) /\ CallsStay(t, u)
  BY <1>2, <1>3 DEF Shaped, HoldsClose, CallsStay, NoCall, NoHold
<1> QED BY <1>5, <1>6, <1>7 DEF Ends, u

\* A pickup's fence ends the leases live on its task, with their holds
\* (fenceLiveLease).
LEMMA FencedEnds ==
    ASSUME NEW t, Shaped(t), NEW k
    PROVE  Ends(t, Fenced(t, k), LiveOnTask(t, k),
                {h \in Hold : t.hold[h].state = "held" /\ t.hold[h].lease \in LiveOnTask(t, k)})
<1> DEFINE L == LiveOnTask(t, k)
           H == {h \in Hold : t.hold[h].state = "held" /\ t.hold[h].lease \in L}
           u == Lost(t, L)
<1>1. Fenced(t, k) = Classified(u, H)
  BY DEF Fenced
<1> HIDE DEF L, H
<1>2. Ends(t, u, L, {})
  BY LostEnds
<1>3. Ends(u, Classified(u, H), {}, H)
  BY <1>2, ClassifiedEnds DEF Ends
<1> HIDE DEF u
<1>4. Ends(t, Classified(u, H), L, H)
  BY <1>2, <1>3, EndsTransitive, L \cup {} = L, {} \cup H = H
<1> QED BY <1>1, <1>4 DEF L, H

\* So the fence keeps the work.
LEMMA FencingKeepsWork ==
    ASSUME NEW t, NEW k, WorkKept(t, {})
    PROVE  WorkKept(Fenced(t, k), {})
<1> DEFINE L == LiveOnTask(t, k)
           H == {h \in Hold : t.hold[h].state = "held" /\ t.hold[h].lease \in L}
<1>1. Ends(t, Fenced(t, k), L, H)
  BY FencedEnds DEF WorkKept
<1>2. ASSUME NEW x \in Lease, t.lease[x].state = "live", t.lease[x].hold \in H
      PROVE  x \in L
  BY <1>2 DEF WorkKept, WorksApproved
<1> QED BY <1>1, <1>2, EndingKeepsWork

\* Letting a held hold go ends its lease with it (claimHold).
LEMMA LetGoEnds ==
    ASSUME NEW t, Shaped(t), NEW h \in Hold, t.hold[h].state = "held"
    PROVE  Ends(t, LetGo(t, h), {t.hold[h].lease}, {h})
<1> DEFINE L == {t.hold[h].lease}
           u == Lost(t, L)
<1>1. LetGo(t, h) = Classified(u, {h})
  BY DEF LetGo
<1> HIDE DEF L
<1>2. Ends(t, u, L, {})
  BY LostEnds
<1>3. Ends(u, Classified(u, {h}), {}, {h})
  BY <1>2, ClassifiedEnds DEF Ends
<1> HIDE DEF u
<1>4. Ends(t, Classified(u, {h}), L, {h})
  BY <1>2, <1>3, EndsTransitive, L \cup {} = L, {} \cup {h} = {h}
<1> QED BY <1>1, <1>4 DEF L

\* So letting go keeps the work.
LEMMA LettingGoKeepsWork ==
    ASSUME NEW t, NEW h \in Hold, WorkKept(t, {})
    PROVE  WorkKept(LetGo(t, h), {})
<1>1. CASE t.hold[h].state = "held"
  <2>1. Ends(t, LetGo(t, h), {t.hold[h].lease}, {h})
    BY <1>1, LetGoEnds DEF WorkKept
  <2>2. ASSUME NEW x \in Lease, t.lease[x].state = "live", t.lease[x].hold \in {h}
        PROVE  x \in {t.hold[h].lease}
    BY <2>2 DEF WorkKept, WorksApproved
  <2> QED BY <2>1, <2>2, EndingKeepsWork
<1>2. CASE t.hold[h].state # "held"
  BY <1>2 DEF LetGo
<1> QED BY <1>1, <1>2

\* Superseding ends the leases on the superseded versions with their holds.
LEMMA SupersedingKeepsWork ==
    ASSUME NEW t, NEW V, WorkKept(t, LiveOn(t, V))
    PROVE  WorkKept(Superseding(t, V), {})
<1> DEFINE L == LiveOn(t, V)
           H == HeldOn(t, V)
           u == Retired(t, L, "final")
<1>1. Superseding(t, V) = Classified(u, H)
  BY DEF Superseding
<1>2. ASSUME NEW x \in Lease, t.lease[x].state = "live", t.lease[x].hold \in H
      PROVE  x \in L
  BY <1>2 DEF LiveOn, HeldOn
<1> HIDE DEF L, H
<1>3. WorkKept(t, L)
  BY DEF L
<1>4. Ends(t, u, L, {})
  BY <1>3, RetiredEnds DEF WorkKept
<1>5. Ends(u, Classified(u, H), {}, H)
  BY <1>4, ClassifiedEnds DEF Ends
<1> HIDE DEF u
<1>6. Ends(t, Classified(u, H), L, H)
  BY <1>4, <1>5, EndsTransitive, L \cup {} = L, {} \cup H = H
<1> QED BY <1>1, <1>2, <1>3, <1>6, EndingKeepsWork

\* A settled report ends its lease, and its hold is classified.
LEMMA SettledEnds ==
    ASSUME NEW t, Shaped(t), NEW x \in Lease, t.lease[x].state # "none", NEW dropped \in BOOLEAN
    PROVE  Ends(t, Settled(t, x, dropped), {x}, {t.lease[x].hold})
<1> DEFINE h == t.lease[x].hold
           v == t.hold[h].version
           t1 == ReportSettled(t, x)
           t2 == IF dropped THEN t1 ELSE [t1 EXCEPT !.version[v].run = "handed_back"]
           t3 == IF dropped \/ t.hold[h].marked \/ OpenCall(t, h) THEN t2
                 ELSE [t2 EXCEPT !.hold[h].attempt = "handed_back"]
<1>1. Settled(t, x, dropped) = Classified(t3, {h})
  BY DEF Settled
<1>2. Ends(t, t1, {x}, {})
  <2>1. /\ t1.lineage = t.lineage /\ t1.version = t.version /\ t1.hold = t.hold
        /\ t1.envelope = t.envelope /\ t1.call = t.call /\ DOMAIN t1 = DOMAIN t
        /\ DOMAIN t1.lease = DOMAIN t.lease
        /\ \A y \in Lease : y # x => t1.lease[y] = t.lease[y]
    BY DEF Shaped, ReportSettled
  <2>2. /\ DOMAIN t1.lease[x] = DOMAIN NoLease
        /\ t1.lease[x].hold = t.lease[x].hold /\ t1.lease[x].task = t.lease[x].task
        /\ t1.lease[x].state = "released"
    BY DEF Shaped, ReportSettled, NoLease
  <2> HIDE DEF t1
  <2>3. Shaped(t1)
    BY <2>1, <2>2 DEF Shaped
  <2>4. SameApprovals(t, t1) /\ HoldsClose(t, t1, {}) /\ CallsStay(t, t1)
    BY <2>1 DEF SameApprovals, HoldsClose, CallsStay
  <2>5. LeasesEnd(t, t1, {x})
    BY <2>1, <2>2 DEF LeasesEnd
  <2> QED BY <2>3, <2>4, <2>5 DEF Ends
<1> HIDE DEF t1
<1>3. Shaped(t1)
  BY <1>2 DEF Ends
<1>4. Ends(t1, t2, {}, {})
  <2>1. /\ t2.lineage = t1.lineage /\ t2.lease = t1.lease /\ t2.hold = t1.hold
        /\ t2.envelope = t1.envelope /\ t2.call = t1.call /\ DOMAIN t2 = DOMAIN t1
        /\ DOMAIN t2.version = Version
    BY <1>3 DEF Shaped
  <2>2. \A w \in Version : /\ DOMAIN t2.version[w] = DOMAIN NoVersion
                           /\ t2.version[w].state = t1.version[w].state
                           /\ t2.version[w].lineage = t1.version[w].lineage
                           /\ t2.version[w].gate = t1.version[w].gate
    <3> TAKE w \in Version
    <3> DEFINE r == t1.version[w]
               s == [r EXCEPT !.run = "handed_back"]
    <3>1. t2.version[w] \in {r, s} /\ DOMAIN r = DOMAIN NoVersion
      BY <1>3 DEF Shaped
    <3> HIDE DEF r
    <3>2. /\ DOMAIN s = DOMAIN r
          /\ s.state = r.state /\ s.lineage = r.lineage /\ s.gate = r.gate
      BY <3>1 DEF NoVersion
    <3> HIDE DEF s, t2
    <3> QED BY <3>1, <3>2 DEF r
  <2> HIDE DEF t2
  <2>3. Shaped(t2)
    BY <1>3, <2>1, <2>2 DEF Shaped
  <2>4. LeasesEnd(t1, t2, {}) /\ HoldsClose(t1, t2, {}) /\ CallsStay(t1, t2)
    BY <2>1 DEF LeasesEnd, HoldsClose, CallsStay
  <2>5. SameApprovals(t1, t2)
    BY <2>1, <2>2 DEF SameApprovals
  <2> QED BY <2>3, <2>4, <2>5 DEF Ends
<1> HIDE DEF t2
<1>5. Shaped(t2)
  BY <1>4 DEF Ends
<1>6. Ends(t2, t3, {}, {h})
  <2>1. /\ t3.lineage = t2.lineage /\ t3.lease = t2.lease /\ t3.version = t2.version
        /\ t3.envelope = t2.envelope /\ t3.call = t2.call /\ DOMAIN t3 = DOMAIN t2
        /\ DOMAIN t3.hold = Hold
    BY <1>5 DEF Shaped
  <2>2. \A i \in Hold : /\ DOMAIN t3.hold[i] = DOMAIN NoHold
                        /\ t3.hold[i].state = t2.hold[i].state
                        /\ t3.hold[i].version = t2.hold[i].version
                        /\ t3.hold[i].lease = t2.hold[i].lease
                        /\ t3.hold[i].attempt \in {t2.hold[i].attempt, "handed_back"}
                        /\ i # h => t3.hold[i].attempt = t2.hold[i].attempt
    BY <1>5 DEF Shaped, NoHold
  <2> HIDE DEF t3, h
  <2>3. Shaped(t3)
    BY <1>5, <2>1, <2>2 DEF Shaped
  <2>4. SameApprovals(t2, t3) /\ LeasesEnd(t2, t3, {}) /\ CallsStay(t2, t3)
    BY <2>1 DEF LeasesEnd, SameApprovals, CallsStay
  <2>5. HoldsClose(t2, t3, {h})
    BY <2>2 DEF HoldsClose
  <2> QED BY <2>3, <2>4, <2>5 DEF Ends
<1> HIDE DEF t3, h
<1>7. Ends(t3, Classified(t3, {h}), {}, {h})
  BY <1>6, ClassifiedEnds DEF Ends
<1>8. Ends(t, t2, {x}, {})
  BY <1>2, <1>4, EndsTransitive, {x} \cup {} = {x}, {} \cup {} = {}
<1>9. Ends(t, t3, {x}, {h})
  BY <1>6, <1>8, EndsTransitive, {x} \cup {} = {x}, {} \cup {h} = {h}
<1>10. Ends(t, Classified(t3, {h}), {x}, {h})
  BY <1>7, <1>9, EndsTransitive, {x} \cup {} = {x}, {h} \cup {h} = {h}
<1> QED BY <1>1, <1>10 DEF h

\* The ledger's own rows carry no work.
LEMMA EnvelopesEnd ==
    ASSUME NEW t, Shaped(t), NEW rows, DOMAIN rows = Envelope
    PROVE  Ends(t, [t EXCEPT !.envelope = rows], {}, {})
<1> DEFINE u == [t EXCEPT !.envelope = rows]
<1>1. /\ u.lineage = t.lineage /\ u.version = t.version /\ u.hold = t.hold
      /\ u.lease = t.lease /\ u.call = t.call /\ u.envelope = rows /\ DOMAIN u = DOMAIN t
  BY DEF Shaped
<1> HIDE DEF u
<1>2. Shaped(u)
  BY <1>1 DEF Shaped
<1>3. SameApprovals(t, u) /\ LeasesEnd(t, u, {}) /\ HoldsClose(t, u, {}) /\ CallsStay(t, u)
  BY <1>1 DEF SameApprovals, LeasesEnd, HoldsClose, CallsStay
<1> QED BY <1>2, <1>3 DEF Ends, u

\* Opening an envelope touches no work.
LEMMA EnvelopeOpenedEnds ==
    ASSUME NEW t, Shaped(t), NEW k, NEW e, NEW maximum
    PROVE  Ends(t, EnvelopeOpened(t, k, e, maximum), {}, {})
<1> DEFINE u == EnvelopeOpened(t, k, e, maximum)
<1>1. /\ u.lineage = t.lineage /\ u.version = t.version /\ u.hold = t.hold
      /\ u.lease = t.lease /\ u.call = t.call
      /\ DOMAIN u = DOMAIN t /\ DOMAIN u.envelope = DOMAIN t.envelope
  BY DEF Shaped, EnvelopeOpened
<1> HIDE DEF u
<1>2. Shaped(u)
  BY <1>1 DEF Shaped
<1>3. SameApprovals(t, u) /\ LeasesEnd(t, u, {}) /\ HoldsClose(t, u, {}) /\ CallsStay(t, u)
  BY <1>1 DEF SameApprovals, LeasesEnd, HoldsClose, CallsStay
<1> QED BY <1>2, <1>3 DEF Ends, u

(***************************************************************************)
(* The helpers that begin work, or change what is approved.                *)
(***************************************************************************)

\* Fresh holds, each for an approved version that holds nothing, keep the work.
LEMMA ReservingKeepsWork ==
    ASSUME NEW t, WorkKept(t, {}), NEW new,
           \A n \in DOMAIN new :
              /\ n \in FreshHolds(t)
              /\ new[n].version \in Version
              /\ t.version[new[n].version].gate = "approved"
              /\ HeldOn(t, {new[n].version}) = {},
           \A n, m \in DOMAIN new : new[n].version = new[m].version => n = m
    PROVE  LET u == Reserved(t, new) IN
           /\ WorkKept(u, {})
           /\ u.lineage = t.lineage /\ u.version = t.version /\ u.lease = t.lease
           /\ \A n \in DOMAIN new :
                 u.hold[n].state = "held" /\ u.hold[n].lease = Nil
                 /\ u.hold[n].version = new[n].version
<1> DEFINE u == Reserved(t, new)
           row(h) == IF h \in DOMAIN new
                THEN [state |-> "held", version |-> new[h].version, envelope |-> new[h].envelope,
                      amount |-> new[h].amount, actual |-> 0, lease |-> Nil, replaced |-> FALSE,
                      attempt |-> "reserved", marked |-> FALSE, end |-> "none"]
            ELSE [t.hold[h] EXCEPT
                      !.replaced = @ \/ \E n \in DOMAIN new : new[n].version = t.hold[h].version]
<1>1. /\ u.lineage = t.lineage /\ u.version = t.version /\ u.lease = t.lease /\ u.call = t.call
      /\ u.hold = [h \in Hold |-> row(h)]
      /\ DOMAIN u = DOMAIN t /\ DOMAIN u.envelope = Envelope
  BY DEF WorkKept, Shaped, Reserved
<1>2. ASSUME NEW h \in Hold
      PROVE  /\ DOMAIN row(h) = DOMAIN NoHold
             /\ h \in DOMAIN new => /\ row(h).state = "held" /\ row(h).lease = Nil
                                    /\ row(h).version = new[h].version
                                    /\ row(h).attempt = "reserved"
             /\ h \notin DOMAIN new => /\ row(h).state = t.hold[h].state
                                       /\ row(h).lease = t.hold[h].lease
                                       /\ row(h).version = t.hold[h].version
                                       /\ row(h).attempt = t.hold[h].attempt
  <2>1. DOMAIN t.hold[h] = DOMAIN NoHold
    BY DEF WorkKept, Shaped
  <2>2. CASE h \in DOMAIN new
    BY <2>2 DEF NoHold
  <2>3. CASE h \notin DOMAIN new
    BY <2>1, <2>3 DEF NoHold
  <2> QED BY <2>2, <2>3
<1> HIDE DEF u, row
<1>3. \A n \in DOMAIN new : n \in Hold /\ t.hold[n].state = "none"
  BY DEF FreshHolds
<1>4. Shaped(u)
  BY <1>1, <1>2 DEF WorkKept, Shaped
<1>5. OneCurrent(u) /\ VersionsWritten(u) /\ CallsBound(u) /\ OneLiveLease(u)
  BY <1>1 DEF WorkKept, OneCurrent, VersionsWritten, CallsBound, OneLiveLease
<1>6. HoldsApproved(u)
  <2> SUFFICES ASSUME NEW h \in Hold
               PROVE  /\ u.hold[h].state # "none" =>
                            /\ u.hold[h].version \in Version
                            /\ t.version[u.hold[h].version].gate = "approved"
                      /\ u.hold[h].state = "held" => u.hold[h].attempt # "abandoned"
    BY <1>1 DEF HoldsApproved
  <2>1. u.hold[h] = row(h) /\ HoldsApproved(t)
    BY <1>1 DEF WorkKept
  <2>2. CASE h \in DOMAIN new
    <3>1. u.hold[h].version = new[h].version /\ u.hold[h].attempt = "reserved"
      BY <1>2, <2>1, <2>2
    <3>2. new[h].version \in Version /\ t.version[new[h].version].gate = "approved"
      BY <2>2
    <3> QED BY <3>1, <3>2
  <2>3. CASE h \notin DOMAIN new
    BY <1>2, <2>1, <2>3 DEF HoldsApproved
  <2> QED BY <2>2, <2>3
<1>7. OneHeld(u)
  <2> SUFFICES ASSUME NEW h \in Hold, NEW i \in Hold, u.hold[h].state = "held",
                      u.hold[i].state = "held", u.hold[h].version = u.hold[i].version
               PROVE  h = i
    BY DEF OneHeld
  <2>1. u.hold[h] = row(h) /\ u.hold[i] = row(i)
    BY <1>1
  <2>2. ASSUME NEW n \in DOMAIN new, NEW j \in Hold, j \notin DOMAIN new, row(j).state = "held"
        PROVE  row(n).version # row(j).version
    <3>1. row(n).version = new[n].version /\ t.hold[j].state = "held"
          /\ row(j).version = t.hold[j].version
      BY <1>2, <1>3, <2>2
    <3>2. j \notin HeldOn(t, {new[n].version})
      OBVIOUS
    <3> QED BY <3>1, <3>2 DEF HeldOn
  <2>3. CASE h \notin DOMAIN new /\ i \notin DOMAIN new
    BY <1>2, <2>1, <2>3 DEF WorkKept, OneHeld
  <2>4. CASE h \in DOMAIN new /\ i \in DOMAIN new
    BY <1>2, <2>1, <2>4
  <2> QED BY <2>1, <2>2, <2>3, <2>4
<1>8. ASSUME NEW x \in Lease, u.lease[x].state = "live"
      PROVE  WorksApproved(u, x)
  <2> DEFINE h == t.lease[x].hold
  <2>1. WorksApproved(t, x)
    BY <1>1, <1>8 DEF WorkKept
  <2>2. h \in Hold /\ h \notin DOMAIN new /\ u.hold[h] = row(h)
    BY <1>1, <1>3, <2>1 DEF WorksApproved
  <2>3. /\ u.hold[h].state = "held" /\ u.hold[h].lease = x /\ u.hold[h].attempt = "dispatched"
        /\ u.hold[h].version = t.hold[h].version
    BY <1>2, <2>1, <2>2 DEF WorksApproved
  <2> QED BY <1>1, <2>1, <2>2, <2>3 DEF WorksApproved, ApprovalCurrent, TaskOf
<1>9. WorkKept(u, {})
  BY <1>4, <1>5, <1>6, <1>7, <1>8 DEF WorkKept
<1> QED BY <1>1, <1>2, <1>3, <1>9 DEF u

\* A lease of an approved, held and unclaimed hold keeps the work when its task
\* has no live lease.
LEMMA LeasingKeepsWork ==
    ASSUME NEW t, WorkKept(t, {}), NEW h \in Hold, NEW x \in Lease, NEW agent,
           t.hold[h].state = "held", t.hold[h].lease = Nil,
           t.lease[x].state = "none",
           ApprovalCurrent(t, t.hold[h].version),
           LiveOnTask(t, TaskOf(t, t.hold[h].version)) = {}
    PROVE  WorkKept(LeaseTaken(t, h, x, agent), {})
<1> DEFINE u == LeaseTaken(t, h, x, agent)
           v == t.hold[h].version
           k == TaskOf(t, v)
           row == [state |-> "live", task |-> k, hold |-> h, fence |-> NextFence(t, k),
                   lapsed |-> FALSE, delegation |-> IF agent THEN "live" ELSE "none",
                   settled |-> 0]
<1>1. /\ u.lineage = t.lineage /\ u.call = t.call /\ u.envelope = t.envelope
      /\ u.lease = [t.lease EXCEPT ![x] = row]
      /\ u.hold = [t.hold EXCEPT ![h] = [[t.hold[h] EXCEPT !.lease = x] EXCEPT !.attempt = "dispatched"]]
      /\ u.version = [t.version EXCEPT ![v] = [t.version[v] EXCEPT !.run = "claimed"]]
      /\ DOMAIN u = DOMAIN t
  BY DEF WorkKept, Shaped, LeaseTaken
<1>2. row.state = "live" /\ row.task = k /\ row.hold = h /\ DOMAIN row = DOMAIN NoLease
  BY DEF NoLease
<1> HIDE DEF u, row
<1>3. v \in Version /\ DOMAIN t.version[v] = DOMAIN NoVersion /\ DOMAIN t.hold[h] = DOMAIN NoHold
  BY DEF WorkKept, Shaped, HoldsApproved
<1>15. ApprovalCurrent(t, v) /\ k = TaskOf(t, v) /\ LiveOnTask(t, k) = {}
  OBVIOUS
<1>4. \A w \in Version : /\ DOMAIN u.version[w] = DOMAIN NoVersion
                         /\ u.version[w].state = t.version[w].state
                         /\ u.version[w].lineage = t.version[w].lineage
                         /\ u.version[w].gate = t.version[w].gate
  BY <1>1, <1>3 DEF WorkKept, Shaped, NoVersion
<1>5. /\ DOMAIN u.hold[h] = DOMAIN NoHold
      /\ u.hold[h].state = "held" /\ u.hold[h].version = v /\ u.hold[h].lease = x
      /\ u.hold[h].attempt = "dispatched"
      /\ \A i \in Hold : i # h => u.hold[i] = t.hold[i]
  BY <1>1, <1>3 DEF WorkKept, Shaped, NoHold
<1>6. u.lease[x] = row /\ \A y \in Lease : y # x => u.lease[y] = t.lease[y]
  BY <1>1 DEF WorkKept, Shaped
<1>7. Shaped(u)
  BY <1>1, <1>2, <1>4, <1>5, <1>6 DEF WorkKept, Shaped
<1>8. OneCurrent(u) /\ VersionsWritten(u)
  BY <1>4 DEF WorkKept, OneCurrent, VersionsWritten
<1>9. HoldsApproved(u)
  <2>1. HoldsApproved(t)
    BY DEF WorkKept
  <2> QED BY <1>3, <1>4, <1>5, <2>1 DEF HoldsApproved
<1>10. CallsBound(u)
  <2>1. CallsBound(t)
    BY DEF WorkKept
  <2> QED BY <1>1, <1>6, <2>1 DEF CallsBound
<1>11. OneHeld(u)
  <2>1. OneHeld(t)
    BY DEF WorkKept
  <2> QED BY <1>5, <2>1 DEF OneHeld
<1>12. OneLiveLease(u)
  <2>1. OneLiveLease(t) /\ \A y \in Lease : t.lease[y].state = "live" => t.lease[y].task # k
    BY DEF WorkKept, LiveOnTask
  <2> QED BY <1>2, <1>6, <2>1 DEF OneLiveLease
<1>13. u.lineage = t.lineage
  BY <1>1
<1>16. ASSUME NEW w \in Version
       PROVE  /\ ApprovalCurrent(t, w) => ApprovalCurrent(u, w)
              /\ TaskOf(u, w) = TaskOf(t, w)
  BY <1>4, <1>13 DEF ApprovalCurrent, TaskOf
<1>14. ASSUME NEW y \in Lease, u.lease[y].state = "live"
       PROVE  WorksApproved(u, y)
  <2> HIDE DEF v, k
  <2>1. CASE y = x
    <3>1. u.lease[y].hold = h /\ u.lease[y].task = k
      BY <1>2, <1>6, <2>1
    <3>2. ApprovalCurrent(u, v) /\ TaskOf(u, v) = k
      BY <1>3, <1>15, <1>16
    <3> QED BY <1>5, <2>1, <3>1, <3>2 DEF WorksApproved
  <2>2. CASE y # x
    <3>1. u.lease[y] = t.lease[y] /\ WorksApproved(t, y)
      BY <1>6, <1>14, <2>2 DEF WorkKept
    <3>2. t.lease[y].hold \in Hold /\ t.lease[y].hold # h
      BY <3>1, NilAssumption DEF WorksApproved
    <3>3. t.hold[t.lease[y].hold].version \in Version
      BY <3>1, <3>2 DEF WorkKept, HoldsApproved, WorksApproved
    <3>4. u.hold[t.lease[y].hold] = t.hold[t.lease[y].hold]
      BY <1>5, <3>2
    <3> QED
      BY <1>16, <3>1, <3>2, <3>3, <3>4 DEF WorksApproved
  <2> QED BY <2>1, <2>2
<1> QED BY <1>7, <1>8, <1>9, <1>10, <1>11, <1>12, <1>14 DEF WorkKept, u

\* A new version leaves to be ended only the leases on the one it supersedes.
LEMMA ProposingKeepsWork ==
    ASSUME NEW t, WorkKept(t, {}), NEW v \in Version, t.version[v].state = "none",
           NEW l \in Lineage, NEW maximum, NEW reviewed
    PROVE  LET u == ProposalWritten(t, v, l, maximum, reviewed) IN
           /\ WorkKept(u, LiveOn(t, Current(t, l)))
           /\ u.lineage = t.lineage /\ u.hold = t.hold /\ u.lease = t.lease /\ u.call = t.call
<1> DEFINE u == ProposalWritten(t, v, l, maximum, reviewed)
           previous == Current(t, l)
           M == LiveOn(t, previous)
<1>1. /\ u.lineage = t.lineage /\ u.hold = t.hold /\ u.lease = t.lease
      /\ u.envelope = t.envelope /\ u.call = t.call /\ DOMAIN u = DOMAIN t
      /\ DOMAIN u.version = Version
  BY DEF WorkKept, Shaped, ProposalWritten
<1>2. /\ DOMAIN u.version[v] = DOMAIN NoVersion
      /\ u.version[v].state = "current" /\ u.version[v].lineage = l
      /\ u.version[v].gate = "pending"
  BY DEF WorkKept, Shaped, ProposalWritten, NoVersion
<1>3. ASSUME NEW w \in Version, w # v
      PROVE  /\ DOMAIN u.version[w] = DOMAIN NoVersion
             /\ u.version[w].lineage = t.version[w].lineage
             /\ w \in previous => u.version[w].state = "superseded"
             /\ w \notin previous => u.version[w].state = t.version[w].state
             /\ u.version[w].gate = "approved" <=> t.version[w].gate = "approved"
  <2> DEFINE pending == {p \in previous : t.version[p].gate = "pending"}
  <2>1. u.version[w] =
          IF w \in previous
              THEN [t.version[w] EXCEPT !.state = "superseded",
                                        !.gate = IF w \in pending THEN "superseded" ELSE @]
              ELSE t.version[w]
    BY <1>3 DEF WorkKept, Shaped, ProposalWritten
  <2>2. DOMAIN t.version[w] = DOMAIN NoVersion
    BY DEF WorkKept, Shaped
  <2> HIDE DEF previous, u
  <2> QED BY <2>1, <2>2 DEF NoVersion
<1>4. previous = {w \in Version : t.version[w].lineage = l /\ t.version[w].state = "current"}
  BY DEF Current, Versions
<1> HIDE DEF u, previous
<1>5. Shaped(u)
  BY <1>1, <1>2, <1>3 DEF WorkKept, Shaped
<1>6. OneCurrent(u)
  <2>1. OneCurrent(t)
    BY DEF WorkKept
  <2> QED BY <1>2, <1>3, <1>4, <2>1 DEF OneCurrent
<1>7. VersionsWritten(u)
  <2>1. VersionsWritten(t)
    BY DEF WorkKept
  <2> QED BY <1>2, <1>3, <1>4, <2>1 DEF VersionsWritten
<1>8. HoldsApproved(u)
  <2>1. HoldsApproved(t) /\ VersionsWritten(t)
    BY DEF WorkKept
  <2>2. \A h \in Hold : t.hold[h].state # "none" => t.hold[h].version # v
    BY <2>1 DEF HoldsApproved, VersionsWritten
  <2> QED BY <1>1, <1>3, <2>1, <2>2 DEF HoldsApproved
<1>9. CallsBound(u) /\ OneHeld(u) /\ OneLiveLease(u)
  BY <1>1 DEF WorkKept, CallsBound, OneHeld, OneLiveLease
<1>10. ASSUME NEW x \in Lease, u.lease[x].state = "live", x \notin M
       PROVE  WorksApproved(u, x)
  <2> DEFINE w == t.hold[t.lease[x].hold].version
  <2>1. WorksApproved(t, x) /\ t.lease[x].state = "live"
    BY <1>1, <1>10 DEF WorkKept
  <2>2. w \in Version
    BY <2>1 DEF WorksApproved, WorkKept, HoldsApproved
  <2>3. w # v /\ w \notin previous
    BY <1>10, <2>1 DEF LiveOn, WorksApproved, ApprovalCurrent
  <2>4. /\ u.version[w].gate = "approved" <=> t.version[w].gate = "approved"
        /\ u.version[w].state = t.version[w].state
        /\ u.version[w].lineage = t.version[w].lineage
    BY <1>3, <2>2, <2>3
  <2>5. u.lineage = t.lineage /\ u.hold = t.hold /\ u.lease = t.lease
    BY <1>1
  <2> QED BY <2>1, <2>4, <2>5 DEF WorksApproved, ApprovalCurrent, TaskOf
<1>11. WorkKept(u, M)
  BY <1>5, <1>6, <1>7, <1>8, <1>9, <1>10 DEF WorkKept
<1> QED BY <1>1, <1>11 DEF u, previous

\* A decision changes only a gate nothing is held under.
LEMMA DecidingKeepsWork ==
    ASSUME NEW t, WorkKept(t, {}), NEW v \in Version, Decidable(t, v), NEW to
    PROVE  LET u == GateDecided(t, v, to) IN
           /\ WorkKept(u, {})
           /\ u.lineage = t.lineage /\ u.hold = t.hold /\ u.lease = t.lease /\ u.call = t.call
           /\ u.version[v].gate = to /\ u.version[v].state = "current"
           /\ \A w \in Version : /\ u.version[w].state = t.version[w].state
                                 /\ u.version[w].lineage = t.version[w].lineage
<1> DEFINE u == GateDecided(t, v, to)
<1>1. /\ u.lineage = t.lineage /\ u.hold = t.hold /\ u.lease = t.lease
      /\ u.envelope = t.envelope /\ u.call = t.call /\ DOMAIN u = DOMAIN t
      /\ u.version = [t.version EXCEPT ![v] = [t.version[v] EXCEPT !.gate = to]]
  BY DEF WorkKept, Shaped, GateDecided
<1> HIDE DEF u
<1>2. /\ \A w \in Version : /\ DOMAIN u.version[w] = DOMAIN NoVersion
                            /\ u.version[w].state = t.version[w].state
                            /\ u.version[w].lineage = t.version[w].lineage
                            /\ w # v => u.version[w].gate = t.version[w].gate
      /\ u.version[v].gate = to /\ DOMAIN u.version = Version
  BY <1>1 DEF WorkKept, Shaped, NoVersion
<1>3. t.version[v].gate = "pending" /\ t.version[v].state = "current"
  BY DEF Decidable
<1>4. /\ u.lineage = t.lineage /\ u.hold = t.hold /\ u.lease = t.lease
      /\ u.call = t.call /\ DOMAIN u = DOMAIN t /\ u.envelope = t.envelope
  BY <1>1
<1>5. Shaped(u) /\ OneCurrent(u) /\ VersionsWritten(u)
  BY <1>2, <1>3, <1>4 DEF WorkKept, Shaped, OneCurrent, VersionsWritten
<1>6. HoldsApproved(u)
  <2>1. HoldsApproved(t)
    BY DEF WorkKept
  <2> QED BY <1>2, <1>3, <1>4, <2>1 DEF HoldsApproved
<1>7. CallsBound(u) /\ OneHeld(u) /\ OneLiveLease(u)
  BY <1>4 DEF WorkKept, CallsBound, OneHeld, OneLiveLease
<1>8. ASSUME NEW x \in Lease, u.lease[x].state = "live"
      PROVE  WorksApproved(u, x)
  <2> DEFINE w == t.hold[t.lease[x].hold].version
  <2>1. WorksApproved(t, x)
    BY <1>4, <1>8 DEF WorkKept
  <2>2. w \in Version /\ w # v
    BY <1>3, <2>1 DEF WorksApproved, ApprovalCurrent, WorkKept, HoldsApproved
  <2> QED BY <1>2, <1>4, <2>1, <2>2 DEF WorksApproved, ApprovalCurrent, TaskOf
<1>9. WorkKept(u, {})
  BY <1>5, <1>6, <1>7, <1>8 DEF WorkKept
<1> QED BY <1>2, <1>3, <1>4, <1>9 DEF u

\* Opening a lineage touches no work.
LEMMA OpeningKeepsWork ==
    ASSUME NEW t, WorkKept(t, {}), NEW l \in Lineage, t.lineage[l].state = "none",
           NEW k, NEW restarts
    PROVE  LET u == Opened(t, l, k, restarts) IN
           /\ WorkKept(u, {})
           /\ u.version = t.version /\ u.hold = t.hold /\ u.lease = t.lease /\ u.call = t.call
<1> DEFINE u == Opened(t, l, k, restarts)
           row == [state |-> "live", task |-> k, restarts |-> restarts]
<1>1. /\ u.version = t.version /\ u.hold = t.hold /\ u.lease = t.lease
      /\ u.envelope = t.envelope /\ u.call = t.call /\ DOMAIN u = DOMAIN t
      /\ u.lineage = [t.lineage EXCEPT ![l] = row]
  BY DEF WorkKept, Shaped, Opened
<1> HIDE DEF u
<1>2. Shaped(u)
  BY <1>1 DEF WorkKept, Shaped, NoLineage
<1>3. OneCurrent(u) /\ VersionsWritten(u) /\ HoldsApproved(u)
      /\ CallsBound(u) /\ OneHeld(u) /\ OneLiveLease(u)
  BY <1>1 DEF WorkKept, OneCurrent, VersionsWritten, HoldsApproved, CallsBound, OneHeld, OneLiveLease
<1>4. ASSUME NEW x \in Lease, u.lease[x].state = "live"
      PROVE  WorksApproved(u, x)
  <2> DEFINE w == t.hold[t.lease[x].hold].version
             m == t.version[w].lineage
  <2>1. WorksApproved(t, x)
    BY <1>1, <1>4 DEF WorkKept
  <2>2. w \in Version /\ m \in Lineage /\ m # l
    BY <2>1 DEF WorksApproved, ApprovalCurrent, WorkKept, HoldsApproved, VersionsWritten
  <2>3. u.lineage[m] = t.lineage[m]
    BY <1>1, <2>2 DEF WorkKept, Shaped
  <2> QED BY <1>1, <2>1, <2>3 DEF WorksApproved, ApprovalCurrent, TaskOf
<1>5. WorkKept(u, {})
  BY <1>2, <1>3, <1>4 DEF WorkKept
<1> QED BY <1>1, <1>5 DEF u

\* A lineage that is rejected or cancelled leaves the leases on its versions to
\* be ended.
LEMMA EndingLineageKeepsWork ==
    ASSUME NEW t, WorkKept(t, {}), NEW l \in Lineage, NEW to
    PROVE  LET u == [t EXCEPT !.lineage[l].state = to] IN
           /\ WorkKept(u, LiveOn(t, Versions(t, l)))
           /\ u.version = t.version /\ u.hold = t.hold /\ u.lease = t.lease
<1> DEFINE u == [t EXCEPT !.lineage[l].state = to]
           M == LiveOn(t, Versions(t, l))
<1>1. /\ u.version = t.version /\ u.hold = t.hold /\ u.lease = t.lease
      /\ u.envelope = t.envelope /\ u.call = t.call /\ DOMAIN u = DOMAIN t
      /\ u.lineage = [t.lineage EXCEPT ![l] = [t.lineage[l] EXCEPT !.state = to]]
  BY DEF WorkKept, Shaped
<1> HIDE DEF u
<1>2. Shaped(u)
  BY <1>1 DEF WorkKept, Shaped, NoLineage
<1>3. OneCurrent(u) /\ VersionsWritten(u) /\ HoldsApproved(u)
      /\ CallsBound(u) /\ OneHeld(u) /\ OneLiveLease(u)
  BY <1>1 DEF WorkKept, OneCurrent, VersionsWritten, HoldsApproved, CallsBound, OneHeld, OneLiveLease
<1>4. ASSUME NEW x \in Lease, u.lease[x].state = "live", x \notin M
      PROVE  WorksApproved(u, x)
  <2> DEFINE w == t.hold[t.lease[x].hold].version
             m == t.version[w].lineage
  <2>1. WorksApproved(t, x) /\ t.lease[x].state = "live"
    BY <1>1, <1>4 DEF WorkKept
  <2>2. w \in Version /\ m \in Lineage
    BY <2>1 DEF WorksApproved, ApprovalCurrent, WorkKept, HoldsApproved, VersionsWritten
  <2>3. m # l
    BY <1>4, <2>1, <2>2 DEF LiveOn, Versions
  <2>4. u.lineage[m] = t.lineage[m]
    BY <1>1, <2>2, <2>3 DEF WorkKept, Shaped
  <2> QED BY <1>1, <2>1, <2>4 DEF WorksApproved, ApprovalCurrent, TaskOf
<1>5. WorkKept(u, M)
  BY <1>2, <1>3, <1>4 DEF WorkKept
<1> QED BY <1>1, <1>5 DEF u

\* A drop keeps the work when the dropped holds are closed and each of their
\* versions holds nothing else.
LEMMA DroppingKeepsWork ==
    ASSUME NEW t, WorkKept(t, {}), NEW H \in SUBSET Hold, NEW f, NEW retire \in BOOLEAN,
           f \in Injection(Resuming(t, H), FreshHolds(t)),
           \A h \in Resuming(t, H) :
              t.hold[h].state # "none" /\ HeldOn(t, {t.hold[h].version}) = {},
           \A h, i \in Resuming(t, H) : t.hold[h].version = t.hold[i].version => h = i
    PROVE  WorkKept(Dropped(t, H, f, retire), {})
<1> DEFINE dropped == [t EXCEPT !.hold = [h \in Hold |->
                IF h \in Dropping(t, H) THEN [t.hold[h] EXCEPT !.attempt = "dropped"] ELSE t.hold[h]]]
           revoke(S) == IF retire THEN LeasesOf(t, S) ELSE {}
           old(n) == CHOOSE h \in DOMAIN f : f[h] = n
           spent == StoppedSpent(dropped, Exhausted(t, H), revoke(Exhausted(t, H)))
           new == [n \in {f[h] : h \in DOMAIN f} |->
                     [version |-> t.hold[old(n)].version, envelope |-> t.hold[old(n)].envelope,
                      amount |-> Left(t, old(n))]]
           again == Reserved(spent, new)
<1>1. Dropped(t, H, f, retire) = Revoked(again, revoke(DOMAIN f))
  BY DEF Dropped
<1>2. Ends(t, dropped, {}, {})
  <2>1. /\ dropped.lineage = t.lineage /\ dropped.version = t.version /\ dropped.lease = t.lease
        /\ dropped.envelope = t.envelope /\ dropped.call = t.call
        /\ DOMAIN dropped = DOMAIN t
        /\ dropped.hold = [h \in Hold |->
              IF h \in Dropping(t, H) THEN [t.hold[h] EXCEPT !.attempt = "dropped"] ELSE t.hold[h]]
    BY DEF WorkKept, Shaped
  <2>2. \A h \in Dropping(t, H) : h \in Hold /\ t.hold[h].state # "held"
    BY DEF Dropping, WorkKept, HoldsApproved
  <2>3. Shaped(t)
    BY DEF WorkKept
  <2> HIDE DEF dropped
  <2>4. Shaped(dropped)
    BY <2>1, <2>3 DEF Shaped, NoHold
  <2>5. SameApprovals(t, dropped) /\ LeasesEnd(t, dropped, {}) /\ CallsStay(t, dropped)
    BY <2>1 DEF SameApprovals, LeasesEnd, CallsStay
  <2>6. HoldsClose(t, dropped, {})
    BY <2>1, <2>2, <2>3 DEF Shaped, HoldsClose, NoHold
  <2> QED BY <2>4, <2>5, <2>6 DEF Ends
<1> HIDE DEF dropped, revoke, old
<1>3. Ends(dropped, spent, LeasesOf(dropped, Exhausted(t, H)), {})
  BY <1>2, StoppedSpentEnds DEF Ends
<1> HIDE DEF spent
<1>4. PICK L : Ends(t, spent, L, {})
  BY <1>2, <1>3, EndsTransitive
<1>5. WorkKept(spent, {})
  BY <1>4, EndingKeepsWork, {} \subseteq L
<1>6. /\ \A h \in Resuming(t, H) : f[h] \in FreshHolds(t)
      /\ DOMAIN f = Resuming(t, H)
      /\ \A h, i \in DOMAIN f : f[h] = f[i] => h = i
  BY DEF Injection, IsInjective
<1>7. \A n \in DOMAIN new : /\ old(n) \in Resuming(t, H) /\ f[old(n)] = n
                            /\ new[n].version = t.hold[old(n)].version
  BY <1>6 DEF old
<1>8. \A h \in Resuming(t, H) : /\ t.hold[h].version \in Version
                                /\ t.version[t.hold[h].version].gate = "approved"
  <2>1. HoldsApproved(t) /\ Resuming(t, H) \subseteq Hold
    BY DEF WorkKept, Resuming, Dropping
  <2> QED BY <2>1 DEF HoldsApproved
<1> HIDE DEF new
<1>9. ASSUME NEW n \in DOMAIN new
      PROVE  /\ n \in FreshHolds(spent)
             /\ new[n].version \in Version
             /\ spent.version[new[n].version].gate = "approved"
             /\ HeldOn(spent, {new[n].version}) = {}
  <2> DEFINE v == new[n].version
  <2>1. old(n) \in Resuming(t, H) /\ f[old(n)] = n /\ v = t.hold[old(n)].version
    BY <1>7
  <2>2. n \in FreshHolds(t) /\ v \in Version /\ t.version[v].gate = "approved"
        /\ HeldOn(t, {v}) = {}
    BY <1>6, <1>8, <2>1
  <2>3. SameApprovals(t, spent) /\ HoldsClose(t, spent, {})
    BY <1>4 DEF Ends
  <2> HIDE DEF v
  <2>4. n \in FreshHolds(spent)
    BY <2>2, <2>3 DEF FreshHolds, HoldsClose
  <2>5. spent.version[v].gate = "approved"
    BY <2>2, <2>3 DEF SameApprovals
  <2>6. HeldOn(spent, {v}) = {}
    BY <2>2, <2>3 DEF HeldOn, HoldsClose
  <2> QED BY <2>2, <2>4, <2>5, <2>6 DEF v
<1>10. ASSUME NEW n \in DOMAIN new, NEW m \in DOMAIN new, new[n].version = new[m].version
       PROVE  n = m
  <2>1. old(n) = old(m)
    BY <1>7, <1>10
  <2> QED BY <1>7, <2>1
<1>11. WorkKept(again, {})
  BY <1>5, <1>9, <1>10, ReservingKeepsWork
<1> HIDE DEF again
<1>12. Ends(again, Revoked(again, revoke(DOMAIN f)), {}, {})
  BY <1>11, RevokedEnds DEF WorkKept
<1>13. WorkKept(Revoked(again, revoke(DOMAIN f)), {})
  BY <1>11, <1>12, EndingKeepsWork
<1> QED BY <1>1, <1>13

\* A pickup fences the task's live lease before it writes its own.
LEMMA ClaimingKeepsWork ==
    ASSUME NEW t, WorkKept(t, {}), NEW h \in Hold, NEW x \in Lease, NEW agent,
           t.hold[h].state = "held", t.hold[h].lease = Nil,
           t.lease[x].state = "none",
           ApprovalCurrent(t, t.hold[h].version)
    PROVE  WorkKept(LeaseTaken(Fenced(t, TaskOf(t, t.hold[h].version)), h, x, agent), {})
<1> DEFINE v == t.hold[h].version
           k == TaskOf(t, v)
           L == LiveOnTask(t, k)
           H == {i \in Hold : t.hold[i].state = "held" /\ t.hold[i].lease \in L}
           u == Fenced(t, k)
<1>1. Ends(t, u, L, H)
  BY FencedEnds DEF WorkKept
<1>2. h \notin H
  BY NilAssumption DEF LiveOnTask
<1>3. v \in Version
  BY DEF WorkKept, HoldsApproved
<1>4. WorkKept(u, {})
  BY FencingKeepsWork
<1>5. ApprovalCurrent(t, v)
  OBVIOUS
<1>6. L = {y \in Lease : t.lease[y].state = "live" /\ t.lease[y].task = k}
  BY DEF LiveOnTask
<1> HIDE DEF u, v, L, H
<1>7. SameApprovals(t, u) /\ LeasesEnd(t, u, L) /\ HoldsClose(t, u, H)
  BY <1>1 DEF Ends
<1>8. u.hold[h].state = "held" /\ u.hold[h].lease = Nil /\ u.hold[h].version = v
  BY <1>2, <1>7 DEF HoldsClose, v
<1>9. u.lease[x].state = "none"
  BY <1>7 DEF LeasesEnd
<1>10. ApprovalCurrent(u, v) /\ TaskOf(u, v) = k
  BY <1>3, <1>5, <1>7 DEF SameApprovals, ApprovalCurrent, TaskOf
<1> HIDE DEF k
<1>11. LiveOnTask(u, k) = {}
  BY <1>6, <1>7 DEF LeasesEnd, LiveOnTask
<1>12. WorkKept(LeaseTaken(u, h, x, agent), {})
  BY <1>4, <1>8, <1>9, <1>10, <1>11, LeasingKeepsWork
<1> QED BY <1>12 DEF u, k, v


(***************************************************************************)
(* The tables a transaction commits are the next state.                    *)
(***************************************************************************)
\* Tables with the same rows keep the same work.
LEMMA SameTablesKeepWork ==
    ASSUME NEW t, NEW u, WorkKept(t, {}), DOMAIN u = DOMAIN t,
           u.lineage = t.lineage, u.version = t.version, u.hold = t.hold,
           u.lease = t.lease, u.envelope = t.envelope, u.call = t.call
    PROVE  WorkKept(u, {})
<1>1. SameApprovals(t, u) /\ LeasesEnd(t, u, {}) /\ HoldsClose(t, u, {}) /\ CallsStay(t, u)
  BY DEF SameApprovals, LeasesEnd, HoldsClose, CallsStay
<1>2. Shaped(u)
  BY DEF WorkKept, Shaped
<1> QED BY <1>1, <1>2, EndingKeepsWork DEF Ends

\* A transaction whose tables keep the work may be committed.
LEMMA CommitKeepsWork ==
    ASSUME NEW STATE t, WorkKept(t, {}), Commit(t)
    PROVE  WorkInv'
<1>1. /\ Tables'.lineage = t.lineage /\ Tables'.version = t.version /\ Tables'.hold = t.hold
      /\ Tables'.lease = t.lease /\ Tables'.envelope = t.envelope /\ Tables'.call = t.call
  BY DEF Tables, Commit
<1>2. DOMAIN Tables' = DOMAIN t
  BY DEF Tables, WorkKept, Shaped
<1>3. WorkKept(Tables', {})
  BY <1>1, <1>2, SameTablesKeepWork
<1> QED BY <1>3 DEF WorkInv

\* The fields of the tables are the variables.
LEMMA TablesFields ==
    /\ Tables.lineage = lineage /\ Tables.version = version /\ Tables.hold = hold
    /\ Tables.lease = lease /\ Tables.envelope = envelope /\ Tables.call = call
BY DEF Tables

\* A proposal supersedes the live version and ends the work on it in one transaction.
LEMMA ProposeKeepsWork ==
    ASSUME WorkInv, NEW k \in Task, NEW l \in Lineage, NEW v \in Version, NEW m \in Amounts,
           NEW revision \in BOOLEAN, Propose(k, l, v, m, revision)
    PROVE  WorkInv'
<1> DEFINE t == Tables
           opens == lineage[l].state = "none"
           t1 == IF opens THEN Opened(t, l, k, Nil) ELSE t
           t2 == ProposalWritten(t1, v, l, m, revision)
           V == Current(t, l)
<1>1. version[v].state = "none" /\ Commit(Superseding(t2, V))
  BY DEF Propose
<1>2. WorkKept(t, {}) /\ t.lineage = lineage /\ t.version = version
  BY TablesFields DEF WorkInv
<1> HIDE DEF t
<1>3. WorkKept(t1, {}) /\ t1.version = t.version
  <2>1. CASE opens
    BY <1>2, <2>1, OpeningKeepsWork
  <2>2. CASE ~ opens
    BY <1>2, <2>2
  <2> QED BY <2>1, <2>2
<1>4. Current(t1, l) = V
  BY <1>3 DEF Current, Versions
<1> HIDE DEF t1, V
<1>5. WorkKept(t2, LiveOn(t1, V)) /\ t2.lease = t1.lease /\ t2.hold = t1.hold
  BY <1>1, <1>2, <1>3, <1>4, ProposingKeepsWork
<1>6. LiveOn(t2, V) = LiveOn(t1, V)
  BY <1>5 DEF LiveOn
<1> HIDE DEF t2
<1>7. WorkKept(Superseding(t2, V), {})
  BY <1>5, <1>6, SupersedingKeepsWork
<1> QED BY <1>1, <1>7, CommitKeepsWork

\* A restart opens a lineage nothing works on and closes an envelope.
LEMMA RestartKeepsWork ==
    ASSUME WorkInv, NEW old \in Lineage, NEW l \in Lineage, NEW v \in Version, Restart(old, l, v)
    PROVE  WorkInv'
<1> DEFINE t == Tables
           k == lineage[old].task
           last == CHOOSE w \in Current(Tables, old) : TRUE
           t1 == Opened(Tables, l, k, old)
           t2 == ProposalWritten(t1, v, l, version[last].maximum, FALSE)
           closed == [e \in Envelope |->
                IF e \in OpenEnvelope(t2, k) THEN [t2.envelope[e] EXCEPT !.state = "closed"]
                ELSE t2.envelope[e]]
           u == [t2 EXCEPT !.envelope = closed]
<1>1. lineage[l].state = "none" /\ version[v].state = "none" /\ Commit(u)
  BY DEF Restart
<1>2. WorkKept(Tables, {}) /\ Tables.lineage = lineage /\ Tables.version = version
  BY TablesFields DEF WorkInv
<1>3. /\ WorkKept(t1, {}) /\ t1.version = Tables.version
      /\ t1.lease = Tables.lease /\ t1.hold = Tables.hold
  BY <1>1, <1>2, OpeningKeepsWork
<1>4. LiveOn(t1, Current(t1, l)) = {}
  <2> SUFFICES ASSUME NEW x \in LiveOn(t1, Current(t1, l)) PROVE FALSE
    OBVIOUS
  <2> HIDE DEF t1
  <2>1. /\ x \in Lease /\ Tables.lease[x].state = "live"
        /\ Tables.hold[Tables.lease[x].hold].version \in Current(Tables, l)
    BY <1>3 DEF LiveOn, Current, Versions
  <2>2. WorksApproved(Tables, x)
    BY <1>2, <2>1 DEF WorkKept
  <2> QED BY <1>1, <1>2, <2>1, <2>2 DEF WorksApproved, ApprovalCurrent, Current, Versions
<1> HIDE DEF t1, k, last
<1>5. WorkKept(t2, {})
  BY <1>1, <1>2, <1>3, <1>4, ProposingKeepsWork
<1> HIDE DEF t2
<1>6. DOMAIN closed = Envelope
  OBVIOUS
<1> HIDE DEF closed
<1>7. Ends(t2, u, {}, {})
  BY <1>5, <1>6, EnvelopesEnd DEF WorkKept
<1>8. WorkKept(u, {})
  BY <1>5, <1>7, EndingKeepsWork
<1> QED BY <1>1, <1>8, CommitKeepsWork

\* An approval holds money for a version that, its gate pending, holds none.
LEMMA ApproveKeepsWork ==
    ASSUME WorkInv, NEW v \in Version, NEW e \in Envelope, NEW h \in Hold, Approve(v, e, h)
    PROVE  WorkInv'
<1> DEFINE k == TaskOf(Tables, v)
           maximum == version[v].maximum
           g == GateDecided(Tables, v, "approved")
           t1 == EnvelopeOpened(g, k, e, maximum)
           new == [n \in {h} |-> [version |-> v, envelope |-> e, amount |-> maximum]]
<1>1. Decidable(Tables, v) /\ h \in FreshHolds(Tables) /\ Commit(Reserved(t1, new))
  BY DEF Approve
<1>2. WorkKept(Tables, {})
  BY DEF WorkInv
<1>3. HeldOn(Tables, {v}) = {}
  BY <1>1, <1>2 DEF WorkKept, HoldsApproved, HeldOn, Decidable
<1>4. WorkKept(g, {}) /\ g.hold = Tables.hold /\ g.version[v].gate = "approved"
  BY <1>1, <1>2, DecidingKeepsWork
<1> HIDE DEF g, k, maximum
<1>5. Ends(g, t1, {}, {})
  BY <1>4, EnvelopeOpenedEnds DEF WorkKept
<1> HIDE DEF t1
<1>6. WorkKept(t1, {})
  BY <1>4, <1>5, EndingKeepsWork
<1>7. SameApprovals(g, t1) /\ HoldsClose(g, t1, {})
  BY <1>5 DEF Ends
<1>8. t1.version[v].gate = "approved"
  BY <1>4, <1>7 DEF SameApprovals
<1>9. h \in FreshHolds(t1)
  BY <1>1, <1>4, <1>7 DEF FreshHolds, HoldsClose
<1>10. HeldOn(t1, {v}) = {}
  BY <1>3, <1>4, <1>7 DEF HeldOn, HoldsClose
<1>11. DOMAIN new = {h} /\ new[h].version = v
  OBVIOUS
<1> HIDE DEF new
<1>12. WorkKept(Reserved(t1, new), {})
  BY <1>6, <1>8, <1>9, <1>10, <1>11, ReservingKeepsWork
<1> QED BY <1>1, <1>12, CommitKeepsWork

\* A rejected lineage has no live lease: its live version was never approved.
LEMMA RejectKeepsWork ==
    ASSUME WorkInv, NEW v \in Version, Reject(v)
    PROVE  WorkInv'
<1> DEFINE l == version[v].lineage
           g == GateDecided(Tables, v, "rejected")
           t1 == [g EXCEPT !.lineage[l].state = "rejected"]
           H == HeldOn(t1, Versions(t1, l))
<1>1. Decidable(Tables, v) /\ Commit(Classified(t1, H))
  BY DEF Reject
<1>2. WorkKept(Tables, {}) /\ Tables.version = version
  BY TablesFields DEF WorkInv
<1>3. l \in Lineage /\ version[v].state = "current" /\ version[v].gate = "pending"
  BY <1>1, <1>2 DEF WorkKept, VersionsWritten, Decidable
<1>4. /\ WorkKept(g, {}) /\ g.lease = Tables.lease /\ g.hold = Tables.hold
      /\ \A w \in Version : /\ g.version[w].state = version[w].state
                            /\ g.version[w].lineage = version[w].lineage
  BY <1>1, <1>2, DecidingKeepsWork
<1> HIDE DEF g
<1>5. /\ WorkKept(t1, LiveOn(g, Versions(g, l)))
      /\ t1.version = g.version /\ t1.hold = g.hold /\ t1.lease = g.lease
  BY <1>3, <1>4, EndingLineageKeepsWork
<1> HIDE DEF t1
<1>6. LiveOn(g, Versions(g, l)) = {}
  <2> SUFFICES ASSUME NEW x \in LiveOn(g, Versions(g, l)) PROVE FALSE
    OBVIOUS
  <2> DEFINE w == Tables.hold[Tables.lease[x].hold].version
  <2>1. /\ x \in Lease /\ Tables.lease[x].state = "live"
        /\ w \in Version /\ version[w].lineage = l
    BY <1>4 DEF LiveOn, Versions
  <2>2. version[w].state = "current" /\ version[w].gate = "approved"
    BY <1>2, <2>1 DEF WorkKept, WorksApproved, ApprovalCurrent
  <2>3. w = v
    BY <1>2, <1>3, <2>1, <2>2 DEF WorkKept, OneCurrent
  <2> QED BY <1>3, <2>2, <2>3
<1>7. ASSUME NEW x \in Lease, t1.lease[x].state = "live", t1.lease[x].hold \in H
      PROVE  x \in {}
  BY <1>5, <1>6, <1>7 DEF LiveOn, HeldOn, Versions
<1>8. Ends(t1, Classified(t1, H), {}, H)
  BY <1>5, ClassifiedEnds DEF WorkKept
<1> HIDE DEF H
<1>9. WorkKept(t1, {})
  BY <1>5, <1>6
<1>10. WorkKept(Classified(t1, H), {})
  BY <1>7, <1>8, <1>9, EndingKeepsWork
<1> QED BY <1>1, <1>10, CommitKeepsWork

\* Requested changes close a gate nothing is held under.
LEMMA RequestChangesKeepsWork ==
    ASSUME WorkInv, NEW v \in Version, RequestChanges(v)
    PROVE  WorkInv'
<1>1. Decidable(Tables, v) /\ Commit(GateDecided(Tables, v, "changes_requested"))
  BY DEF RequestChanges
<1>2. WorkKept(GateDecided(Tables, v, "changes_requested"), {})
  BY <1>1, DecidingKeepsWork DEF WorkInv
<1> QED BY <1>1, <1>2, CommitKeepsWork

(***************************************************************************)
(* Work.                                                                   *)
(***************************************************************************)
\* A report from a live lease, completed or not, ends that lease alone.
LEMMA ReportingEnds ==
    ASSUME NEW t, WorkKept(t, {}), NEW x \in Lease, HandbackBound(t, x), NEW completed \in BOOLEAN
    PROVE  Ends(t, IF completed THEN Stopped(Settled(t, x, FALSE), {x}, "final")
                   ELSE Settled(t, x, FALSE), {x}, {t.lease[x].hold})
<1> DEFINE h == t.lease[x].hold
           t1 == Settled(t, x, FALSE)
           t2 == Stopped(t1, {x}, "final")
<1>1. Ends(t, t1, {x}, {h})
  BY SettledEnds DEF WorkKept, HandbackBound, Standing
<1> HIDE DEF t1
<1>2. Ends(t1, t2, {}, {})
  BY <1>1, StoppedEnds DEF Ends
<1> HIDE DEF t2, h
<1>3. Ends(t, t2, {x}, {h})
  BY <1>1, <1>2, EndsTransitive, {x} \cup {} = {x}, {h} \cup {} = {h}
<1> QED BY <1>1, <1>3 DEF t1, t2, h

\* No other live lease works on the reporting lease's hold.
LEMMA HoldIsItsLeaseAlone ==
    ASSUME NEW t, WorkKept(t, {}), NEW x \in Lease, t.lease[x].state = "live",
           NEW y \in Lease, t.lease[y].state = "live", t.lease[y].hold = t.lease[x].hold
    PROVE  y = x
BY DEF WorkKept, WorksApproved

\* So a report keeps the work.
LEMMA ReportingKeepsWork ==
    ASSUME NEW t, WorkKept(t, {}), NEW x \in Lease, HandbackBound(t, x), NEW completed \in BOOLEAN
    PROVE  WorkKept(IF completed THEN Stopped(Settled(t, x, FALSE), {x}, "final")
                    ELSE Settled(t, x, FALSE), {})
<1> DEFINE u == IF completed THEN Stopped(Settled(t, x, FALSE), {x}, "final")
                ELSE Settled(t, x, FALSE)
<1>1. Ends(t, u, {x}, {t.lease[x].hold})
  BY ReportingEnds
<1> HIDE DEF u
<1>2. t.lease[x].state = "live"
  BY DEF HandbackBound, Standing
<1>3. \A y \in Lease : t.lease[y].state = "live" /\ t.lease[y].hold \in {t.lease[x].hold} => y \in {x}
  BY <1>2, HoldIsItsLeaseAlone
<1>4. WorkKept(u, {})
  BY <1>1, <1>3, EndingKeepsWork
<1> QED BY <1>4 DEF u

\* A pickup of an unclaimed hold fences the task's lapsed lease before its own.
LEMMA PickUpKeepsWork ==
    ASSUME WorkInv, NEW h \in Hold, NEW x \in Lease, NEW agent \in BOOLEAN, PickUp(h, x, agent)
    PROVE  WorkInv'
<1> DEFINE k == TaskOf(Tables, Tables.hold[h].version)
           u == LeaseTaken(Fenced(Tables, k), h, x, agent)
<1>1. Tables.hold = hold /\ Tables.lease = lease
  BY TablesFields
<1>2. /\ Tables.lease[x].state = "none"
      /\ Tables.hold[h].state = "held" /\ Tables.hold[h].lease = Nil
      /\ ApprovalCurrent(Tables, Tables.hold[h].version)
      /\ Commit(u)
  BY <1>1 DEF PickUp, Unclaimed, Claimable
<1>3. WorkKept(u, {})
  BY <1>2, ClaimingKeepsWork DEF WorkInv
<1> HIDE DEF u
<1> QED BY <1>2, <1>3, CommitKeepsWork

\* Letting go leaves the version of a replaced hold with nothing held.
LEMMA ReplacingFreesVersion ==
    ASSUME NEW t, WorkKept(t, {}), NEW h \in Hold, Replacing(t, h)
    PROVE  LET u == LetGo(t, h)
               v == t.hold[h].version
           IN
           /\ WorkKept(u, {})
           /\ v \in Version
           /\ HeldOn(u, {v}) = {}
           /\ ApprovalCurrent(u, v) /\ TaskOf(u, v) = TaskOf(t, v)
           /\ \A n \in Hold : t.hold[n].state = "none" => u.hold[n].state = "none"
           /\ \A x \in Lease : t.lease[x].state = "none" => u.lease[x].state = "none"
<1> DEFINE u == LetGo(t, h)
           v == t.hold[h].version
<1>1. WorkKept(u, {})
  BY LettingGoKeepsWork
<1>2. v \in Version /\ ApprovalCurrent(t, v)
  BY DEF Replacing, Claimable, WorkKept, HoldsApproved
<1>3. PICK L, H : Ends(t, u, L, H)
  <2>1. CASE t.hold[h].state = "held"
    BY <2>1, LetGoEnds DEF WorkKept
  <2>2. CASE t.hold[h].state # "held"
    <3>1. u = t
      BY <2>2 DEF LetGo
    <3> QED BY <3>1, EndsReflexive DEF WorkKept
  <2> QED BY <2>1, <2>2
<1>4. SameApprovals(t, u) /\ LeasesEnd(t, u, L) /\ HoldsClose(t, u, H)
  BY <1>3 DEF Ends
<1>5. u.hold[h].state # "held"
  BY DEF Replacing
<1>6. HeldOn(t, {v}) \subseteq {h}
  <2>1. CASE t.hold[h].state = "held"
    BY <2>1 DEF WorkKept, OneHeld, HeldOn
  <2>2. CASE t.hold[h].state # "held"
    BY <2>2 DEF Replacing, Abandoned, Replaceable
  <2> QED BY <2>1, <2>2
<1> HIDE DEF u, v
<1>7. HeldOn(u, {v}) = {}
  BY <1>4, <1>5, <1>6 DEF HoldsClose, HeldOn
<1>8. ApprovalCurrent(u, v) /\ TaskOf(u, v) = TaskOf(t, v)
  BY <1>2, <1>4 DEF SameApprovals, ApprovalCurrent, TaskOf
<1>9. /\ \A n \in Hold : t.hold[n].state = "none" => u.hold[n].state = "none"
      /\ \A x \in Lease : t.lease[x].state = "none" => u.lease[x].state = "none"
  BY <1>4 DEF HoldsClose, LeasesEnd
<1> QED BY <1>1, <1>2, <1>7, <1>8, <1>9 DEF u, v

\* One fresh hold, for a version that holds nothing, stands unclaimed beside the
\* rest as it was.
LEMMA ReservingOneKeepsWork ==
    ASSUME NEW t, WorkKept(t, {}), NEW n \in FreshHolds(t), NEW v \in Version,
           t.version[v].gate = "approved", HeldOn(t, {v}) = {},
           NEW new, DOMAIN new = {n}, new[n].version = v
    PROVE  /\ WorkKept(Reserved(t, new), {})
           /\ Reserved(t, new).lineage = t.lineage
           /\ Reserved(t, new).version = t.version
           /\ Reserved(t, new).lease = t.lease
           /\ Reserved(t, new).hold[n].state = "held"
           /\ Reserved(t, new).hold[n].lease = Nil
           /\ Reserved(t, new).hold[n].version = v
<1>1. \A m \in DOMAIN new : /\ m \in FreshHolds(t) /\ new[m].version \in Version
                            /\ t.version[new[m].version].gate = "approved"
                            /\ HeldOn(t, {new[m].version}) = {}
  OBVIOUS
<1>2. \A m, i \in DOMAIN new : new[m].version = new[i].version => m = i
  OBVIOUS
<1> DEFINE u == Reserved(t, new)
<1>3. WorkKept(u, {})
  BY <1>1, <1>2, ReservingKeepsWork
<1>4. u.lineage = t.lineage /\ u.version = t.version /\ u.lease = t.lease
  BY DEF WorkKept, Shaped, Reserved
<1>5. n \in Hold
  BY DEF FreshHolds
<1>6. u.hold[n].state = "held" /\ u.hold[n].lease = Nil /\ u.hold[n].version = v
  BY <1>5 DEF WorkKept, Shaped, Reserved
<1> HIDE DEF u
<1> QED BY <1>3, <1>4, <1>6 DEF u

\* A replacing pickup lets the old hold go before it reserves and claims a fresh one.
LEMMA PickUpReplacingKeepsWork ==
    ASSUME WorkInv, NEW h \in Hold, NEW n \in Hold, NEW x \in Lease, NEW agent \in BOOLEAN,
           PickUpReplacing(h, n, x, agent)
    PROVE  WorkInv'
<1> DEFINE v == hold[h].version
           k == TaskOf(Tables, v)
           t1 == LetGo(Tables, h)
           new == [m \in {n} |-> [version |-> v, envelope |-> hold[h].envelope,
                                  amount |-> ReplacementAmount(t1, h)]]
           t2 == Reserved(t1, new)
           u == LeaseTaken(Fenced(t2, k), n, x, agent)
<1>1. Tables.hold = hold /\ Tables.lease = lease
  BY TablesFields
<1>2. /\ Tables.lease[x].state = "none" /\ Tables.hold[n].state = "none"
      /\ Replacing(Tables, h) /\ Commit(u)
  BY <1>1 DEF PickUpReplacing, FreshHolds
<1>3. WorkKept(Tables, {}) /\ v = Tables.hold[h].version
  BY <1>1 DEF WorkInv
<1> HIDE DEF v
<1>4. /\ WorkKept(t1, {}) /\ v \in Version /\ HeldOn(t1, {v}) = {}
      /\ ApprovalCurrent(t1, v) /\ TaskOf(t1, v) = k
      /\ t1.hold[n].state = "none" /\ t1.lease[x].state = "none"
  BY <1>2, <1>3, ReplacingFreesVersion
<1>5. DOMAIN new = {n} /\ new[n].version = v
  OBVIOUS
<1> HIDE DEF k, t1, new
<1>6. t1.version[v].gate = "approved" /\ n \in FreshHolds(t1)
  BY <1>4 DEF ApprovalCurrent, FreshHolds
<1>7. /\ WorkKept(t2, {})
      /\ t2.lineage = t1.lineage /\ t2.version = t1.version /\ t2.lease = t1.lease
      /\ t2.hold[n].state = "held" /\ t2.hold[n].lease = Nil /\ t2.hold[n].version = v
  BY <1>4, <1>5, <1>6, ReservingOneKeepsWork
<1> HIDE DEF t2
<1>8. ApprovalCurrent(t2, v) /\ TaskOf(t2, v) = k
  BY <1>4, <1>7 DEF ApprovalCurrent, TaskOf
<1>9. WorkKept(u, {})
  BY <1>4, <1>5, <1>7, <1>8, ClaimingKeepsWork
<1> HIDE DEF u
<1> QED BY <1>2, <1>9, CommitKeepsWork

\* A claim refused for want of money leaves the work it stopped ended.
LEMMA PickUpSpentKeepsWork ==
    ASSUME WorkInv, NEW h \in Hold, PickUpSpent(h)
    PROVE  WorkInv'
<1> DEFINE k == TaskOf(Tables, hold[h].version)
           t1 == LetGo(Tables, h)
           t2 == StoppedSpent(t1, {h}, {})
<1>1. Commit(Fenced(t2, k))
  BY DEF PickUpSpent
<1>2. WorkKept(t1, {})
  BY LettingGoKeepsWork DEF WorkInv
<1> HIDE DEF t1, k
<1>3. Ends(t1, t2, LeasesOf(t1, {h}), {})
  BY <1>2, StoppedSpentEnds DEF WorkKept
<1> HIDE DEF t2
<1>4. WorkKept(t2, {})
  BY <1>2, <1>3, EndingKeepsWork
<1>5. WorkKept(Fenced(t2, k), {})
  BY <1>4, FencingKeepsWork
<1> QED BY <1>1, <1>5, CommitKeepsWork

\* A hand-back ends its own lease and closes or keeps its own hold.
LEMMA HandBackKeepsWork ==
    ASSUME WorkInv, NEW x \in Lease, NEW completed \in BOOLEAN, HandBack(x, completed)
    PROVE  WorkInv'
<1> DEFINE u == IF completed THEN Stopped(Settled(Tables, x, FALSE), {x}, "final")
                ELSE Settled(Tables, x, FALSE)
<1>1. HandbackBound(Tables, x) /\ Commit(u)
  BY DEF HandBack
<1>2. WorkKept(u, {})
  BY <1>1, ReportingKeepsWork DEF WorkInv
<1> HIDE DEF u
<1> QED BY <1>1, <1>2, CommitKeepsWork

\* A hand-back for review ends its lease before it supersedes its version.
LEMMA HandBackForReviewKeepsWork ==
    ASSUME WorkInv, NEW x \in Lease, NEW completed \in BOOLEAN, NEW v \in Version,
           NEW m \in Amounts, HandBackForReview(x, completed, v, m)
    PROVE  WorkInv'
<1> DEFINE t == Tables
           h == t.lease[x].hold
           w == t.hold[h].version
           l == t.version[w].lineage
           t2 == IF completed THEN Stopped(Settled(Tables, x, FALSE), {x}, "final")
                 ELSE Settled(Tables, x, FALSE)
           u == ProposalWritten(t2, v, l, m, TRUE)
<1>1. HandbackBound(t, x) /\ t.version[v].state = "none" /\ Commit(u)
  BY TablesFields DEF HandBackForReview
<1>2. WorkKept(t, {})
  BY DEF WorkInv
<1>3. WorkKept(t2, {}) /\ Ends(t, t2, {x}, {h})
  BY <1>1, <1>2, ReportingKeepsWork, ReportingEnds
<1> HIDE DEF t, t2
<1>4. WorksApproved(t, x) /\ t.lease[x].state = "live"
  BY <1>1, <1>2 DEF WorkKept, HandbackBound, Standing
<1>5. h \in Hold /\ t.hold[h].state = "held" /\ w \in Version /\ l \in Lineage
      /\ t.version[w].state = "current"
  BY <1>2, <1>4 DEF WorkKept, WorksApproved, ApprovalCurrent, HoldsApproved, VersionsWritten
<1>6. SameApprovals(t, t2) /\ LeasesEnd(t, t2, {x}) /\ HoldsClose(t, t2, {h})
  BY <1>3 DEF Ends
<1>7. LiveOn(t2, Current(t2, l)) = {}
  <2> SUFFICES ASSUME NEW y \in LiveOn(t2, Current(t2, l)) PROVE FALSE
    OBVIOUS
  <2> DEFINE i == t.lease[y].hold
             z == t.hold[i].version
  <2>1. y \in Lease /\ t.lease[y].state = "live" /\ y # x /\ t2.lease[y].hold = i
    BY <1>6 DEF LiveOn, LeasesEnd
  <2>2. WorksApproved(t, y)
    BY <1>2, <2>1 DEF WorkKept
  <2>3. i \in Hold /\ t.hold[i].state = "held" /\ t2.hold[i].version = z
    BY <1>6, <2>2 DEF WorksApproved, HoldsClose
  <2>4. z \in Version /\ t2.version[z].lineage = l /\ t2.version[z].state = "current"
    BY <2>1, <2>3 DEF LiveOn, Current, Versions
  <2>5. z = w
    <3>1. t.version[z].lineage = l /\ t.version[z].state = "current"
      BY <1>6, <2>4 DEF SameApprovals
    <3>2. OneCurrent(t)
      BY <1>2 DEF WorkKept
    <3> QED BY <1>5, <2>4, <3>1, <3>2 DEF OneCurrent
  <2>6. i = h
    BY <1>2, <1>5, <2>3, <2>5 DEF WorkKept, OneHeld
  <2> QED BY <1>4, <2>1, <2>2, <2>6 DEF WorksApproved
<1>8. t2.version[v].state = "none"
  BY <1>1, <1>6 DEF SameApprovals
<1>9. WorkKept(u, {})
  BY <1>3, <1>5, <1>7, <1>8, ProposingKeepsWork
<1> HIDE DEF u
<1> QED BY <1>1, <1>9, CommitKeepsWork

\* A dropped attempt resumes under a fresh hold only after its own is closed.
LEMMA HandBackDroppedKeepsWork ==
    ASSUME WorkInv, NEW x \in Lease, HandbackBound(Tables, x),
           NEW f \in Renewals(Resuming(Settled(Tables, x, TRUE), {lease[x].hold})),
           HandBackDropped(x, f)
    PROVE  WorkInv'
<1> DEFINE t == Tables
           h == t.lease[x].hold
           t1 == Settled(Tables, x, TRUE)
           u == Dropped(t1, {h}, f, FALSE)
<1>1. Commit(u) /\ t.lease = lease /\ t.hold = hold
  BY TablesFields DEF HandBackDropped
<1>2. WorkKept(t, {}) /\ WorksApproved(t, x) /\ t.lease[x].state = "live"
  BY DEF WorkInv, WorkKept, HandbackBound, Standing
<1>3. Ends(t, t1, {x}, {h})
  BY <1>2, SettledEnds DEF WorkKept
<1>4. f \in Injection(Resuming(t1, {h}), FreshHolds(t))
  BY <1>1 DEF Renewals
<1> HIDE DEF t, t1
<1>5. \A y \in Lease : t.lease[y].state = "live" /\ t.lease[y].hold \in {h} => y \in {x}
  BY <1>2, HoldIsItsLeaseAlone
<1>6. WorkKept(t1, {})
  BY <1>2, <1>3, <1>5, EndingKeepsWork
<1>7. HoldsClose(t, t1, {h})
  BY <1>3 DEF Ends
<1>8. FreshHolds(t1) = FreshHolds(t)
  BY <1>7 DEF HoldsClose, FreshHolds
<1>9. h \in Hold /\ t.hold[h].state = "held"
  BY <1>2 DEF WorksApproved
<1>10. ASSUME NEW i \in Resuming(t1, {h})
       PROVE  t1.hold[i].state # "none" /\ HeldOn(t1, {t1.hold[i].version}) = {}
  <2>1. i = h /\ t1.hold[h].attempt = "abandoned"
    BY DEF Resuming, Dropping
  <2>2. t1.hold[h].state # "none" /\ t1.hold[h].state # "held"
    BY <1>6, <1>7, <1>9, <2>1 DEF WorkKept, HoldsApproved, HoldsClose
  <2>3. \A j \in Hold : t1.hold[j].state = "held" /\ t1.hold[j].version = t1.hold[h].version => j = h
    BY <1>2, <1>7, <1>9 DEF WorkKept, OneHeld, HoldsClose
  <2> QED BY <2>1, <2>2, <2>3 DEF HeldOn
<1>11. \A i, j \in Resuming(t1, {h}) : i = j
  BY DEF Resuming, Dropping
<1>12. WorkKept(u, {})
  BY <1>4, <1>6, <1>8, <1>9, <1>10, <1>11, DroppingKeepsWork
<1> HIDE DEF u
<1> QED BY <1>1, <1>12, CommitKeepsWork

\* The steps that write one column of one row end nothing.
LEMMA LapseGateKeepsWork ==
    ASSUME WorkInv, NEW v \in Version, LapseGate(v)
    PROVE  WorkInv'
<1> DEFINE u == Tables'
<1>1. WorkKept(Tables, {})
  BY DEF WorkInv
<1>2. /\ u.lineage = lineage /\ u.hold = hold /\ u.lease = lease
      /\ u.envelope = envelope /\ u.call = call /\ DOMAIN u = DOMAIN Tables
      /\ u.version = [version EXCEPT ![v] = [version[v] EXCEPT !.lapsed = TRUE]]
  BY DEF Tables, LapseGate
<1> HIDE DEF u
<1>3. Shaped(u)
  BY <1>1, <1>2, TablesFields DEF WorkKept, Shaped, NoVersion
<1>4. SameApprovals(Tables, u)
  BY <1>1, <1>2, TablesFields DEF WorkKept, Shaped, SameApprovals, NoVersion
<1>5. LeasesEnd(Tables, u, {}) /\ HoldsClose(Tables, u, {}) /\ CallsStay(Tables, u)
  BY <1>2, TablesFields DEF LeasesEnd, HoldsClose, CallsStay
<1>6. WorkKept(u, {})
  BY <1>1, <1>3, <1>4, <1>5, EndingKeepsWork DEF Ends
<1> QED BY <1>6 DEF WorkInv, u

\* A lease past its expiry is still the task's one live lease until it is fenced.
LEMMA LapseLeaseKeepsWork ==
    ASSUME WorkInv, NEW x \in Lease, LapseLease(x)
    PROVE  WorkInv'
<1> DEFINE u == Tables'
<1>1. WorkKept(Tables, {})
  BY DEF WorkInv
<1>2. /\ u.lineage = lineage /\ u.version = version /\ u.hold = hold
      /\ u.envelope = envelope /\ u.call = call /\ DOMAIN u = DOMAIN Tables
      /\ u.lease = [lease EXCEPT ![x] = [lease[x] EXCEPT !.lapsed = TRUE]]
  BY DEF Tables, LapseLease
<1> HIDE DEF u
<1>3. Shaped(u)
  BY <1>1, <1>2, TablesFields DEF WorkKept, Shaped, NoLease
<1>4. LeasesEnd(Tables, u, {})
  BY <1>1, <1>2, TablesFields DEF WorkKept, Shaped, LeasesEnd, NoLease
<1>5. SameApprovals(Tables, u) /\ HoldsClose(Tables, u, {}) /\ CallsStay(Tables, u)
  BY <1>2, TablesFields DEF SameApprovals, HoldsClose, CallsStay
<1>6. WorkKept(u, {})
  BY <1>1, <1>3, <1>4, <1>5, EndingKeepsWork DEF Ends
<1> QED BY <1>6 DEF WorkInv, u

\* A dispatch marks a hold and moves nothing else.
LEMMA DispatchKeepsWork ==
    ASSUME WorkInv, NEW x \in Lease, Dispatch(x)
    PROVE  WorkInv'
<1> DEFINE u == Tables'
           h == lease[x].hold
<1>1. WorkKept(Tables, {})
  BY DEF WorkInv
<1>2. /\ u.lineage = lineage /\ u.version = version /\ u.lease = lease
      /\ u.envelope = envelope /\ u.call = call /\ DOMAIN u = DOMAIN Tables
      /\ u.hold = [hold EXCEPT ![h] = [hold[h] EXCEPT !.marked = TRUE]]
  BY DEF Tables, Dispatch
<1> HIDE DEF u, h
<1>3. Shaped(u)
  BY <1>1, <1>2, TablesFields DEF WorkKept, Shaped, NoHold
<1>4. HoldsClose(Tables, u, {})
  BY <1>1, <1>2, TablesFields DEF WorkKept, Shaped, HoldsClose, NoHold
<1>5. SameApprovals(Tables, u) /\ LeasesEnd(Tables, u, {}) /\ CallsStay(Tables, u)
  BY <1>2, TablesFields DEF SameApprovals, LeasesEnd, CallsStay
<1>6. WorkKept(u, {})
  BY <1>1, <1>3, <1>4, <1>5, EndingKeepsWork DEF Ends
<1> QED BY <1>6 DEF WorkInv, u

(***************************************************************************)
(* Model calls.                                                            *)
(***************************************************************************)
\* Closing one call, or moving it on, ends nothing.
LEMMA CallWrittenEnds ==
    ASSUME NEW t, Shaped(t), NEW c \in Call, NEW row,
           DOMAIN row = DOMAIN NoCall,
           row.hold = t.call[c].hold, row.lease = t.call[c].lease,
           row.state = "none" <=> t.call[c].state = "none"
    PROVE  Ends(t, [t EXCEPT !.call[c] = row], {}, {})
<1> DEFINE u == [t EXCEPT !.call[c] = row]
<1>1. /\ u.lineage = t.lineage /\ u.version = t.version /\ u.hold = t.hold
      /\ u.lease = t.lease /\ u.envelope = t.envelope /\ DOMAIN u = DOMAIN t
      /\ u.call = [t.call EXCEPT ![c] = row]
  BY DEF Shaped
<1> HIDE DEF u
<1>2. Shaped(u)
  BY <1>1 DEF Shaped
<1>3. SameApprovals(t, u) /\ LeasesEnd(t, u, {}) /\ HoldsClose(t, u, {})
  BY <1>1 DEF SameApprovals, LeasesEnd, HoldsClose
<1>4. CallsStay(t, u)
  BY <1>1 DEF Shaped, CallsStay
<1> QED BY <1>2, <1>3, <1>4 DEF Ends, u

\* A call marked started stays bound to its lease and hold.
LEMMA StartCallKeepsWork ==
    ASSUME WorkInv, NEW c \in Call, StartCall(c)
    PROVE  WorkInv'
<1> DEFINE row == [call[c] EXCEPT !.state = "dispatched"]
           u == [Tables EXCEPT !.call[c] = row]
<1>1. WorkKept(Tables, {})
  BY DEF WorkInv
<1>2. DOMAIN row = DOMAIN NoCall /\ row.hold = call[c].hold /\ row.lease = call[c].lease
      /\ row.state = "dispatched"
  BY <1>1, TablesFields DEF WorkKept, Shaped, NoCall
<1>3. call[c].state = "reserved"
  BY DEF StartCall
<1>4. Commit(u)
  BY DEF StartCall, Commit, Tables
<1> HIDE DEF row
<1>5. Ends(Tables, u, {}, {})
  BY <1>1, <1>2, <1>3, TablesFields, CallWrittenEnds DEF WorkKept
<1>6. WorkKept(u, {})
  BY <1>1, <1>5, EndingKeepsWork
<1> HIDE DEF u
<1> QED BY <1>4, <1>6, CommitKeepsWork

\* A settled call stays bound to its lease and hold.
LEMMA SettleCallKeepsWork ==
    ASSUME WorkInv, NEW c \in Call, NEW cost \in Amounts \cup {0}, SettleCall(c, cost)
    PROVE  WorkInv'
<1> DEFINE row == [call[c] EXCEPT !.state = "settled", !.actual = cost]
           u == [Tables EXCEPT !.call[c] = row]
<1>1. WorkKept(Tables, {})
  BY DEF WorkInv
<1>2. DOMAIN row = DOMAIN NoCall /\ row.hold = call[c].hold /\ row.lease = call[c].lease
      /\ row.state = "settled"
  BY <1>1, TablesFields DEF WorkKept, Shaped, NoCall
<1>3. call[c].state # "none"
  BY TablesFields DEF SettleCall, Sent
<1>4. Commit(u)
  BY DEF SettleCall, Commit, Tables
<1> HIDE DEF row
<1>5. Ends(Tables, u, {}, {})
  BY <1>1, <1>2, <1>3, TablesFields, CallWrittenEnds DEF WorkKept
<1>6. WorkKept(u, {})
  BY <1>1, <1>5, EndingKeepsWork
<1> HIDE DEF u
<1> QED BY <1>4, <1>6, CommitKeepsWork

\* A reserved call is bound to the hold of the live lease that makes it.
LEMMA ReserveCallKeepsWork ==
    ASSUME WorkInv, NEW x \in Lease, NEW c \in Call, NEW m \in Amounts, ReserveCall(x, c, m)
    PROVE  WorkInv'
<1> DEFINE t == Tables
           u == Tables'
           row == [state |-> "reserved", hold |-> lease[x].hold, lease |-> x,
                   maximum |-> m, actual |-> 0]
<1>1. WorkKept(t, {}) /\ t.lease[x].state = "live"
  BY TablesFields DEF WorkInv, ReserveCall, CallFacts, Standing
<1>2. /\ u.lineage = t.lineage /\ u.version = t.version /\ u.hold = t.hold
      /\ u.lease = t.lease /\ u.envelope = t.envelope /\ DOMAIN u = DOMAIN t
      /\ u.call = [t.call EXCEPT ![c] = row]
  BY DEF Tables, ReserveCall
<1>3. row.hold = t.lease[x].hold /\ row.lease = x /\ DOMAIN row = DOMAIN NoCall
  BY TablesFields DEF NoCall
<1> HIDE DEF t, u, row
<1>4. Shaped(u)
  BY <1>1, <1>2, <1>3 DEF WorkKept, Shaped
<1>5. CallsBound(u)
  <2>1. CallsBound(t) /\ DOMAIN t.call = Call
    BY <1>1 DEF WorkKept, Shaped
  <2> QED BY <1>1, <1>2, <1>3, <2>1 DEF CallsBound
<1>6. OneCurrent(u) /\ VersionsWritten(u) /\ HoldsApproved(u) /\ OneHeld(u) /\ OneLiveLease(u)
  BY <1>1, <1>2 DEF WorkKept, OneCurrent, VersionsWritten, HoldsApproved, OneHeld, OneLiveLease
<1>7. ASSUME NEW y \in Lease, u.lease[y].state = "live"
      PROVE  WorksApproved(u, y)
  <2>1. u.lineage = t.lineage /\ u.version = t.version /\ u.hold = t.hold /\ u.lease = t.lease
    BY <1>2
  <2>2. WorksApproved(t, y)
    BY <1>1, <1>7, <2>1 DEF WorkKept
  <2> QED BY <2>1, <2>2 DEF WorksApproved, ApprovalCurrent, TaskOf
<1> QED BY <1>4, <1>5, <1>6, <1>7 DEF WorkInv, WorkKept, u

\* Retiring a lease keeps the work, whatever it was stopped for.
LEMMA RetiringKeepsWork ==
    ASSUME NEW t, WorkKept(t, {}), NEW L, NEW code
    PROVE  WorkKept(Retired(t, L, code), {})
<1>1. Ends(t, Retired(t, L, code), L, {})
  BY RetiredEnds DEF WorkKept
<1> QED BY <1>1, EndingKeepsWork

\* A call past the ceiling retires its attempt and asks for budget.
LEMMA StopAtCeilingKeepsWork ==
    ASSUME WorkInv, NEW x \in Lease, NEW m \in Amounts, StopAtCeiling(x, m)
    PROVE  WorkInv'
<1> DEFINE V == VersionsOf(Tables, {lease[x].hold})
           t1 == Retired(Tables, {x}, "retryable")
           u == AtBudget(t1, V)
<1>1. Commit(u)
  BY DEF StopAtCeiling
<1>2. WorkKept(t1, {})
  BY RetiringKeepsWork DEF WorkInv
<1> HIDE DEF t1, V
<1>3. Ends(t1, u, {}, {})
  BY <1>2, AtBudgetEnds DEF WorkKept
<1>4. WorkKept(u, {})
  BY <1>2, <1>3, EndingKeepsWork
<1> HIDE DEF u
<1> QED BY <1>1, <1>4, CommitKeepsWork

\* Any other refused call retires its attempt for good.
LEMMA RefuseCallKeepsWork ==
    ASSUME WorkInv, NEW x \in Lease, RefuseCall(x)
    PROVE  WorkInv'
<1> DEFINE u == Retired(Tables, {x}, "final")
<1>1. Commit(u) /\ WorkKept(u, {})
  BY RetiringKeepsWork DEF RefuseCall, WorkInv
<1> HIDE DEF u
<1> QED BY <1>1, CommitKeepsWork

\* A worker that ends its own run retires its attempt for good.
LEMMA EndRunKeepsWork ==
    ASSUME WorkInv, NEW x \in Lease, EndRun(x)
    PROVE  WorkInv'
<1> DEFINE u == Retired(Tables, {x}, "final")
<1>1. Commit(u) /\ WorkKept(u, {})
  BY RetiringKeepsWork DEF EndRun, WorkInv
<1> HIDE DEF u
<1> QED BY <1>1, CommitKeepsWork

\* A released call stays bound to its lease and hold.
LEMMA ReleasingCallKeepsWork ==
    ASSUME NEW t, WorkKept(t, {}), NEW c \in Call, t.call[c].state # "none"
    PROVE  WorkKept([t EXCEPT !.call[c].state = "released"], {})
<1> DEFINE row == [t.call[c] EXCEPT !.state = "released"]
           u == [t EXCEPT !.call[c] = row]
<1>1. DOMAIN row = DOMAIN NoCall /\ row.hold = t.call[c].hold /\ row.lease = t.call[c].lease
      /\ row.state = "released"
  BY DEF WorkKept, Shaped, NoCall
<1>2. u = [t EXCEPT !.call[c].state = "released"]
  BY DEF WorkKept, Shaped
<1> HIDE DEF row
<1>3. Ends(t, u, {}, {})
  BY <1>1, CallWrittenEnds DEF WorkKept
<1> HIDE DEF u
<1>4. WorkKept(u, {})
  BY <1>3, EndingKeepsWork
<1> QED BY <1>2, <1>4

\* A call refused at its start is released, and its attempt retired if its facts held.
LEMMA RefuseStartKeepsWork ==
    ASSUME WorkInv, NEW c \in Call, RefuseStart(c)
    PROVE  WorkInv'
<1> DEFINE t1 == [Tables EXCEPT !.call[c].state = "released"]
           t2 == Retired(t1, {call[c].lease}, "final")
<1>1. call[c].state = "reserved" /\ (Commit(t1) \/ Commit(t2))
  BY DEF RefuseStart
<1>2. WorkKept(t1, {})
  BY <1>1, TablesFields, ReleasingCallKeepsWork DEF WorkInv
<1> HIDE DEF t1
<1>3. WorkKept(t2, {})
  BY <1>2, RetiringKeepsWork
<1> HIDE DEF t2
<1> QED BY <1>1, <1>2, <1>3, CommitKeepsWork DEF t1, t2

\* A call the provider disowns is released, and its attempt stopped if it still stands.
LEMMA ReleaseCallKeepsWork ==
    ASSUME WorkInv, NEW c \in Call, ReleaseCall(c)
    PROVE  WorkInv'
<1> DEFINE t1 == [Tables EXCEPT !.call[c].state = "released"]
           u == StoppedAtSettlement(t1, call[c].lease)
<1>1. call[c].state # "none" /\ Commit(u)
  BY TablesFields DEF ReleaseCall, Sent
<1>2. WorkKept(t1, {})
  BY <1>1, TablesFields, ReleasingCallKeepsWork DEF WorkInv
<1> HIDE DEF t1
<1>3. WorkKept(u, {})
  BY <1>2, RetiringKeepsWork DEF StoppedAtSettlement
<1> HIDE DEF u
<1> QED BY <1>1, <1>3, CommitKeepsWork

\* A call held unknown marks its step and ends nothing.
LEMMA HeldUnknownEnds ==
    ASSUME NEW t, Shaped(t), NEW c \in Call
    PROVE  Ends(t, HeldUnknown(t, c), {}, {})
<1> DEFINE u == HeldUnknown(t, c)
           h == t.call[c].hold
<1>1. CASE t.call[c].state = "dispatched"
  <2>1. /\ u.lineage = t.lineage /\ u.version = t.version /\ u.lease = t.lease
        /\ u.envelope = t.envelope /\ DOMAIN u = DOMAIN t
        /\ u.call = [t.call EXCEPT ![c] = [t.call[c] EXCEPT !.state = "liability_unknown"]]
        /\ u.hold = [t.hold EXCEPT ![h] =
              [t.hold[h] EXCEPT !.marked = @ \/ t.hold[h].attempt = "dispatched"]]
    BY <1>1 DEF Shaped, HeldUnknown
  <2> HIDE DEF u, h
  <2>2. Shaped(u)
    BY <2>1 DEF Shaped, NoHold, NoCall
  <2>3. HoldsClose(t, u, {})
    BY <2>1 DEF Shaped, HoldsClose, NoHold
  <2>4. CallsStay(t, u)
    BY <1>1, <2>1 DEF Shaped, CallsStay, NoCall
  <2>5. SameApprovals(t, u) /\ LeasesEnd(t, u, {})
    BY <2>1 DEF SameApprovals, LeasesEnd
  <2> QED BY <2>2, <2>3, <2>4, <2>5 DEF Ends, u
<1>2. CASE t.call[c].state # "dispatched"
  BY <1>2, EndsReflexive DEF HeldUnknown
<1> QED BY <1>1, <1>2

\* A call held unknown stops its attempt, and a drop classifies the hold of that
\* attempt alone.
LEMMA HoldCallKeepsWork ==
    ASSUME WorkInv, NEW c \in Call, NEW drops \in BOOLEAN, HoldCall(c, drops)
    PROVE  WorkInv'
<1> DEFINE t == Tables
           x == t.call[c].lease
           h == t.call[c].hold
           t1 == HeldUnknown(t, c)
           t2 == StoppedAtSettlement(t1, x)
           u == Classified(t2, {h})
<1>1. /\ t.call[c].state # "none" /\ (drops => Standing(t, x))
      /\ IF drops THEN Commit(u) ELSE Commit(t2)
  BY TablesFields DEF HoldCall, Sent
<1>2. WorkKept(t, {}) /\ Ends(t, t1, {}, {})
  BY HeldUnknownEnds DEF WorkInv, WorkKept
<1>3. t1.lease = t.lease
  BY <1>2 DEF WorkKept, Shaped, HeldUnknown
<1>4. x \in Lease /\ h = t.lease[x].hold
  BY <1>1, <1>2 DEF WorkKept, CallsBound
<1> HIDE DEF t, t1, x, h
<1>5. WorkKept(t1, {})
  BY <1>2, EndingKeepsWork
<1>6. WorkKept(t2, {})
  BY <1>5, RetiringKeepsWork DEF StoppedAtSettlement
<1>7. ASSUME drops
      PROVE  WorkKept(u, {})
  <2>1. Standing(t1, x) /\ t1.lease[x].state = "live" /\ h = t1.lease[x].hold
    BY <1>1, <1>3, <1>4, <1>7 DEF Standing
  <2>2. t2 = Retired(t1, {x}, "final")
    BY <2>1 DEF StoppedAtSettlement
  <2>3. Ends(t1, t2, {x}, {})
    BY <1>5, <2>2, RetiredEnds DEF WorkKept
  <2> HIDE DEF t2
  <2>4. Ends(t2, u, {}, {h})
    BY <1>6, ClassifiedEnds DEF WorkKept
  <2> HIDE DEF u
  <2>5. Ends(t1, u, {x}, {h})
    BY <2>3, <2>4, EndsTransitive, {x} \cup {} = {x}, {} \cup {h} = {h}
  <2>6. \A y \in Lease : t1.lease[y].state = "live" /\ t1.lease[y].hold \in {h} => y \in {x}
    BY <1>4, <1>5, <2>1, HoldIsItsLeaseAlone
  <2> QED BY <1>5, <2>5, <2>6, EndingKeepsWork
<1> HIDE DEF t2, u
<1> QED BY <1>1, <1>6, <1>7, CommitKeepsWork DEF t2, u, t1, t, x, h

(***************************************************************************)
(* Recovery, cancellation and the loss of authority.                       *)
(***************************************************************************)
\* The sweep fences every expired lease, classifies its hold and only then
\* resumes what may go on.
LEMMA ExpiredFencedEnds ==
    ASSUME NEW t, Shaped(t)
    PROVE  Ends(t, ExpiredFenced(t), LeasesOf(t, Expired(t)), Expired(t))
<1> DEFINE H == Expired(t)
           t1 == CallsLost(t, H)
           L == LeasesOf(t1, H)
           t2 == Lost(t1, L)
<1>1. ExpiredFenced(t) = Classified(t2, H)
  BY DEF ExpiredFenced
<1>2. H \subseteq Hold
  BY DEF Expired
<1> HIDE DEF H
<1>3. Ends(t, t1, {}, {})
  BY CallsLostEnds
<1> HIDE DEF t1
<1>4. L = LeasesOf(t, H)
  BY <1>2, <1>3 DEF LeasesOf, Ends, HoldsClose
<1> HIDE DEF L
<1>5. Ends(t1, t2, L, {})
  BY <1>3, LostEnds DEF Ends
<1> HIDE DEF t2
<1>6. Ends(t2, Classified(t2, H), {}, H)
  BY <1>5, ClassifiedEnds DEF Ends
<1>7. Ends(t, t2, L, {})
  BY <1>3, <1>5, EndsTransitive, {} \cup L = L, {} \cup {} = {}
<1>8. Ends(t, Classified(t2, H), L, H)
  BY <1>6, <1>7, EndsTransitive, L \cup {} = L, {} \cup H = H
<1> QED BY <1>1, <1>4, <1>8 DEF H

\* Every hold the sweep resumes was closed by it first, one to a version.
LEMMA SweepPassKeepsWork ==
    ASSUME WorkInv,
           NEW f \in Renewals(Resuming(ExpiredFenced(Tables), Expired(Tables))),
           SweepPass(f)
    PROVE  WorkInv'
<1> DEFINE t == Tables
           H == Expired(t)
           t1 == ExpiredFenced(t)
           t2 == Dropped(t1, H, f, TRUE)
           u == CallsSwept(t2)
<1>1. Commit(u)
  BY DEF SweepPass, Swept
<1>2. WorkKept(t, {})
  BY DEF WorkInv
<1>3. f \in Injection(Resuming(t1, H), FreshHolds(t))
  BY DEF Renewals
<1> HIDE DEF t
<1>4. H \in SUBSET Hold /\ \A h \in H : /\ t.hold[h].state = "held" /\ t.hold[h].lease # Nil
                                        /\ t.lease[t.hold[h].lease].state = "live"
  BY DEF Expired
<1>5. Ends(t, t1, LeasesOf(t, H), H)
  BY <1>2, ExpiredFencedEnds DEF WorkKept
<1> HIDE DEF t1, H
<1>6. \A x \in Lease : t.lease[x].state = "live" /\ t.lease[x].hold \in H => x \in LeasesOf(t, H)
  BY <1>2, NilAssumption DEF WorkKept, WorksApproved, LeasesOf
<1>7. WorkKept(t1, {})
  BY <1>2, <1>5, <1>6, EndingKeepsWork
<1>8. HoldsClose(t, t1, H)
  BY <1>5 DEF Ends
<1>9. FreshHolds(t1) = FreshHolds(t)
  BY <1>8 DEF HoldsClose, FreshHolds
<1>10. Resuming(t1, H) \subseteq H /\ \A h \in Resuming(t1, H) : t1.hold[h].attempt = "abandoned"
  BY DEF Resuming, Dropping
<1>11. ASSUME NEW h \in Resuming(t1, H)
       PROVE  t1.hold[h].state # "none" /\ HeldOn(t1, {t1.hold[h].version}) = {}
  <2>1. h \in Hold /\ t.hold[h].state = "held" /\ t1.hold[h].attempt = "abandoned"
    BY <1>4, <1>10
  <2>2. t1.hold[h].state # "none" /\ t1.hold[h].state # "held"
    BY <1>7, <1>8, <2>1 DEF WorkKept, HoldsApproved, HoldsClose
  <2>3. \A j \in Hold : t1.hold[j].state = "held" /\ t1.hold[j].version = t1.hold[h].version => j = h
    BY <1>2, <1>8, <2>1 DEF WorkKept, OneHeld, HoldsClose
  <2> QED BY <2>2, <2>3 DEF HeldOn
<1>12. \A h, i \in Resuming(t1, H) : t1.hold[h].version = t1.hold[i].version => h = i
  BY <1>2, <1>4, <1>8, <1>10 DEF WorkKept, OneHeld, HoldsClose
<1>13. WorkKept(t2, {})
  BY <1>3, <1>4, <1>7, <1>9, <1>11, <1>12, DroppingKeepsWork
<1> HIDE DEF t2
<1>14. Ends(t2, u, {}, {})
  BY <1>13, CallsSweptEnds DEF WorkKept
<1>15. WorkKept(u, {})
  BY <1>13, <1>14, EndingKeepsWork
<1> HIDE DEF u
<1> QED BY <1>1, <1>15, CommitKeepsWork

\* A replay closes the hold of a live lease only with the authority of that lease
\* gone, and retires the lease then.
LEMMA ReplayKeepsWork ==
    ASSUME WorkInv, Replay
    PROVE  WorkInv'
<1> DEFINE t == Tables
           E == {h \in Hold : Eligible(t, h)}
           A == {h \in E : LostAuthority(t, h)}
           L == LeasesOf(t, A)
           t1 == Retired(t, L, "retryable")
           t2 == RunsReopened(t1, VersionsOf(t, A))
           u == Classified(t2, E)
<1>1. Commit(u)
  BY DEF Replay, Replayed
<1>2. WorkKept(t, {})
  BY DEF WorkInv
<1> HIDE DEF t
<1>3. ASSUME NEW x \in Lease, t.lease[x].state = "live", t.lease[x].hold \in E
      PROVE  x \in L
  <2> DEFINE h == t.lease[x].hold
  <2>1. WorksApproved(t, x)
    BY <1>2, <1>3 DEF WorkKept
  <2>2. h \in E /\ t.hold[h].lease = x /\ x # Nil
    BY <1>3, <2>1, NilAssumption DEF WorksApproved
  <2>3. h \in A
    BY <1>3, <2>1, <2>2 DEF WorksApproved, ApprovalCurrent, Eligible, LostAuthority
  <2> QED BY <2>2, <2>3 DEF LeasesOf
<1> HIDE DEF E, A, L
<1>4. Ends(t, t1, L, {})
  BY <1>2, RetiredEnds DEF WorkKept
<1> HIDE DEF t1
<1>5. Ends(t1, t2, {}, {})
  BY <1>4, RunsReopenedEnds DEF Ends
<1> HIDE DEF t2
<1>6. Ends(t2, u, {}, E)
  BY <1>5, ClassifiedEnds DEF Ends
<1> HIDE DEF u
<1>7. Ends(t, t2, L, {})
  BY <1>4, <1>5, EndsTransitive, L \cup {} = L, {} \cup {} = {}
<1>8. Ends(t, u, L, E)
  BY <1>6, <1>7, EndsTransitive, L \cup {} = L, {} \cup E = E
<1>9. WorkKept(u, {})
  BY <1>2, <1>3, <1>8, EndingKeepsWork
<1> QED BY <1>1, <1>9, CommitKeepsWork

\* Runs are no part of who works on what.
LEMMA RunsWrittenEnd ==
    ASSUME NEW t, Shaped(t), NEW rows, DOMAIN rows = Version,
           \A v \in Version : /\ DOMAIN rows[v] = DOMAIN NoVersion
                              /\ rows[v].state = t.version[v].state
                              /\ rows[v].lineage = t.version[v].lineage
                              /\ rows[v].gate = t.version[v].gate
    PROVE  Ends(t, [t EXCEPT !.version = rows], {}, {})
<1> DEFINE u == [t EXCEPT !.version = rows]
<1>1. /\ u.lineage = t.lineage /\ u.version = rows /\ u.hold = t.hold
      /\ u.lease = t.lease /\ u.envelope = t.envelope /\ u.call = t.call /\ DOMAIN u = DOMAIN t
  BY DEF Shaped
<1> HIDE DEF u
<1>2. Shaped(u)
  BY <1>1 DEF Shaped
<1>3. SameApprovals(t, u) /\ LeasesEnd(t, u, {}) /\ HoldsClose(t, u, {}) /\ CallsStay(t, u)
  BY <1>1 DEF SameApprovals, LeasesEnd, HoldsClose, CallsStay
<1> QED BY <1>2, <1>3 DEF Ends, u

\* A cancellation ends every lease on the lineage with the holds it classifies.
LEMMA CancelKeepsWork ==
    ASSUME WorkInv, NEW l \in Lineage, Cancel(l)
    PROVE  WorkInv'
<1> DEFINE t == Tables
           V == Versions(t, l)
           t1 == [t EXCEPT !.lineage[l].state = "cancelled"]
           L == LiveOn(t1, V)
           t2 == Retired(t1, L, "final")
           rows == [v \in Version |->
                IF v \in V /\ t2.version[v].run \in {"planned", "claimed"}
                    THEN [t2.version[v] EXCEPT !.run = "cancelled"] ELSE t2.version[v]]
           t3 == [t2 EXCEPT !.version = rows]
           H == HeldOn(t3, V)
           u == Classified(t3, H)
<1>1. Commit(u)
  BY DEF Cancel
<1>2. WorkKept(t, {})
  BY DEF WorkInv
<1> HIDE DEF t
<1>3. /\ WorkKept(t1, LiveOn(t, V))
      /\ t1.version = t.version /\ t1.hold = t.hold /\ t1.lease = t.lease
  BY <1>2, EndingLineageKeepsWork
<1>4. LiveOn(t, V) = L
  BY <1>3 DEF LiveOn
<1> HIDE DEF t1, V
<1>5. WorkKept(t1, L)
  BY <1>3, <1>4
<1>6. L = {x \in Lease : t1.lease[x].state = "live" /\ t1.hold[t1.lease[x].hold].version \in V}
  BY DEF LiveOn
<1> HIDE DEF L
<1>7. Ends(t1, t2, L, {})
  BY <1>5, RetiredEnds DEF WorkKept
<1> HIDE DEF t2
<1>8. DOMAIN rows = Version /\ \A v \in Version : /\ DOMAIN rows[v] = DOMAIN NoVersion
                              /\ rows[v].state = t2.version[v].state
                              /\ rows[v].lineage = t2.version[v].lineage
                              /\ rows[v].gate = t2.version[v].gate
  BY <1>7 DEF Ends, Shaped, NoVersion
<1> HIDE DEF rows
<1>9. Ends(t2, t3, {}, {})
  BY <1>7, <1>8, RunsWrittenEnd DEF Ends
<1> HIDE DEF t3
<1>10. Ends(t1, t3, L, {})
  BY <1>7, <1>9, EndsTransitive, L \cup {} = L, {} \cup {} = {}
<1>11. ASSUME NEW x \in Lease, t1.lease[x].state = "live", t1.lease[x].hold \in H
       PROVE  x \in L
  <2>1. HoldsClose(t1, t3, {})
    BY <1>10 DEF Ends
  <2> QED BY <1>6, <1>11, <2>1 DEF HeldOn, HoldsClose
<1> HIDE DEF H
<1>12. Ends(t3, u, {}, H)
  BY <1>9, ClassifiedEnds DEF Ends
<1> HIDE DEF u
<1>13. Ends(t1, u, L, H)
  BY <1>10, <1>12, EndsTransitive, L \cup {} = L, {} \cup H = H
<1>14. WorkKept(u, {})
  BY <1>5, <1>11, <1>13, EndingKeepsWork
<1> QED BY <1>1, <1>14, CommitKeepsWork

\* Lost authority retires the leases it names and classifies only their holds.
LEMMA LoseAuthorityKeepsWork ==
    ASSUME WorkInv, NEW L \in SUBSET Lease, LoseAuthority(L)
    PROVE  WorkInv'
<1> DEFINE t == Tables
           H == {h \in Hold : t.hold[h].state = "held" /\ t.hold[h].lease \in L}
           V == {t.hold[t.lease[x].hold].version : x \in L}
           t1 == Retired(t, L, "retryable")
           t2 == Classified(t1, H)
           u == RunsReopened(t2, V)
<1>1. Commit(u)
  BY TablesFields DEF LoseAuthority
<1>2. WorkKept(t, {})
  BY DEF WorkInv
<1> HIDE DEF t, V
<1>3. ASSUME NEW x \in Lease, t.lease[x].state = "live", t.lease[x].hold \in H
      PROVE  x \in L
  BY <1>2, <1>3 DEF WorkKept, WorksApproved
<1> HIDE DEF H
<1>4. Ends(t, t1, L, {})
  BY <1>2, RetiredEnds DEF WorkKept
<1> HIDE DEF t1
<1>5. Ends(t1, t2, {}, H)
  BY <1>4, ClassifiedEnds DEF Ends
<1> HIDE DEF t2
<1>6. Ends(t2, u, {}, {})
  BY <1>5, RunsReopenedEnds DEF Ends
<1> HIDE DEF u
<1>7. Ends(t, t2, L, H)
  BY <1>4, <1>5, EndsTransitive, L \cup {} = L, {} \cup H = H
<1>8. Ends(t, u, L, H)
  BY <1>6, <1>7, EndsTransitive, L \cup {} = L, H \cup {} = H
<1>9. WorkKept(u, {})
  BY <1>2, <1>3, <1>8, EndingKeepsWork
<1> QED BY <1>1, <1>9, CommitKeepsWork

(***************************************************************************)
(* The invariant.                                                          *)
(***************************************************************************)
\* With no row written yet there is no work.
LEMMA InitKeepsWork == Init => WorkInv
<1> SUFFICES ASSUME Init PROVE WorkInv
  OBVIOUS
<1>1. Shaped(Tables)
  BY DEF Init, Tables, Shaped
<1>2. /\ \A v \in Version : Tables.version[v].state = "none" /\ Tables.version[v].gate = "none"
      /\ \A h \in Hold : Tables.hold[h].state = "none"
      /\ \A x \in Lease : Tables.lease[x].state = "none"
      /\ \A c \in Call : Tables.call[c].state = "none"
  BY DEF Init, Tables, NoVersion, NoHold, NoLease, NoCall
<1>3. OneCurrent(Tables) /\ VersionsWritten(Tables) /\ HoldsApproved(Tables)
  BY <1>2 DEF OneCurrent, VersionsWritten, HoldsApproved
<1>4. CallsBound(Tables) /\ OneHeld(Tables) /\ OneLiveLease(Tables)
  BY <1>2 DEF CallsBound, OneHeld, OneLiveLease
<1> QED BY <1>1, <1>2, <1>3, <1>4 DEF WorkInv, WorkKept

\* Every step keeps the invariant: one case to an action.
LEMMA NextKeepsWork == WorkInv /\ [Next]_vars => WorkInv'
<1> SUFFICES ASSUME WorkInv, [Next]_vars PROVE WorkInv'
  OBVIOUS
<1>1. CASE Deciding
  BY <1>1, ProposeKeepsWork, RestartKeepsWork, ApproveKeepsWork, RejectKeepsWork,
     RequestChangesKeepsWork DEF Deciding
<1>2. CASE Working
  BY <1>2, PickUpKeepsWork, PickUpReplacingKeepsWork, PickUpSpentKeepsWork, DispatchKeepsWork,
     HandBackKeepsWork, HandBackForReviewKeepsWork, HandBackDroppedKeepsWork,
     EndRunKeepsWork DEF Working
<1>3. CASE Calling
  BY <1>3, ReserveCallKeepsWork, StopAtCeilingKeepsWork, RefuseCallKeepsWork, StartCallKeepsWork,
     RefuseStartKeepsWork, SettleCallKeepsWork, ReleaseCallKeepsWork, HoldCallKeepsWork DEF Calling
<1>4. CASE Sweeping
  BY <1>4, SweepPassKeepsWork DEF Sweeping
<1>5. CASE Replay
  BY <1>5, ReplayKeepsWork
<1>6. CASE Ending
  BY <1>6, CancelKeepsWork, LoseAuthorityKeepsWork DEF Ending
<1>7. CASE Lapsing
  BY <1>7, LapseGateKeepsWork, LapseLeaseKeepsWork DEF Lapsing
<1>8. CASE UNCHANGED vars
  BY <1>8 DEF WorkInv, Tables, vars
<1> QED BY <1>1, <1>2, <1>3, <1>4, <1>5, <1>6, <1>7, <1>8 DEF Next

\* The work invariant holds of every reachable state: leases, holds, versions,
\* gates and calls stay bound to each other through every transaction.
THEOREM WorkIsKept == Spec => []WorkInv
BY InitKeepsWork, NextKeepsWork, PTL DEF Spec

\* At most one worker holds a live lease on a task, however pickups, expiries,
\* sweeps, revisions and cancellations interleave (pickup.ts fenceLiveLease).
THEOREM OneWorkerToATask == Spec => []OneLiveLeasePerTask
<1>1. WorkInv => OneLiveLeasePerTask
  BY DEF WorkInv, WorkKept, OneLiveLeasePerTask
<1> QED BY <1>1, WorkIsKept, PTL

\* A live lease covers held, approved, current work at all times: no command can
\* end the approval, the version or the hold and leave its worker running
\* (lease-retirement.ts retireWork, propose.ts, decide.ts).
THEOREM LiveWorkStaysApproved == Spec => []LiveWorkIsApproved
<1>1. WorkInv => LiveWorkIsApproved
  BY DEF WorkInv, WorkKept, LiveWorkIsApproved, LiveLeaseWorksApproved
<1> QED BY <1>1, WorkIsKept, PTL

\* A version never has two holds held at once: no replacement, resumption or
\* second approval reserves its money twice (pickup.ts replaceable, reconcile.ts).
THEOREM NoDoubleReservation == Spec => []OneHoldPerVersion
<1>1. WorkInv => OneHoldPerVersion
  BY DEF WorkInv, WorkKept, OneHoldPerVersion
<1> QED BY <1>1, WorkIsKept, PTL
=============================================================================
