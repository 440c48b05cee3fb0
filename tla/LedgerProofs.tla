---------------------------- MODULE LedgerProofs ----------------------------
(***************************************************************************)
(* The ledger and the recorded stops are kept by every command, worker     *)
(* call and recovery pass of the runtime: first what each helper of a      *)
(* transaction does to the stops and to the money, and when no envelope    *)
(* stands higher after it than before; then one lemma per action.          *)
(* RuntimeInv is inductive, and the money and stop invariants follow.      *)
(***************************************************************************)
EXTENDS LedgerInvariant, TaskRuntimeProofs, SumLemmas

(***************************************************************************)
(* Stops.                                                                  *)
(***************************************************************************)

\* Where leases only end and holds only close, the stops stay kept if marks do and
\* nothing already unknown is forgotten.
SameVersions(t, u) ==
    /\ u.lineage = t.lineage
    /\ \A v \in Version :
          /\ u.version[v].state = t.version[v].state
          /\ u.version[v].lineage = t.version[v].lineage

LEMMA RowsKeepStops ==
    ASSUME NEW t, NEW u, NEW S, NEW L, NEW H, StopsKept(t, S),
           SameVersions(t, u), LeasesEnd(t, u, L), HoldsClose(t, u, H), MarksHold(u),
           HoldsApproved(t),
           \A h \in Hold :
              /\ u.hold[h].replaced = t.hold[h].replaced
              /\ u.hold[h].end = t.hold[h].end
              /\ t.hold[h].state = "none" => u.hold[h] = t.hold[h]
              /\ u.hold[h].state = "held" /\ t.hold[h].attempt = "liability_unknown"
                    => u.hold[h].attempt = "liability_unknown"
    PROVE  StopsKept(u, S)
<1>1. LeasesBound(u)
  BY DEF StopsKept, LeasesBound, LeasesEnd, HoldsClose
<1>2. StopsEnd(u)
  BY DEF StopsKept, StopsEnd, LeasesBound, LeasesEnd, HoldsClose
<1>3. NewestAlone(u)
  BY DEF StopsKept, NewestAlone, HoldsClose
<1>4. EndedClassified(u, S)
  <2> SUFFICES ASSUME NEW h \in Hold \ S, u.hold[h].state = "held", Over(u, u.hold[h].version)
               PROVE  u.hold[h].attempt = "liability_unknown"
    BY DEF EndedClassified
  <2>1. t.hold[h].state = "held" /\ u.hold[h].version = t.hold[h].version
        /\ t.hold[h].version \in Version
    BY DEF HoldsClose, HoldsApproved
  <2>2. Over(t, t.hold[h].version)
    BY <2>1 DEF Over, SameVersions
  <2>3. t.hold[h].attempt = "liability_unknown"
    BY <2>1, <2>2 DEF StopsKept, EndedClassified
  <2> QED BY <2>3
<1>5. LineagesOpened(u)
  BY DEF StopsKept, LineagesOpened, SameVersions
<1> QED BY <1>1, <1>2, <1>3, <1>4, <1>5 DEF StopsKept

(***************************************************************************)
(* Money.                                                                  *)
(***************************************************************************)
CallOpen(r) == r.state \in {"dispatched", "liability_unknown"}
CallTakes(r) == r.state \in {"reserved", "dispatched", "liability_unknown"}

\* No reservation, envelope or price moves, and calls only close or turn unknown.
SameReservations(t, u) ==
    \A h \in Hold :
        /\ u.hold[h].state = t.hold[h].state
        /\ u.hold[h].envelope = t.hold[h].envelope
        /\ u.hold[h].amount = t.hold[h].amount
        /\ u.hold[h].actual = t.hold[h].actual

CallsClose(t, u) ==
    \A c \in Call :
        /\ u.call[c].hold = t.call[c].hold
        /\ u.call[c].maximum = t.call[c].maximum
        /\ u.call[c].actual = t.call[c].actual
        /\ u.call[c].state = "none" <=> t.call[c].state = "none"
        /\ u.call[c].state = "settled" <=> t.call[c].state = "settled"
        /\ CallOpen(u.call[c]) => CallOpen(t.call[c])
        /\ CallTakes(u.call[c]) => CallTakes(t.call[c])

\* No envelope stands higher in u than in t.
NoMore(t, u) ==
    \A e \in Envelope :
        /\ u.envelope[e].held + u.envelope[e].actual <= t.envelope[e].held + t.envelope[e].actual
        /\ u.envelope[e].maximum = t.envelope[e].maximum

LEMMA NoMoreTransitive ==
    ASSUME NEW t, NEW u, NEW w, Typed(t), Typed(u), Typed(w), NoMore(t, u), NoMore(u, w)
    PROVE  NoMore(t, w)
<1> SUFFICES ASSUME NEW e \in Envelope
             PROVE  /\ w.envelope[e].held + w.envelope[e].actual <= t.envelope[e].held + t.envelope[e].actual
                    /\ w.envelope[e].maximum = t.envelope[e].maximum
  BY DEF NoMore
<1>1. /\ t.envelope[e].held \in Int /\ t.envelope[e].actual \in Int
      /\ u.envelope[e].held \in Int /\ u.envelope[e].actual \in Int
      /\ w.envelope[e].held \in Int /\ w.envelope[e].actual \in Int
  BY DEF Typed, EnvelopeRow
<1> QED BY <1>1 DEF NoMore

\* What a hold's calls cost is a natural number, and they take no less.
LEMMA CallSums ==
    ASSUME NEW t, Typed(t), NEW h
    PROVE  /\ Spent(t, h) \in Nat
           /\ CallsTaken(t, h) \in Nat
           /\ Spent(t, h) <= CallsTaken(t, h)
<1> DEFINE costs == [c \in Call |-> t.call[c].actual]
           maxima == [c \in Call |-> t.call[c].maximum]
           P == {c \in CallsOn(t, h) : t.call[c].state = "settled"}
           Q == {c \in CallsOn(t, h) : CallTakes(t.call[c])}
<1>1. IsFiniteSet(P) /\ IsFiniteSet(Q) /\ P \subseteq Call /\ Q \subseteq Call
  BY RowsAssumption, FS_Subset DEF CallsOn
<1>2. \A c \in Call : costs[c] \in Nat /\ maxima[c] \in Nat
  BY DEF Typed, CallRow
<1>3. Spent(t, h) = SumFunctionOnSet(costs, P)
  BY DEF Spent
<1>4. CallsTaken(t, h) = Spent(t, h) + SumFunctionOnSet(maxima, Q)
  BY Zenon DEF CallsTaken, CallTakes
<1> HIDE DEF costs, maxima, P, Q
<1>5. SumFunctionOnSet(costs, P) \in Nat /\ SumFunctionOnSet(maxima, Q) \in Nat
  BY <1>1, <1>2, SumOfNaturals
<1> QED BY <1>3, <1>4, <1>5

\* Of calls that only close, a hold's costs are the same and no more is taken.
LEMMA CallsCloseSums ==
    ASSUME NEW t, NEW u, Typed(t), Typed(u), CallsClose(t, u), NEW h
    PROVE  /\ Spent(u, h) = Spent(t, h)
           /\ OpenCall(u, h) => OpenCall(t, h)
           /\ CallsTaken(u, h) <= CallsTaken(t, h)
<1> DEFINE maxima == [c \in Call |-> t.call[c].maximum]
           P(x) == {c \in CallsOn(x, h) : x.call[c].state = "settled"}
           Q(x) == {c \in CallsOn(x, h) : CallTakes(x.call[c])}
<1>1. CallsOn(u, h) = CallsOn(t, h)
  BY DEF CallsClose, CallsOn
<1>2. P(u) = P(t)
  BY <1>1 DEF CallsClose, CallsOn
<1>3. [c \in Call |-> u.call[c].actual] = [c \in Call |-> t.call[c].actual]
      /\ [c \in Call |-> u.call[c].maximum] = maxima
  BY DEF CallsClose
<1>4. Spent(u, h) = Spent(t, h)
  BY <1>2, <1>3, Zenon DEF Spent
<1>5. OpenCall(u, h) => OpenCall(t, h)
  BY <1>1 DEF OpenCall, CallsClose, CallOpen, CallsOn
<1>6. Q(u) \subseteq Q(t) /\ Q(t) \subseteq Call
  BY <1>1 DEF CallsClose, CallsOn
<1>7. IsFiniteSet(Q(t)) /\ IsFiniteSet(Q(t) \ Q(u))
  BY <1>6, RowsAssumption, FS_Subset, FS_Difference
<1>8. \A c \in Call : maxima[c] \in Nat
  BY DEF Typed, CallRow
<1>9. CallsTaken(t, h) = Spent(t, h) + SumFunctionOnSet(maxima, Q(t))
  BY Zenon DEF CallsTaken, CallTakes
<1>10. CallsTaken(u, h) = Spent(u, h) + SumFunctionOnSet(maxima, Q(u))
  BY <1>3, Zenon DEF CallsTaken, CallTakes
<1> HIDE DEF maxima, Q
<1>11. SumFunctionOnSet(maxima, Q(t)) =
           SumFunctionOnSet(maxima, Q(u)) + SumFunctionOnSet(maxima, Q(t) \ Q(u))
  BY <1>6, <1>7, <1>8, SumOfParts
<1>12. IsFiniteSet(Q(u))
  BY <1>6, <1>7, FS_Subset
<1>13. SumFunctionOnSet(maxima, Q(t) \ Q(u)) \in Nat /\ SumFunctionOnSet(maxima, Q(u)) \in Nat
  BY <1>6, <1>7, <1>8, <1>12, SumOfNaturals
<1>14. Spent(t, h) \in Nat
  BY CallSums
<1> QED BY <1>4, <1>5, <1>9, <1>10, <1>11, <1>13, <1>14

\* Steps that move no money keep it.
MoneySteady(t, u) ==
    /\ SameVersions(t, u)
    /\ u.envelope = t.envelope
    /\ SameReservations(t, u)
    /\ CallsClose(t, u)

LEMMA SteadyKeepsMoney ==
    ASSUME NEW t, NEW u, MoneyKept(t), MoneySteady(t, u), Typed(u)
    PROVE  MoneyKept(u) /\ NoMore(t, u)
<1>1. Typed(t) /\ SameReservations(t, u) /\ CallsClose(t, u) /\ u.envelope = t.envelope
  BY DEF MoneyKept, MoneySteady
<1>2. LineagesCurrent(u)
  BY DEF MoneyKept, MoneySteady, SameVersions, LineagesCurrent, Current, Versions
<1>3. RowsBound(u)
  BY <1>1 DEF MoneyKept, RowsBound, SameReservations, CallsClose
<1>4. HoldsPay(u)
  <2> SUFFICES ASSUME NEW h \in Hold
               PROVE  /\ u.hold[h].state = "held" =>
                            u.hold[h].actual = 0 /\ CallsTaken(u, h) <= u.hold[h].amount
                      /\ u.hold[h].state \in {"abandoned", "actual"} =>
                            ~ OpenCall(u, h) /\ u.hold[h].actual = Spent(u, h)
    BY DEF HoldsPay
  <2>1. /\ Spent(u, h) = Spent(t, h) /\ (OpenCall(u, h) => OpenCall(t, h))
        /\ CallsTaken(u, h) <= CallsTaken(t, h)
    BY <1>1, CallsCloseSums
  <2>2. CallsTaken(u, h) \in Nat /\ CallsTaken(t, h) \in Nat
    BY <1>1, CallSums
  <2>3. t.hold[h].amount \in Int
    BY <1>1 DEF Typed, HoldRow
  <2> QED BY <1>1, <2>1, <2>2, <2>3 DEF MoneyKept, HoldsPay, SameReservations
<1>5. Balanced(u)
  <2>1. /\ [h \in Hold |-> u.hold[h].amount] = [h \in Hold |-> t.hold[h].amount]
        /\ [h \in Hold |-> u.hold[h].actual] = [h \in Hold |-> t.hold[h].actual]
    BY <1>1 DEF SameReservations
  <2> SUFFICES ASSUME NEW e \in Envelope
               PROVE  LET ofE == {h \in Hold : u.hold[h].envelope = e} IN
                      /\ u.envelope[e].held =
                            SumFunctionOnSet([h \in Hold |-> u.hold[h].amount],
                                             {h \in ofE : u.hold[h].state = "held"})
                      /\ u.envelope[e].actual =
                            SumFunctionOnSet([h \in Hold |-> u.hold[h].actual], ofE)
    BY DEF Balanced
  <2> DEFINE ofE(x) == {h \in Hold : x.hold[h].envelope = e}
             heldE(x) == {h \in ofE(x) : x.hold[h].state = "held"}
  <2>2. ofE(u) = ofE(t)
    BY <1>1 DEF SameReservations
  <2>3. heldE(u) = heldE(t)
    BY <1>1 DEF SameReservations
  <2>4. /\ t.envelope[e].held = SumFunctionOnSet([h \in Hold |-> t.hold[h].amount], heldE(t))
        /\ t.envelope[e].actual = SumFunctionOnSet([h \in Hold |-> t.hold[h].actual], ofE(t))
    BY DEF MoneyKept, Balanced
  <2> QED BY <1>1, <2>1, <2>2, <2>3, <2>4, Zenon
<1>6. OneOpenEnvelope(u)
  BY <1>1 DEF MoneyKept, OneOpenEnvelope
<1>7. NoMore(t, u)
  BY <1>1 DEF NoMore, Typed, EnvelopeRow
<1> QED BY <1>2, <1>3, <1>4, <1>5, <1>6, <1>7 DEF MoneyKept

\* Where no envelope stands higher, no more is committed of the business cap.
LEMMA NoMoreCommits ==
    ASSUME NEW t, NEW u, Typed(t), Typed(u), NoMore(t, u)
    PROVE  Committed(u) <= Committed(t) /\ Committed(t) \in Int /\ Committed(u) \in Int
<1> DEFINE total(x) == [e \in Envelope |-> x.envelope[e].held + x.envelope[e].actual]
<1>1. \A e \in Envelope : /\ t.envelope[e].held \in Int /\ t.envelope[e].actual \in Int
                          /\ u.envelope[e].held \in Int /\ u.envelope[e].actual \in Int
  BY DEF Typed, EnvelopeRow
<1>2. \A e \in Envelope : total(u)[e] \in Int /\ total(t)[e] \in Int /\ total(u)[e] <= total(t)[e]
  BY <1>1 DEF NoMore
<1>3. Committed(t) = SumFunctionOnSet(total(t), Envelope)
      /\ Committed(u) = SumFunctionOnSet(total(u), Envelope)
  BY Zenon DEF Committed
<1> HIDE DEF total
<1>4. /\ SumFunctionOnSet(total(u), Envelope) <= SumFunctionOnSet(total(t), Envelope)
      /\ SumFunctionOnSet(total(u), Envelope) \in Int
      /\ SumFunctionOnSet(total(t), Envelope) \in Int
  BY <1>2, RowsAssumption, SumNoMore, SumType
<1> QED BY <1>3, <1>4

\* And every ceiling still holds.
LEMMA NoMoreKeepsCeilings ==
    ASSUME NEW t, NEW u, Typed(t), Typed(u), NoMore(t, u), Ceilings(t)
    PROVE  Ceilings(u)
<1>1. \A e \in Envelope : /\ t.envelope[e].held \in Int /\ t.envelope[e].actual \in Int
                          /\ u.envelope[e].held \in Int /\ u.envelope[e].actual \in Int
                          /\ t.envelope[e].maximum \in Int
  BY DEF Typed, EnvelopeRow
<1>2. \A e \in Envelope : u.envelope[e].held + u.envelope[e].actual <= u.envelope[e].maximum
  BY <1>1 DEF NoMore, Ceilings
<1>3. Committed(u) <= Committed(t) /\ Committed(t) \in Int /\ Committed(u) \in Int
  BY NoMoreCommits
<1>4. Committed(t) <= CapLimit /\ CapLimit \in Int
  BY LimitsAssumption DEF Ceilings
<1> QED BY <1>2, <1>3, <1>4 DEF Ceilings

(***************************************************************************)
(* Both.                                                                   *)
(***************************************************************************)
Kept(t, S) ==
    /\ Shaped(t)
    /\ VersionsWritten(t)
    /\ HoldsApproved(t)
    /\ StopsKept(t, S)
    /\ MoneyKept(t)

\* A helper that ends leases L and moves no money.
LEMMA EndingKeepsLedger ==
    ASSUME NEW t, NEW u, NEW S, NEW L, Kept(t, S), Ends(t, u, L, {}), MoneySteady(t, u), Typed(u),
           MarksHold(u),
           \A h \in Hold :
              /\ u.hold[h].replaced = t.hold[h].replaced
              /\ u.hold[h].end = t.hold[h].end
              /\ t.hold[h].state = "none" => u.hold[h] = t.hold[h]
    PROVE  Kept(u, S) /\ NoMore(t, u)
<1>1. /\ Shaped(u) /\ SameApprovals(t, u) /\ LeasesEnd(t, u, L) /\ HoldsClose(t, u, {})
      /\ SameVersions(t, u)
  BY DEF Ends, SameApprovals, SameVersions
<1>2. VersionsWritten(u) /\ HoldsApproved(u)
  BY <1>1 DEF Kept, SameApprovals, HoldsClose, VersionsWritten, HoldsApproved
<1>3. \A h \in Hold : u.hold[h].state = "held" /\ t.hold[h].attempt = "liability_unknown"
          => u.hold[h].attempt = "liability_unknown"
  BY <1>1 DEF HoldsClose
<1>4. StopsKept(u, S)
  BY <1>1, <1>3, RowsKeepStops DEF Kept
<1>5. MoneyKept(u) /\ NoMore(t, u)
  BY SteadyKeepsMoney DEF Kept
<1> QED BY <1>1, <1>2, <1>4, <1>5 DEF Kept

\* The most common of them leave every hold, envelope and call as it was.
LEMMA NothingMovesLedger ==
    ASSUME NEW t, NEW u, NEW S, NEW L, Kept(t, S), Ends(t, u, L, {}), Typed(u),
           u.hold = t.hold, u.envelope = t.envelope, CallsClose(t, u)
    PROVE  Kept(u, S) /\ NoMore(t, u)
<1>1. MarksHold(u)
  BY DEF Kept, StopsKept, MarksHold
<1>2. SameVersions(t, u) /\ SameReservations(t, u)
  BY DEF Ends, SameApprovals, SameVersions, SameReservations
<1> QED BY <1>1, <1>2, EndingKeepsLedger DEF MoneySteady

(***************************************************************************)
(* The helpers that stop and end work.                                     *)
(***************************************************************************)
Codes == {"retryable", "final"}

LEMMA StoppedColumns ==
    ASSUME NEW t, Shaped(t), NEW L, NEW code
    PROVE  LET u == Stopped(t, L, code) IN
           /\ u.lineage = t.lineage /\ u.version = t.version /\ u.lease = t.lease
           /\ u.envelope = t.envelope
           /\ u.hold = [h \in Hold |->
                 IF t.hold[h].lease \in L /\ t.hold[h].end = "none"
                     THEN [t.hold[h] EXCEPT !.end = code] ELSE t.hold[h]]
           /\ u.call = [c \in Call |->
                 IF t.call[c].lease \in L /\ t.call[c].state = "reserved"
                     THEN [t.call[c] EXCEPT !.state = "released"] ELSE t.call[c]]
BY DEF Shaped, Stopped

\* A recorded stop moves no money: it only lets go the calls never sent.
LEMMA StoppedSteady ==
    ASSUME NEW t, Shaped(t), Typed(t), NEW L, NEW code \in Codes
    PROVE  LET u == Stopped(t, L, code) IN
           /\ Typed(u) /\ MoneySteady(t, u)
           /\ \A h \in Hold :
                 /\ u.hold[h].replaced = t.hold[h].replaced
                 /\ u.hold[h].marked = t.hold[h].marked
                 /\ u.hold[h].attempt = t.hold[h].attempt
                 /\ u.hold[h].state = t.hold[h].state
                 /\ u.hold[h].version = t.hold[h].version
                 /\ u.hold[h].lease = t.hold[h].lease
                 /\ t.hold[h].lease \notin L => u.hold[h] = t.hold[h]
                 /\ u.hold[h].end = IF t.hold[h].lease \in L /\ t.hold[h].end = "none"
                                        THEN code ELSE t.hold[h].end
<1> DEFINE u == Stopped(t, L, code)
<1>1. /\ u.lineage = t.lineage /\ u.version = t.version /\ u.lease = t.lease
      /\ u.envelope = t.envelope
      /\ u.hold = [h \in Hold |->
            IF t.hold[h].lease \in L /\ t.hold[h].end = "none"
                THEN [t.hold[h] EXCEPT !.end = code] ELSE t.hold[h]]
      /\ u.call = [c \in Call |->
            IF t.call[c].lease \in L /\ t.call[c].state = "reserved"
                THEN [t.call[c] EXCEPT !.state = "released"] ELSE t.call[c]]
  BY StoppedColumns
<1> HIDE DEF u
<1>2. ASSUME NEW h \in Hold
      PROVE  /\ u.hold[h] \in HoldRow
             /\ u.hold[h].state = t.hold[h].state /\ u.hold[h].envelope = t.hold[h].envelope
             /\ u.hold[h].amount = t.hold[h].amount /\ u.hold[h].actual = t.hold[h].actual
             /\ u.hold[h].replaced = t.hold[h].replaced /\ u.hold[h].marked = t.hold[h].marked
             /\ u.hold[h].attempt = t.hold[h].attempt /\ u.hold[h].version = t.hold[h].version
             /\ u.hold[h].lease = t.hold[h].lease
             /\ t.hold[h].lease \notin L => u.hold[h] = t.hold[h]
             /\ u.hold[h].end = IF t.hold[h].lease \in L /\ t.hold[h].end = "none"
                                    THEN code ELSE t.hold[h].end
  <2> DEFINE r == t.hold[h]
             s == [r EXCEPT !.end = code]
  <2>1. r \in HoldRow
    BY DEF Typed
  <2>2. u.hold[h] = IF r.lease \in L /\ r.end = "none" THEN s ELSE r
    BY <1>1
  <2> HIDE DEF r
  <2>3. s \in HoldRow
    BY <2>1 DEF HoldRow, Codes
  <2>4. /\ s.state = r.state /\ s.envelope = r.envelope /\ s.amount = r.amount
        /\ s.actual = r.actual /\ s.replaced = r.replaced /\ s.marked = r.marked
        /\ s.attempt = r.attempt /\ s.version = r.version /\ s.lease = r.lease /\ s.end = code
    BY <2>1 DEF HoldRow
  <2> HIDE DEF s
  <2>5. /\ u.hold[h] \in HoldRow
        /\ u.hold[h].state = r.state /\ u.hold[h].envelope = r.envelope
        /\ u.hold[h].amount = r.amount /\ u.hold[h].actual = r.actual
        /\ u.hold[h].replaced = r.replaced /\ u.hold[h].marked = r.marked
        /\ u.hold[h].attempt = r.attempt /\ u.hold[h].version = r.version
        /\ u.hold[h].lease = r.lease
        /\ r.lease \notin L => u.hold[h] = r
        /\ u.hold[h].end = IF r.lease \in L /\ r.end = "none" THEN code ELSE r.end
    BY <2>1, <2>2, <2>3, <2>4
  <2> QED BY <2>5 DEF r
<1>3. ASSUME NEW c \in Call
      PROVE  /\ u.call[c] \in CallRow
             /\ u.call[c].hold = t.call[c].hold /\ u.call[c].maximum = t.call[c].maximum
             /\ u.call[c].actual = t.call[c].actual
             /\ u.call[c].state = t.call[c].state
                \/ (t.call[c].state = "reserved" /\ u.call[c].state = "released")
  BY <1>1 DEF Typed, CallRow
<1>4. u.hold \in [Hold -> HoldRow]
  BY <1>1, <1>2
<1>5. u.call \in [Call -> CallRow]
  BY <1>1, <1>3
<1>6. Typed(u)
  BY <1>1, <1>4, <1>5 DEF Typed
<1>7. SameReservations(t, u) /\ CallsClose(t, u) /\ SameVersions(t, u)
  BY <1>1, <1>2, <1>3 DEF SameReservations, CallsClose, SameVersions, CallOpen, CallTakes
<1> QED BY <1>1, <1>2, <1>6, <1>7 DEF MoneySteady, u

\* A stop recorded in the transaction that ends the lease: the attempt stays the
\* newest of its version if it stops for good.
LEMMA StoppingKeepsLedger ==
    ASSUME NEW t, NEW u, NEW S, NEW L, NEW code \in Codes, Kept(t, S), Nil \notin L,
           code = "final" => \A h \in Hold : t.hold[h].lease \in L => ~ t.hold[h].replaced,
           Ends(Stopped(t, L, code), u, L, {}), Typed(u),
           u.hold = Stopped(t, L, code).hold, u.envelope = t.envelope,
           u.call = Stopped(t, L, code).call
    PROVE  Kept(u, S) /\ NoMore(t, u)
<1> DEFINE w == Stopped(t, L, code)
<1>1. Shaped(t) /\ Typed(t)
  BY DEF Kept, MoneyKept
<1>2. /\ MoneySteady(t, w)
      /\ \A h \in Hold :
            /\ w.hold[h].replaced = t.hold[h].replaced /\ w.hold[h].marked = t.hold[h].marked
            /\ w.hold[h].attempt = t.hold[h].attempt /\ w.hold[h].state = t.hold[h].state
            /\ w.hold[h].version = t.hold[h].version /\ w.hold[h].lease = t.hold[h].lease
            /\ t.hold[h].lease \notin L => w.hold[h] = t.hold[h]
            /\ w.hold[h].end = IF t.hold[h].lease \in L /\ t.hold[h].end = "none"
                                   THEN code ELSE t.hold[h].end
  BY <1>1, StoppedSteady
<1>3. Ends(t, w, {}, {}) /\ Ends(w, u, L, {})
  BY <1>1, StoppedEnds
<1>4. u.hold = w.hold /\ u.call = w.call
  OBVIOUS
<1> HIDE DEF w
<1>5. Ends(t, u, L, {})
  BY <1>3, EndsTransitive, {} \cup L = L, {} \cup {} = {}
<1>6. /\ Shaped(u) /\ SameApprovals(t, u) /\ LeasesEnd(t, u, L) /\ HoldsClose(t, u, {})
      /\ SameVersions(t, u)
  BY <1>5 DEF Ends, SameApprovals, SameVersions
<1>7. VersionsWritten(u) /\ HoldsApproved(u)
  BY <1>6 DEF Kept, SameApprovals, HoldsClose, VersionsWritten, HoldsApproved
<1>8. MarksHold(u)
  BY <1>2, <1>4 DEF Kept, StopsKept, MarksHold
<1>9. LeasesBound(u)
  BY <1>6 DEF Kept, StopsKept, LeasesBound, LeasesEnd, HoldsClose
<1>10. StopsEnd(u)
  <2> SUFFICES ASSUME NEW h \in Hold, u.hold[h].end # "none"
               PROVE  t.hold[h].lease # Nil /\ u.lease[t.hold[h].lease].state # "live"
    BY <1>6 DEF StopsEnd, HoldsClose
  <2>1. CASE t.hold[h].lease \in L
    BY <1>6, <2>1 DEF Kept, StopsKept, LeasesBound, LeasesEnd
  <2>2. CASE t.hold[h].lease \notin L
    <3>1. t.hold[h].end # "none"
      BY <1>2, <1>4, <2>2
    <3> QED BY <1>6, <3>1 DEF Kept, StopsKept, StopsEnd, LeasesBound, LeasesEnd
  <2> QED BY <2>1, <2>2
<1>11. NewestAlone(u)
  <2>1. ASSUME NEW h \in Hold, u.hold[h].state = "none"
        PROVE  u.hold[h] = NoHold
    <3>1. t.hold[h] = NoHold
      BY <1>2, <1>4, <2>1 DEF Kept, StopsKept, NewestAlone
    <3>2. t.hold[h].lease = Nil
      BY <3>1 DEF NoHold
    <3> QED BY <1>2, <1>4, <3>1, <3>2
  <2>2. ASSUME NEW h \in Hold, u.hold[h].state = "held" \/ u.hold[h].end = "final"
        PROVE  ~ u.hold[h].replaced
    BY <1>2, <1>4, <2>2 DEF Kept, StopsKept, NewestAlone, Codes
  <2>3. ASSUME NEW h \in Hold, NEW i \in Hold, u.hold[h].state # "none", u.hold[i].state # "none",
               u.hold[h].version = u.hold[i].version,
               ~ u.hold[h].replaced, ~ u.hold[i].replaced
        PROVE  h = i
    BY <1>2, <1>4, <2>3 DEF Kept, StopsKept, NewestAlone
  <2> QED BY <2>1, <2>2, <2>3 DEF NewestAlone
<1>12. EndedClassified(u, S)
  <2> SUFFICES ASSUME NEW h \in Hold \ S, u.hold[h].state = "held", Over(u, u.hold[h].version)
               PROVE  u.hold[h].attempt = "liability_unknown"
    BY DEF EndedClassified
  <2>1. t.hold[h].state = "held" /\ u.hold[h].version = t.hold[h].version
        /\ t.hold[h].version \in Version /\ u.hold[h].attempt = t.hold[h].attempt
    BY <1>2, <1>4, <1>6 DEF Kept, HoldsClose, HoldsApproved
  <2>2. Over(t, t.hold[h].version)
    BY <1>6, <2>1 DEF Over, SameVersions
  <2> QED BY <2>1, <2>2 DEF Kept, StopsKept, EndedClassified
<1>13. LineagesOpened(u)
  BY <1>6 DEF Kept, StopsKept, LineagesOpened, SameVersions
<1>14. MoneySteady(t, u)
  <2>1. SameReservations(t, u) /\ CallsClose(t, u)
    BY <1>2, <1>4 DEF MoneySteady, SameReservations, CallsClose
  <2> QED BY <1>6, <2>1 DEF MoneySteady
<1>15. MoneyKept(u) /\ NoMore(t, u)
  BY <1>14, SteadyKeepsMoney DEF Kept
<1> QED BY <1>6, <1>7, <1>8, <1>9, <1>10, <1>11, <1>12, <1>13, <1>15 DEF Kept, StopsKept

\* Ending leases and revoking delegations write lease rows alone.
LEMMA EndedColumns ==
    ASSUME NEW t, Shaped(t), NEW L, NEW to \in {"released", "expired"}
    PROVE  LET u == Ended(t, L, to) IN
           /\ u.hold = t.hold /\ u.envelope = t.envelope /\ u.call = t.call
           /\ Typed(t) => Typed(u)
<1> DEFINE u == Ended(t, L, to)
<1>1. /\ u.lineage = t.lineage /\ u.version = t.version /\ u.hold = t.hold
      /\ u.envelope = t.envelope /\ u.call = t.call
      /\ u.lease = [x \in Lease |->
            IF x \in L /\ t.lease[x].state = "live"
                THEN [t.lease[x] EXCEPT !.state = to] ELSE t.lease[x]]
  BY DEF Shaped, Ended
<1> HIDE DEF u
<1>2. ASSUME Typed(t)
      PROVE  Typed(u)
  <2>1. \A x \in Lease : u.lease[x] \in LeaseRow
    BY <1>1, <1>2 DEF Typed, LeaseRow
  <2>2. u.lease \in [Lease -> LeaseRow]
    BY <1>1, <2>1
  <2> QED BY <1>1, <1>2, <2>2 DEF Typed
<1> QED BY <1>1, <1>2 DEF u

LEMMA RevokedColumns ==
    ASSUME NEW t, Shaped(t), NEW L
    PROVE  LET u == Revoked(t, L) IN
           /\ u.hold = t.hold /\ u.envelope = t.envelope /\ u.call = t.call
           /\ Typed(t) => Typed(u)
<1> DEFINE u == Revoked(t, L)
<1>1. /\ u.lineage = t.lineage /\ u.version = t.version /\ u.hold = t.hold
      /\ u.envelope = t.envelope /\ u.call = t.call
      /\ u.lease = [x \in Lease |->
            IF x \in L /\ t.lease[x].delegation = "live"
                THEN [t.lease[x] EXCEPT !.delegation = "revoked"] ELSE t.lease[x]]
  BY DEF Shaped, Revoked
<1> HIDE DEF u
<1>2. ASSUME Typed(t)
      PROVE  Typed(u)
  <2>1. \A x \in Lease : u.lease[x] \in LeaseRow
    BY <1>1, <1>2 DEF Typed, LeaseRow
  <2>2. u.lease \in [Lease -> LeaseRow]
    BY <1>1, <2>1
  <2> QED BY <1>1, <1>2, <2>2 DEF Typed
<1> QED BY <1>1, <1>2 DEF u

\* Calls left as they are close as they are.
LEMMA SameCallsClose ==
    ASSUME NEW t, NEW u, u.call = t.call
    PROVE  CallsClose(t, u)
BY DEF CallsClose

\* A worker fenced, or work retired, keeps the ledger (loseLease, retireWork).
LEMMA StopEndedKeepsLedger ==
    ASSUME NEW t, NEW S, NEW L, NEW code \in Codes, NEW to \in {"released", "expired"},
           Kept(t, S), Nil \notin L,
           code = "final" => \A h \in Hold : t.hold[h].lease \in L => ~ t.hold[h].replaced
    PROVE  LET u == Ended(Stopped(t, L, code), L, to) IN
           /\ Kept(u, S) /\ NoMore(t, u) /\ Ends(t, u, L, {})
           /\ u.hold = Stopped(t, L, code).hold
<1> DEFINE w == Stopped(t, L, code)
           u == Ended(w, L, to)
<1>1. Shaped(t) /\ Typed(t)
  BY DEF Kept, MoneyKept
<1>2. Ends(t, w, {}, {}) /\ Shaped(w)
  BY <1>1, StoppedEnds DEF Ends
<1>3. Typed(w) /\ MoneySteady(t, w)
  BY <1>1, StoppedSteady
<1>4. Ends(w, u, L, {})
  BY <1>2, EndedEnds
<1>5. Ends(t, u, L, {})
  BY <1>2, <1>4, EndsTransitive, {} \cup L = L, {} \cup {} = {}
<1>6. Typed(u) /\ u.hold = w.hold /\ u.call = w.call /\ u.envelope = w.envelope
  BY <1>2, <1>3, EndedColumns
<1>7. u.envelope = t.envelope
  BY <1>3, <1>6 DEF MoneySteady
<1>8. Kept(u, S) /\ NoMore(t, u)
  <2> HIDE DEF u
  <2> QED BY <1>4, <1>6, <1>7, StoppingKeepsLedger
<1> QED BY <1>5, <1>6, <1>8

LEMMA RevokedKeepsLedger ==
    ASSUME NEW t, NEW S, NEW L, Kept(t, S)
    PROVE  LET u == Revoked(t, L) IN
           Kept(u, S) /\ NoMore(t, u) /\ Ends(t, u, {}, {}) /\ u.hold = t.hold
<1> DEFINE u == Revoked(t, L)
<1>1. Shaped(t) /\ Typed(t)
  BY DEF Kept, MoneyKept
<1>2. Typed(u) /\ u.hold = t.hold /\ u.call = t.call /\ u.envelope = t.envelope
  BY <1>1, RevokedColumns
<1>3. Ends(t, u, {}, {})
  BY <1>1, RevokedEnds
<1> HIDE DEF u
<1>4. CallsClose(t, u)
  BY <1>2, SameCallsClose
<1>5. Kept(u, S) /\ NoMore(t, u)
  BY <1>2, <1>3, <1>4, NothingMovesLedger
<1> QED BY <1>2, <1>3, <1>5 DEF u

LEMMA LostKeepsLedger ==
    ASSUME NEW t, NEW S, NEW L, Kept(t, S), Nil \notin L
    PROVE  LET u == Lost(t, L) IN
           /\ Kept(u, S) /\ NoMore(t, u) /\ Ends(t, u, L, {})
           /\ u.hold = Stopped(t, L, "retryable").hold
<1> DEFINE u == Ended(Stopped(t, L, "retryable"), L, "expired")
<1>1. /\ Kept(u, S) /\ NoMore(t, u) /\ Ends(t, u, L, {})
      /\ u.hold = Stopped(t, L, "retryable").hold
  BY StopEndedKeepsLedger DEF Codes
<1> QED BY <1>1 DEF Lost

LEMMA RetiredKeepsLedger ==
    ASSUME NEW t, NEW S, NEW L, NEW code \in Codes, Kept(t, S), Nil \notin L,
           code = "final" => \A h \in Hold : t.hold[h].lease \in L => ~ t.hold[h].replaced
    PROVE  LET u == Retired(t, L, code) IN
           /\ Kept(u, S) /\ NoMore(t, u) /\ Ends(t, u, L, {})
           /\ u.hold = Stopped(t, L, code).hold
<1> DEFINE w == Ended(Stopped(t, L, code), L, "released")
           u == Revoked(w, L)
<1>1. /\ Kept(w, S) /\ NoMore(t, w) /\ Ends(t, w, L, {})
      /\ w.hold = Stopped(t, L, code).hold
  BY StopEndedKeepsLedger
<1>2. Kept(u, S) /\ NoMore(w, u) /\ Ends(w, u, {}, {}) /\ u.hold = w.hold
  BY <1>1, RevokedKeepsLedger
<1>3. Retired(t, L, code) = u
  BY DEF Retired
<1> HIDE DEF w, u
<1>4. NoMore(t, u)
  BY <1>1, <1>2, NoMoreTransitive DEF Kept, MoneyKept
<1>5. Ends(t, u, L, {})
  BY <1>1, <1>2, EndsTransitive, L \cup {} = L, {} \cup {} = {}
<1> QED BY <1>1, <1>2, <1>3, <1>4, <1>5

\* A run that changes state moves no money.
LEMMA RunsKeepLedger ==
    ASSUME NEW t, NEW u, NEW S, Kept(t, S), Ends(t, u, {}, {}),
           u.hold = t.hold, u.lease = t.lease, u.envelope = t.envelope, u.call = t.call,
           u.version \in [Version -> VersionRow]
    PROVE  Kept(u, S) /\ NoMore(t, u)
<1>1. Typed(u)
  BY DEF Kept, MoneyKept, Typed, Ends, SameApprovals
<1>2. CallsClose(t, u)
  BY SameCallsClose
<1> QED BY <1>1, <1>2, NothingMovesLedger

LEMMA RunsReopenedKeepsLedger ==
    ASSUME NEW t, NEW S, NEW V, Kept(t, S)
    PROVE  LET u == RunsReopened(t, V) IN
           Kept(u, S) /\ NoMore(t, u) /\ Ends(t, u, {}, {}) /\ u.hold = t.hold
<1> DEFINE u == RunsReopened(t, V)
<1>1. Shaped(t) /\ Typed(t)
  BY DEF Kept, MoneyKept
<1>2. /\ u.hold = t.hold /\ u.lease = t.lease /\ u.envelope = t.envelope /\ u.call = t.call
      /\ u.version = [v \in Version |->
            IF v \in V /\ t.version[v].run = "claimed"
                THEN [t.version[v] EXCEPT !.run = "planned"] ELSE t.version[v]]
  BY <1>1 DEF Shaped, RunsReopened
<1>3. Ends(t, u, {}, {})
  BY <1>1, RunsReopenedEnds
<1> HIDE DEF u
<1>4. \A v \in Version : u.version[v] \in VersionRow
  <2> SUFFICES ASSUME NEW v \in Version PROVE u.version[v] \in VersionRow
    OBVIOUS
  <2> DEFINE r == t.version[v]
             s == [r EXCEPT !.run = "planned"]
  <2>1. r \in VersionRow /\ u.version[v] \in {r, s}
    BY <1>1, <1>2 DEF Typed
  <2> HIDE DEF r
  <2>2. s \in VersionRow
    BY <2>1 DEF VersionRow, RunStates
  <2> HIDE DEF s
  <2> QED BY <2>1, <2>2
<1>5. u.version \in [Version -> VersionRow]
  BY <1>2, <1>4
<1>6. Kept(u, S) /\ NoMore(t, u)
  BY <1>2, <1>3, <1>5, RunsKeepLedger
<1> QED BY <1>2, <1>3, <1>6 DEF u

LEMMA AtBudgetKeepsLedger ==
    ASSUME NEW t, NEW S, NEW V, Kept(t, S)
    PROVE  LET u == AtBudget(t, V) IN
           Kept(u, S) /\ NoMore(t, u) /\ Ends(t, u, {}, {}) /\ u.hold = t.hold
<1> DEFINE u == AtBudget(t, V)
<1>1. Shaped(t) /\ Typed(t)
  BY DEF Kept, MoneyKept
<1>2. /\ u.hold = t.hold /\ u.lease = t.lease /\ u.envelope = t.envelope /\ u.call = t.call
      /\ u.version = [v \in Version |->
          IF v \notin V THEN t.version[v]
          ELSE IF t.version[v].asks < MaxBudgetAsks
              THEN [t.version[v] EXCEPT !.asks = @ + 1,
                                        !.run = IF @ = "claimed" THEN "waiting_budget" ELSE @]
              ELSE [t.version[v] EXCEPT !.run = "cancelled"]]
  BY <1>1 DEF Shaped, AtBudget
<1>3. Ends(t, u, {}, {})
  BY <1>1, AtBudgetEnds
<1> HIDE DEF u
<1>4. ASSUME NEW v \in Version
      PROVE  u.version[v] \in VersionRow
  <2>1. t.version[v] \in VersionRow
    BY <1>1 DEF Typed
  <2>2. CASE v \notin V
    BY <1>2, <2>1, <2>2
  <2>3. CASE v \in V /\ t.version[v].asks < MaxBudgetAsks
    <3>1. u.version[v] = [t.version[v] EXCEPT
              !.asks = @ + 1, !.run = IF @ = "claimed" THEN "waiting_budget" ELSE @]
      BY <1>2, <2>3
    <3> DEFINE r == t.version[v]
               asks == r.asks + 1
               run == IF r.run = "claimed" THEN "waiting_budget" ELSE r.run
    <3>2. asks \in Nat /\ run \in RunStates
      BY <2>1 DEF VersionRow, RunStates
    <3>3. u.version[v] = [r EXCEPT !.asks = asks, !.run = run]
      BY <3>1
    <3> HIDE DEF asks, run
    <3> QED BY <2>1, <3>2, <3>3 DEF VersionRow
  <2>4. CASE v \in V /\ ~ (t.version[v].asks < MaxBudgetAsks)
    <3>1. u.version[v] = [t.version[v] EXCEPT !.run = "cancelled"]
      BY <1>2, <2>4
    <3> QED BY <2>1, <3>1 DEF VersionRow, RunStates
  <2> QED BY <2>2, <2>3, <2>4
<1>5. u.version \in [Version -> VersionRow]
  BY <1>2, <1>4
<1>6. Kept(u, S) /\ NoMore(t, u)
  BY <1>2, <1>3, <1>5, RunsKeepLedger
<1> QED BY <1>2, <1>3, <1>6 DEF u

\* The reservations as they were, none stopped for good since.
HoldsStay(t, u) ==
    \A h \in Hold :
        /\ u.hold[h].state = t.hold[h].state
        /\ u.hold[h].version = t.hold[h].version
        /\ u.hold[h].envelope = t.hold[h].envelope
        /\ u.hold[h].amount = t.hold[h].amount
        /\ u.hold[h].actual = t.hold[h].actual
        /\ u.hold[h].lease = t.hold[h].lease
        /\ u.hold[h].replaced = t.hold[h].replaced
        /\ u.hold[h].end = "final" => t.hold[h].end = "final"

LEMMA StoppedStay ==
    ASSUME NEW t, Shaped(t), NEW L
    PROVE  HoldsStay(t, Stopped(t, L, "retryable"))
<1> DEFINE u == Stopped(t, L, "retryable")
<1>1. u.hold = [h \in Hold |->
          IF t.hold[h].lease \in L /\ t.hold[h].end = "none"
              THEN [t.hold[h] EXCEPT !.end = "retryable"] ELSE t.hold[h]]
  BY DEF Shaped, Stopped
<1>2. \A h \in Hold : DOMAIN t.hold[h] = DOMAIN NoHold
  BY DEF Shaped
<1> HIDE DEF u
<1>3. HoldsStay(t, u)
  BY <1>1, <1>2 DEF HoldsStay, NoHold
<1> QED BY <1>3 DEF u

\* A run stopped at its budget ends its leases and keeps its money where it is.
LEMMA StoppedSpentKeepsLedger ==
    ASSUME NEW t, NEW S, NEW H, NEW L, Kept(t, S)
    PROVE  LET u == StoppedSpent(t, H, L) IN
           Kept(u, S) /\ NoMore(t, u) /\ Ends(t, u, LeasesOf(t, H), {}) /\ HoldsStay(t, u)
<1> DEFINE a == [t EXCEPT !.version = [v \in Version |->
                    IF v \in VersionsOf(t, H) /\ t.version[v].run = "planned"
                        THEN [t.version[v] EXCEPT !.run = "claimed"] ELSE t.version[v]]]
           ended == LeasesOf(t, H)
           b == Ended(Stopped(a, ended, "retryable"), ended, "released")
           c == Revoked(b, L)
           d == AtBudget(c, VersionsOf(t, H))
<1>1. Shaped(t) /\ Typed(t)
  BY DEF Kept, MoneyKept
<1>2. /\ a.lineage = t.lineage /\ a.hold = t.hold /\ a.lease = t.lease
      /\ a.envelope = t.envelope /\ a.call = t.call
      /\ a.version = [v \in Version |->
            IF v \in VersionsOf(t, H) /\ t.version[v].run = "planned"
                THEN [t.version[v] EXCEPT !.run = "claimed"] ELSE t.version[v]]
      /\ DOMAIN a = DOMAIN t
  BY <1>1 DEF Shaped
<1>3. StoppedSpent(t, H, L) = d
  BY DEF StoppedSpent
<1>4. Nil \notin ended
  BY DEF LeasesOf
<1> HIDE DEF a, ended
<1>5. Kept(a, S) /\ NoMore(t, a) /\ Ends(t, a, {}, {})
  <2>1. \A v \in Version : a.version[v] \in VersionRow
    <3> SUFFICES ASSUME NEW v \in Version PROVE a.version[v] \in VersionRow
      OBVIOUS
    <3> DEFINE r == t.version[v]
               s == [r EXCEPT !.run = "claimed"]
    <3>1. r \in VersionRow /\ a.version[v] \in {r, s}
      BY <1>1, <1>2 DEF Typed
    <3> HIDE DEF r
    <3>2. s \in VersionRow
      BY <3>1 DEF VersionRow, RunStates
    <3> HIDE DEF s
    <3> QED BY <3>1, <3>2
  <2>2. a.version \in [Version -> VersionRow]
    BY <1>2, <2>1
  <2>3. Shaped(a)
    BY <1>1, <1>2 DEF Shaped, NoVersion
  <2>4. SameApprovals(t, a)
    BY <1>1, <1>2 DEF Shaped, SameApprovals, NoVersion
  <2>5. HoldsClose(t, a, {}) /\ CallsStay(t, a) /\ LeasesEnd(t, a, {})
    BY <1>2 DEF LeasesEnd, HoldsClose, CallsStay
  <2>6. Ends(t, a, {}, {})
    BY <2>3, <2>4, <2>5 DEF Ends
  <2> QED BY <1>2, <2>2, <2>6, RunsKeepLedger
<1>6. /\ Kept(b, S) /\ NoMore(a, b) /\ Ends(a, b, ended, {})
      /\ b.hold = Stopped(a, ended, "retryable").hold
  BY <1>4, <1>5, StopEndedKeepsLedger DEF Codes
<1>7. HoldsStay(a, Stopped(a, ended, "retryable"))
  BY <1>5, StoppedStay DEF Kept
<1>8. HoldsStay(t, b)
  BY <1>2, <1>6, <1>7 DEF HoldsStay
<1> HIDE DEF b
<1>9. Kept(c, S) /\ NoMore(b, c) /\ Ends(b, c, {}, {}) /\ c.hold = b.hold
  BY <1>6, RevokedKeepsLedger
<1> HIDE DEF c
<1>10. Kept(d, S) /\ NoMore(c, d) /\ Ends(c, d, {}, {}) /\ d.hold = c.hold
  BY <1>9, AtBudgetKeepsLedger
<1> HIDE DEF d
<1>11. HoldsStay(t, d)
  BY <1>8, <1>9, <1>10 DEF HoldsStay
<1>12. Typed(a) /\ Typed(b) /\ Typed(c) /\ Typed(d)
  BY <1>5, <1>6, <1>9, <1>10 DEF Kept, MoneyKept
<1>13. NoMore(t, d)
  <2>1. NoMore(t, b)
    BY <1>1, <1>5, <1>6, <1>12, NoMoreTransitive
  <2>2. NoMore(t, c)
    BY <1>1, <1>9, <1>12, <2>1, NoMoreTransitive
  <2> QED BY <1>1, <1>10, <1>12, <2>2, NoMoreTransitive
<1>14. Ends(t, d, ended, {})
  <2>1. Ends(t, b, ended, {})
    BY <1>5, <1>6, EndsTransitive, {} \cup ended = ended, {} \cup {} = {}
  <2>2. Ends(t, c, ended, {})
    BY <1>9, <2>1, EndsTransitive, ended \cup {} = ended, {} \cup {} = {}
  <2> QED BY <1>10, <2>2, EndsTransitive, ended \cup {} = ended, {} \cup {} = {}
<1> QED BY <1>3, <1>10, <1>11, <1>13, <1>14 DEF ended

\* The sweep of model calls closes calls or holds them unknown.
LEMMA CallsSweptKeepsLedger ==
    ASSUME NEW t, NEW S, Kept(t, S)
    PROVE  LET u == CallsSwept(t) IN Kept(u, S) /\ NoMore(t, u)
<1> DEFINE u == CallsSwept(t)
<1>1. Shaped(t) /\ Typed(t)
  BY DEF Kept, MoneyKept
<1>2. /\ u.lineage = t.lineage /\ u.version = t.version /\ u.hold = t.hold
      /\ u.lease = t.lease /\ u.envelope = t.envelope
      /\ u.call = [c \in Call |->
            IF t.call[c].state = "dispatched" /\ ~ Standing(t, t.call[c].lease)
                THEN [t.call[c] EXCEPT !.state = "liability_unknown"]
            ELSE IF t.call[c].state = "reserved" /\ ~ Standing(t, t.call[c].lease)
                THEN [t.call[c] EXCEPT !.state = "released"]
            ELSE t.call[c]]
  BY <1>1 DEF Shaped, CallsSwept
<1>3. Ends(t, u, {}, {})
  BY <1>1, CallsSweptEnds
<1> HIDE DEF u
<1>4. ASSUME NEW c \in Call
      PROVE  /\ u.call[c] \in CallRow
             /\ u.call[c].hold = t.call[c].hold /\ u.call[c].maximum = t.call[c].maximum
             /\ u.call[c].actual = t.call[c].actual
             /\ \/ u.call[c].state = t.call[c].state
                \/ t.call[c].state = "dispatched" /\ u.call[c].state = "liability_unknown"
                \/ t.call[c].state = "reserved" /\ u.call[c].state = "released"
  BY <1>1, <1>2 DEF Typed, CallRow
<1>5. u.call \in [Call -> CallRow]
  BY <1>2, <1>4
<1>6. Typed(u) /\ CallsClose(t, u)
  BY <1>1, <1>2, <1>4, <1>5 DEF Typed, CallsClose, CallOpen, CallTakes
<1>7. Kept(u, S) /\ NoMore(t, u)
  BY <1>2, <1>3, <1>6, NothingMovesLedger
<1> QED BY <1>7 DEF u

\* Marking dispatched attempts, with calls turned unknown, moves no money.
LEMMA MarkingKeepsLedger ==
    ASSUME NEW t, NEW u, NEW S, NEW L, Kept(t, S), Ends(t, u, L, {}),
           u.lease \in [Lease -> LeaseRow], u.version \in [Version -> VersionRow],
           u.envelope = t.envelope, u.call \in [Call -> CallRow], CallsClose(t, u),
           u.hold = [h \in Hold |-> u.hold[h]],
           \A h \in Hold :
              \/ u.hold[h] = t.hold[h]
              \/ /\ t.hold[h].attempt = "dispatched"
                 /\ u.hold[h] = [t.hold[h] EXCEPT !.marked = TRUE]
    PROVE  Kept(u, S) /\ NoMore(t, u) /\ HoldsStay(t, u)
<1>1. Typed(t)
  BY DEF Kept, MoneyKept
<1>2. ASSUME NEW h \in Hold
      PROVE  /\ u.hold[h] \in HoldRow
             /\ u.hold[h].state = t.hold[h].state /\ u.hold[h].envelope = t.hold[h].envelope
             /\ u.hold[h].amount = t.hold[h].amount /\ u.hold[h].actual = t.hold[h].actual
             /\ u.hold[h].replaced = t.hold[h].replaced /\ u.hold[h].end = t.hold[h].end
             /\ u.hold[h].attempt = t.hold[h].attempt /\ u.hold[h].version = t.hold[h].version
             /\ u.hold[h].lease = t.hold[h].lease
             /\ u.hold[h].marked => t.hold[h].marked \/ t.hold[h].attempt = "dispatched"
             /\ t.hold[h].attempt # "dispatched" => u.hold[h] = t.hold[h]
  <2>1. t.hold[h] \in HoldRow
    BY <1>1 DEF Typed
  <2>2. CASE u.hold[h] = t.hold[h]
    BY <2>1, <2>2
  <2>3. CASE /\ t.hold[h].attempt = "dispatched"
             /\ u.hold[h] = [t.hold[h] EXCEPT !.marked = TRUE]
    BY <2>1, <2>3 DEF HoldRow
  <2> QED BY <2>2, <2>3
<1>3. u.hold \in [Hold -> HoldRow]
  BY <1>2
<1>4. Typed(u)
  BY <1>1, <1>3 DEF Typed, Ends, SameApprovals
<1>5. MarksHold(u)
  BY <1>2 DEF Kept, StopsKept, MarksHold
<1>6. \A h \in Hold : t.hold[h].state = "none" => u.hold[h] = t.hold[h]
  BY <1>2 DEF Kept, StopsKept, MarksHold
<1>7. MoneySteady(t, u)
  BY <1>2 DEF MoneySteady, SameReservations, SameVersions, Ends, SameApprovals
<1>8. Kept(u, S) /\ NoMore(t, u)
  BY <1>2, <1>4, <1>5, <1>6, <1>7, EndingKeepsLedger
<1> QED BY <1>2, <1>8 DEF HoldsStay

\* The calls of a lost worker mark its step, at most (holdLostCalls).
LEMMA CallsLostKeepsLedger ==
    ASSUME NEW t, NEW S, NEW H, Kept(t, S)
    PROVE  LET u == CallsLost(t, H) IN
           Kept(u, S) /\ NoMore(t, u) /\ Ends(t, u, {}, {}) /\ HoldsStay(t, u)
<1> DEFINE u == CallsLost(t, H)
<1>1. Shaped(t) /\ Typed(t)
  BY DEF Kept, MoneyKept
<1>2. /\ u.version = t.version /\ u.lease = t.lease /\ u.envelope = t.envelope
      /\ u.call = [c \in Call |->
            IF t.call[c].hold \notin H THEN t.call[c]
            ELSE IF t.call[c].state = "dispatched"
                THEN [t.call[c] EXCEPT !.state = "liability_unknown"]
            ELSE IF t.call[c].state = "reserved"
                THEN [t.call[c] EXCEPT !.state = "released"]
            ELSE t.call[c]]
      /\ u.hold = [h \in Hold |->
            IF /\ h \in H /\ t.hold[h].attempt = "dispatched"
               /\ \E c \in CallsOn(t, h) : t.call[c].state = "dispatched"
                THEN [t.hold[h] EXCEPT !.marked = TRUE] ELSE t.hold[h]]
  BY <1>1 DEF Shaped, CallsLost
<1>3. Ends(t, u, {}, {})
  BY <1>1, CallsLostEnds
<1> HIDE DEF u
<1>4. ASSUME NEW c \in Call
      PROVE  /\ u.call[c] \in CallRow
             /\ u.call[c].hold = t.call[c].hold /\ u.call[c].maximum = t.call[c].maximum
             /\ u.call[c].actual = t.call[c].actual
             /\ \/ u.call[c].state = t.call[c].state
                \/ t.call[c].state = "dispatched" /\ u.call[c].state = "liability_unknown"
                \/ t.call[c].state = "reserved" /\ u.call[c].state = "released"
  BY <1>1, <1>2 DEF Typed, CallRow
<1>5. u.call \in [Call -> CallRow]
  BY <1>2, <1>4
<1>6. CallsClose(t, u)
  BY <1>4 DEF CallsClose, CallOpen, CallTakes
<1>7. u.hold = [h \in Hold |-> u.hold[h]]
  BY <1>2
<1>8. \A h \in Hold : \/ u.hold[h] = t.hold[h]
                      \/ /\ t.hold[h].attempt = "dispatched"
                         /\ u.hold[h] = [t.hold[h] EXCEPT !.marked = TRUE]
  BY <1>2
<1>9. u.lease \in [Lease -> LeaseRow] /\ u.version \in [Version -> VersionRow]
  BY <1>1, <1>2 DEF Typed
<1>10. u.envelope = t.envelope
  BY <1>2
<1>11. Kept(u, S) /\ NoMore(t, u) /\ HoldsStay(t, u)
  BY <1>3, <1>5, <1>6, <1>7, <1>8, <1>9, <1>10, MarkingKeepsLedger
<1> QED BY <1>3, <1>11 DEF u

(***************************************************************************)
(* The classifier.                                                         *)
(***************************************************************************)
GivenBack(t) == [h \in Hold |-> t.hold[h].amount - Spent(t, h)]

LEMMA ClassifiedColumns ==
    ASSUME NEW t, Shaped(t), NEW H
    PROVE  LET u == Classified(t, H) IN
           /\ u.lineage = t.lineage /\ u.version = t.version
           /\ u.lease = t.lease /\ u.call = t.call
BY DEF Shaped, Classified

LEMMA ClassifiedRows ==
    ASSUME NEW t, NEW S, Kept(t, S), NEW H
    PROVE  LET u == Classified(t, H) IN
           /\ u.hold \in [Hold -> HoldRow]
           /\ \A h \in Hold :
                 /\ u.hold[h].version = t.hold[h].version
                 /\ u.hold[h].envelope = t.hold[h].envelope
                 /\ u.hold[h].amount = t.hold[h].amount
                 /\ u.hold[h].lease = t.hold[h].lease
                 /\ u.hold[h].replaced = t.hold[h].replaced
                 /\ u.hold[h].marked = t.hold[h].marked
                 /\ u.hold[h].end = t.hold[h].end
                 /\ h \in H /\ Releases(t, h) =>
                       /\ t.hold[h].state = "held"
                       /\ u.hold[h].state \in {"abandoned", "actual"}
                       /\ u.hold[h].actual = Spent(t, h)
                       /\ u.hold[h].attempt \in {"abandoned", "handed_back"}
                 /\ ~ (h \in H /\ Releases(t, h)) =>
                       u.hold[h].state = t.hold[h].state /\ u.hold[h].actual = t.hold[h].actual
                 /\ h \in H /\ t.hold[h].state = "held" /\ ~ Releases(t, h) =>
                       u.hold[h].attempt = "liability_unknown"
                 /\ h \notin H \/ t.hold[h].state # "held" => u.hold[h] = t.hold[h]
<1> DEFINE u == Classified(t, H)
           row(h) == IF h \notin H \/ t.hold[h].state # "held" THEN t.hold[h]
                     ELSE IF Releases(t, h) THEN ClosedHold(t, h) ELSE UnknownHold(t, h)
<1>1. Shaped(t) /\ Typed(t) /\ MarksHold(t)
  BY DEF Kept, MoneyKept, StopsKept
<1>2. /\ u.lineage = t.lineage /\ u.version = t.version /\ u.lease = t.lease /\ u.call = t.call
      /\ u.hold = [h \in Hold |-> row(h)]
      /\ u.envelope = [e \in Envelope |->
            [t.envelope[e] EXCEPT
                !.held = @ - SumFunctionOnSet([h \in Hold |-> t.hold[h].amount], ClosedOf(t, H, e)),
                !.actual = @ + SumFunctionOnSet([h \in Hold |-> Spent(t, h)], ClosedOf(t, H, e))]]
  BY <1>1 DEF Shaped, Classified
<1> HIDE DEF u
<1>3. ASSUME NEW h \in Hold
      PROVE  /\ u.hold[h] \in HoldRow
             /\ u.hold[h].version = t.hold[h].version /\ u.hold[h].envelope = t.hold[h].envelope
             /\ u.hold[h].amount = t.hold[h].amount /\ u.hold[h].lease = t.hold[h].lease
             /\ u.hold[h].replaced = t.hold[h].replaced /\ u.hold[h].marked = t.hold[h].marked
             /\ u.hold[h].end = t.hold[h].end
             /\ h \in H /\ Releases(t, h) =>
                   /\ t.hold[h].state = "held"
                   /\ u.hold[h].state \in {"abandoned", "actual"}
                   /\ u.hold[h].actual = Spent(t, h)
                   /\ u.hold[h].attempt \in {"abandoned", "handed_back"}
             /\ ~ (h \in H /\ Releases(t, h)) =>
                   u.hold[h].state = t.hold[h].state /\ u.hold[h].actual = t.hold[h].actual
             /\ h \in H /\ t.hold[h].state = "held" /\ ~ Releases(t, h) =>
                   u.hold[h].attempt = "liability_unknown"
             /\ h \notin H \/ t.hold[h].state # "held" => u.hold[h] = t.hold[h]
  <2> DEFINE r == u.hold[h]
  <2>0. r = row(h)
    BY <1>2
  <2> HIDE DEF r
  <2>1. t.hold[h] \in HoldRow
    BY <1>1 DEF Typed
  <2>2. CASE h \notin H \/ t.hold[h].state # "held"
    BY <2>0, <2>1, <2>2 DEF Releases, r
  <2>3. CASE h \in H /\ t.hold[h].state = "held" /\ Releases(t, h)
    <3> DEFINE spent == Spent(t, h)
               st == IF spent > 0 THEN "actual" ELSE "abandoned"
               at == IF spent > 0 /\ t.hold[h].attempt = "handed_back"
                         THEN t.hold[h].attempt ELSE "abandoned"
    <3>1. r = ClosedHold(t, h)
      BY <2>0, <2>3
    <3>2. r = [t.hold[h] EXCEPT !.state = st, !.actual = spent, !.attempt = at]
      BY <2>1, <3>1 DEF ClosedHold
    <3>3. spent \in Nat /\ spent = Spent(t, h)
      BY <1>1, CallSums
    <3>4. st \in {"abandoned", "actual"} /\ at \in {"abandoned", "handed_back"}
      OBVIOUS
    <3> HIDE DEF spent, st, at
    <3>5. /\ r.state = st /\ r.actual = spent /\ r.attempt = at
          /\ r.version = t.hold[h].version /\ r.envelope = t.hold[h].envelope
          /\ r.amount = t.hold[h].amount /\ r.lease = t.hold[h].lease
          /\ r.replaced = t.hold[h].replaced /\ r.marked = t.hold[h].marked
          /\ r.end = t.hold[h].end
      BY <2>1, <3>2 DEF HoldRow
    <3>6. st \in {"none", "held", "abandoned", "actual"} /\ spent \in Int /\ at \in AttemptStates
      BY <3>3, <3>4 DEF AttemptStates
    <3>7. r \in HoldRow
      BY <2>1, <3>2, <3>6 DEF HoldRow
    <3> QED BY <2>3, <3>3, <3>4, <3>5, <3>7 DEF r
  <2>4. CASE h \in H /\ t.hold[h].state = "held" /\ ~ Releases(t, h)
    <3>1. r = UnknownHold(t, h)
      BY <2>0, <2>4
    <3>2. t.hold[h].marked /\ t.hold[h].attempt # "dispatched"
              => t.hold[h].attempt = "liability_unknown"
      BY <1>1 DEF MarksHold
    <3>3. r = [t.hold[h] EXCEPT !.attempt = "liability_unknown"]
      BY <3>1, <3>2 DEF UnknownHold
    <3> QED BY <2>1, <2>4, <3>3 DEF HoldRow, AttemptStates, r
  <2> QED BY <2>2, <2>3, <2>4
<1>4. u.hold \in [Hold -> HoldRow]
  BY <1>2, <1>3
<1> QED BY <1>2, <1>3, <1>4 DEF u

\* A reservation gives back to its envelope what its calls have not cost, which is
\* never less than nothing.
LEMMA GivenBackType ==
    ASSUME NEW t, NEW S, Kept(t, S), NEW h \in Hold
    PROVE  /\ GivenBack(t)[h] \in Int
           /\ t.hold[h].state = "held" => GivenBack(t)[h] \in Nat
<1>1. t.hold[h].amount \in Int /\ Spent(t, h) \in Nat /\ CallsTaken(t, h) \in Nat
      /\ Spent(t, h) <= CallsTaken(t, h)
  BY CallSums DEF Kept, MoneyKept, Typed, HoldRow
<1>2. t.hold[h].state = "held" => CallsTaken(t, h) <= t.hold[h].amount
  BY DEF Kept, MoneyKept, HoldsPay
<1>3. GivenBack(t)[h] = t.hold[h].amount - Spent(t, h)
  BY DEF GivenBack
<1> QED BY <1>1, <1>2, <1>3

\* Closing holds moves their cost from what the envelope holds to what it has paid,
\* and gives the rest back.
LEMMA ClassifiedMoves ==
    ASSUME NEW t, NEW S, Kept(t, S), NEW H \in SUBSET Hold, NEW e \in Envelope
    PROVE  LET u == Classified(t, H)
               C == ClosedOf(t, H, e)
           IN
           /\ u.envelope[e].state = t.envelope[e].state
           /\ u.envelope[e].task = t.envelope[e].task
           /\ u.envelope[e].maximum = t.envelope[e].maximum
           /\ u.envelope[e].held = t.envelope[e].held
                                   - SumFunctionOnSet([h \in Hold |-> t.hold[h].amount], C)
           /\ u.envelope[e].actual = t.envelope[e].actual
                                     + SumFunctionOnSet([h \in Hold |-> Spent(t, h)], C)
           /\ SumFunctionOnSet([h \in Hold |-> t.hold[h].amount], C) \in Int
           /\ SumFunctionOnSet([h \in Hold |-> Spent(t, h)], C) \in Int
           /\ SumFunctionOnSet(GivenBack(t), C) \in Nat
           /\ SumFunctionOnSet([h \in Hold |-> t.hold[h].amount], C) =
                 SumFunctionOnSet([h \in Hold |-> Spent(t, h)], C)
                 + SumFunctionOnSet(GivenBack(t), C)
           /\ u.envelope[e] \in EnvelopeRow
<1> DEFINE u == Classified(t, H)
           C == ClosedOf(t, H, e)
           amounts == [h \in Hold |-> t.hold[h].amount]
           costs == [h \in Hold |-> Spent(t, h)]
           A == SumFunctionOnSet(amounts, C)
           B == SumFunctionOnSet(costs, C)
           G == SumFunctionOnSet(GivenBack(t), C)
<1>1. Typed(t)
  BY DEF Kept, MoneyKept
<1>2. u.envelope[e] = [t.envelope[e] EXCEPT !.held = @ - A, !.actual = @ + B]
  <2>1. u.envelope = [d \in Envelope |->
            [t.envelope[d] EXCEPT
                !.held = @ - SumFunctionOnSet(amounts, ClosedOf(t, H, d)),
                !.actual = @ + SumFunctionOnSet(costs, ClosedOf(t, H, d))]]
    BY DEF Kept, Shaped, Classified
  <2> HIDE DEF u, amounts, costs
  <2> QED BY <2>1
<1>3. /\ IsFiniteSet(C) /\ C \subseteq Hold
      /\ \A h \in C : t.hold[h].state = "held"
  BY RowsAssumption, FS_Subset DEF ClosedOf, Releases
<1>4. ASSUME NEW h \in C
      PROVE  /\ amounts[h] \in Int /\ costs[h] \in Int /\ GivenBack(t)[h] \in Nat
             /\ amounts[h] = costs[h] + GivenBack(t)[h]
  <2>1. h \in Hold /\ t.hold[h].amount \in Int /\ Spent(t, h) \in Nat
    BY <1>1, <1>3, CallSums DEF Typed, HoldRow
  <2>2. GivenBack(t)[h] = t.hold[h].amount - Spent(t, h) /\ GivenBack(t)[h] \in Nat
    BY <1>3, <2>1, GivenBackType DEF GivenBack
  <2> QED BY <2>1, <2>2
<1> HIDE DEF amounts, costs, C
<1>5. A \in Int /\ B \in Int
  BY <1>3, <1>4, SumType
<1>6. G \in Nat
  BY <1>3, <1>4, SumOfNaturals
<1>7. A = B + G
  BY <1>3, <1>4, SumOfSums
<1> HIDE DEF A, B, G, u
<1>8. t.envelope[e] \in EnvelopeRow
  BY <1>1 DEF Typed
<1> DEFINE x == t.envelope[e].held - A
           y == t.envelope[e].actual + B
<1>9. x \in Int /\ y \in Int /\ u.envelope[e] = [t.envelope[e] EXCEPT !.held = x, !.actual = y]
  BY <1>2, <1>5, <1>8 DEF EnvelopeRow
<1> HIDE DEF x, y
<1>10. /\ u.envelope[e].state = t.envelope[e].state /\ u.envelope[e].task = t.envelope[e].task
      /\ u.envelope[e].maximum = t.envelope[e].maximum
      /\ u.envelope[e].held = x /\ u.envelope[e].actual = y
      /\ u.envelope[e] \in EnvelopeRow
  BY <1>8, <1>9 DEF EnvelopeRow
<1> QED BY <1>5, <1>6, <1>7, <1>10 DEF x, y, A, B, G, C, amounts, costs, u

\* So what an envelope stands at falls by what is given back.
LEMMA ClassifiedGivesBack ==
    ASSUME NEW t, NEW S, Kept(t, S), NEW H \in SUBSET Hold, NEW e \in Envelope
    PROVE  LET u == Classified(t, H) IN
           /\ SumFunctionOnSet(GivenBack(t), ClosedOf(t, H, e)) \in Nat
           /\ u.envelope[e].held + u.envelope[e].actual =
                 t.envelope[e].held + t.envelope[e].actual
                 - SumFunctionOnSet(GivenBack(t), ClosedOf(t, H, e))
<1>1. t.envelope[e].held \in Int /\ t.envelope[e].actual \in Int
  BY DEF Kept, MoneyKept, Typed, EnvelopeRow
<1> DEFINE A == SumFunctionOnSet([h \in Hold |-> t.hold[h].amount], ClosedOf(t, H, e))
           B == SumFunctionOnSet([h \in Hold |-> Spent(t, h)], ClosedOf(t, H, e))
           G == SumFunctionOnSet(GivenBack(t), ClosedOf(t, H, e))
           u == Classified(t, H)
<1>2. /\ u.envelope[e].held = t.envelope[e].held - A
      /\ u.envelope[e].actual = t.envelope[e].actual + B
      /\ A \in Int /\ B \in Int /\ G \in Nat /\ A = B + G
  BY ClassifiedMoves
<1> HIDE DEF A, B, G, u
<1>3. G \in Nat /\ u.envelope[e].held + u.envelope[e].actual =
          t.envelope[e].held + t.envelope[e].actual - G
  BY <1>1, <1>2
<1> QED BY <1>3 DEF G, u

\* The envelope's totals stay the sums of its reservations when some are closed.
LEMMA ClassifiedBalanced ==
    ASSUME NEW t, NEW S, Kept(t, S), NEW H \in SUBSET Hold
    PROVE  Balanced(Classified(t, H))
<1> DEFINE u == Classified(t, H)
           amounts(x) == [h \in Hold |-> x.hold[h].amount]
           actuals(x) == [h \in Hold |-> x.hold[h].actual]
           costs == [h \in Hold |-> Spent(t, h)]
           ofE(x, e) == {h \in Hold : x.hold[h].envelope = e}
           heldE(x, e) == {h \in ofE(x, e) : x.hold[h].state = "held"}
<1> SUFFICES ASSUME NEW e \in Envelope
             PROVE  /\ u.envelope[e].held = SumFunctionOnSet(amounts(u), heldE(u, e))
                    /\ u.envelope[e].actual = SumFunctionOnSet(actuals(u), ofE(u, e))
  BY Zenon DEF Balanced
<1> DEFINE C == ClosedOf(t, H, e)
<1>1. Typed(t)
  BY DEF Kept, MoneyKept
<1>2. ASSUME NEW h \in Hold
      PROVE  /\ u.hold[h].envelope = t.hold[h].envelope /\ u.hold[h].amount = t.hold[h].amount
             /\ h \in C => t.hold[h].state = "held" /\ u.hold[h].state # "held"
                           /\ u.hold[h].actual = Spent(t, h)
             /\ h \notin C /\ t.hold[h].envelope = e =>
                   u.hold[h].state = t.hold[h].state /\ u.hold[h].actual = t.hold[h].actual
  BY ClassifiedRows DEF ClosedOf
<1>3. amounts(u) = amounts(t)
  BY <1>2
<1>4. ofE(u, e) = ofE(t, e)
  BY <1>2
<1>5. C \subseteq Hold /\ C \subseteq ofE(t, e) /\ \A h \in C : t.hold[h].state = "held"
  BY <1>2 DEF ClosedOf
<1>6. heldE(u, e) = heldE(t, e) \ C
  BY <1>2, <1>4
<1>7. C \subseteq heldE(t, e)
  BY <1>5
<1>8. IsFiniteSet(ofE(t, e)) /\ IsFiniteSet(heldE(t, e)) /\ IsFiniteSet(C)
      /\ IsFiniteSet(heldE(t, e) \ C) /\ IsFiniteSet(ofE(t, e) \ C)
  BY <1>5, RowsAssumption, FS_Subset
<1>9. /\ t.envelope[e].held = SumFunctionOnSet(amounts(t), heldE(t, e))
      /\ t.envelope[e].actual = SumFunctionOnSet(actuals(t), ofE(t, e))
  BY Zenon DEF Kept, MoneyKept, Balanced
<1>10. /\ u.envelope[e].held = t.envelope[e].held - SumFunctionOnSet(amounts(t), C)
       /\ u.envelope[e].actual = t.envelope[e].actual + SumFunctionOnSet(costs, C)
       /\ SumFunctionOnSet(amounts(t), C) \in Int /\ SumFunctionOnSet(costs, C) \in Int
  BY ClassifiedMoves
<1>11. ASSUME NEW h \in Hold
       PROVE  /\ amounts(t)[h] \in Int /\ actuals(t)[h] \in Int /\ actuals(u)[h] \in Int
              /\ h \in C => actuals(t)[h] = 0 /\ actuals(u)[h] = costs[h]
              /\ h \in ofE(t, e) \ C => actuals(u)[h] = actuals(t)[h]
  <2>1. t.hold[h].amount \in Int /\ t.hold[h].actual \in Int /\ Spent(t, h) \in Nat
    BY <1>1, CallSums DEF Typed, HoldRow
  <2>2. t.hold[h].state = "held" => t.hold[h].actual = 0
    BY DEF Kept, MoneyKept, HoldsPay
  <2>3. u.hold[h].actual \in Int
    BY ClassifiedRows DEF HoldRow
  <2> QED BY <1>2, <1>5, <2>1, <2>2, <2>3
<1> HIDE DEF amounts, actuals, costs, u, C
<1>12. u.envelope[e].held = SumFunctionOnSet(amounts(u), heldE(u, e))
  <2>1. SumFunctionOnSet(amounts(t), heldE(t, e)) =
            SumFunctionOnSet(amounts(t), C) + SumFunctionOnSet(amounts(t), heldE(t, e) \ C)
    BY <1>7, <1>8, <1>11, SumOfParts
  <2>2. SumFunctionOnSet(amounts(t), heldE(t, e) \ C) \in Int
    BY <1>8, <1>11, SumType
  <2>3. u.envelope[e].held = SumFunctionOnSet(amounts(t), heldE(t, e) \ C)
    BY <1>9, <1>10, <2>1, <2>2
  <2> QED BY <1>3, <1>6, <2>3, Zenon
<1>13. u.envelope[e].actual = SumFunctionOnSet(actuals(u), ofE(u, e))
  <2> HIDE DEF ofE
  <2>1. SumFunctionOnSet(actuals(t), ofE(t, e)) =
            SumFunctionOnSet(actuals(t), C) + SumFunctionOnSet(actuals(t), ofE(t, e) \ C)
    <3>1. \A h \in ofE(t, e) : actuals(t)[h] \in Int
      BY <1>11 DEF ofE
    <3> QED BY <1>5, <1>8, <3>1, SumOfParts
  <2>2. SumFunctionOnSet(actuals(u), ofE(t, e)) =
            SumFunctionOnSet(actuals(u), C) + SumFunctionOnSet(actuals(u), ofE(t, e) \ C)
    <3>1. \A h \in ofE(t, e) : actuals(u)[h] \in Int
      BY <1>11 DEF ofE
    <3> QED BY <1>5, <1>8, <3>1, SumOfParts
  <2>3. SumFunctionOnSet(actuals(t), C) = 0
    BY <1>5, <1>8, <1>11, SumOfZeroes
  <2>4. SumFunctionOnSet(actuals(u), C) = SumFunctionOnSet(costs, C)
    BY <1>5, <1>8, <1>11, SumSame
  <2>5. SumFunctionOnSet(actuals(u), ofE(t, e) \ C) = SumFunctionOnSet(actuals(t), ofE(t, e) \ C)
    <3>1. \A h \in ofE(t, e) \ C : actuals(u)[h] = actuals(t)[h]
      BY <1>11 DEF ofE
    <3> QED BY <1>8, <3>1, SumSame
  <2>6. SumFunctionOnSet(actuals(t), ofE(t, e) \ C) \in Int
    <3>1. \A h \in ofE(t, e) \ C : actuals(t)[h] \in Int
      BY <1>11 DEF ofE
    <3> QED BY <1>8, <3>1, SumType
  <2>7. u.envelope[e].actual = SumFunctionOnSet(actuals(u), ofE(t, e))
    BY <1>9, <1>10, <2>1, <2>2, <2>3, <2>4, <2>5, <2>6
  <2> QED BY <1>4, <2>7, Zenon
<1> QED BY <1>12, <1>13

\* The classifier keeps the ledger and leaves none of its holds to classify.
LEMMA ClassifiedKeepsLedger ==
    ASSUME NEW t, NEW S, Kept(t, S), NEW H \in SUBSET Hold
    PROVE  LET u == Classified(t, H) IN
           Kept(u, S \ H) /\ NoMore(t, u) /\ Ends(t, u, {}, H)
<1> DEFINE u == Classified(t, H)
<1>1. Shaped(t) /\ Typed(t)
  BY DEF Kept, MoneyKept
<1>2. Ends(t, u, {}, H)
  BY <1>1, ClassifiedEnds
<1>3. Balanced(u)
  BY ClassifiedBalanced
<1>4. \A e \in Envelope : /\ u.envelope[e].state = t.envelope[e].state
                          /\ u.envelope[e].task = t.envelope[e].task
                          /\ u.envelope[e].maximum = t.envelope[e].maximum
                          /\ u.envelope[e] \in EnvelopeRow
  BY ClassifiedMoves
<1>5. \A e \in Envelope : u.envelope[e].held + u.envelope[e].actual
                             <= t.envelope[e].held + t.envelope[e].actual
  <2> SUFFICES ASSUME NEW e \in Envelope
               PROVE  u.envelope[e].held + u.envelope[e].actual
                         <= t.envelope[e].held + t.envelope[e].actual
    OBVIOUS
  <2> DEFINE G == SumFunctionOnSet(GivenBack(t), ClosedOf(t, H, e))
  <2>1. G \in Nat /\ u.envelope[e].held + u.envelope[e].actual =
            t.envelope[e].held + t.envelope[e].actual - G
    BY ClassifiedGivesBack
  <2>2. t.envelope[e].held \in Int /\ t.envelope[e].actual \in Int
    BY <1>1 DEF Typed, EnvelopeRow
  <2> HIDE DEF G, u
  <2> QED BY <2>1, <2>2
<1>6. NoMore(t, u)
  BY <1>4, <1>5 DEF NoMore
<1>7. /\ u.lineage = t.lineage /\ u.version = t.version /\ u.lease = t.lease /\ u.call = t.call
      /\ u.hold \in [Hold -> HoldRow]
  BY <1>1, ClassifiedColumns, ClassifiedRows
<1>8. u.envelope = [e \in Envelope |-> u.envelope[e]]
  BY <1>1 DEF Shaped, Classified
<1>9. ASSUME NEW h \in Hold
      PROVE  /\ u.hold[h].envelope = t.hold[h].envelope /\ u.hold[h].amount = t.hold[h].amount
             /\ u.hold[h].replaced = t.hold[h].replaced /\ u.hold[h].marked = t.hold[h].marked
             /\ u.hold[h].end = t.hold[h].end
             /\ h \in H /\ Releases(t, h) =>
                   /\ t.hold[h].state = "held"
                   /\ u.hold[h].state \in {"abandoned", "actual"}
                   /\ u.hold[h].actual = Spent(t, h)
                   /\ u.hold[h].attempt \in {"abandoned", "handed_back"}
             /\ ~ (h \in H /\ Releases(t, h)) =>
                   u.hold[h].state = t.hold[h].state /\ u.hold[h].actual = t.hold[h].actual
             /\ h \in H /\ t.hold[h].state = "held" /\ ~ Releases(t, h) =>
                   u.hold[h].attempt = "liability_unknown"
             /\ h \notin H \/ t.hold[h].state # "held" => u.hold[h] = t.hold[h]
  BY ClassifiedRows
<1> HIDE DEF u
<1>10. Shaped(u) /\ SameApprovals(t, u) /\ HoldsClose(t, u, H) /\ LeasesEnd(t, u, {})
       /\ SameVersions(t, u)
  BY <1>2 DEF Ends, SameApprovals, SameVersions
<1>11. VersionsWritten(u) /\ HoldsApproved(u)
  BY <1>10 DEF Kept, SameApprovals, HoldsClose, VersionsWritten, HoldsApproved
<1>12. MarksHold(u)
  <2> SUFFICES ASSUME NEW h \in Hold
               PROVE  /\ u.hold[h].marked \/ u.hold[h].attempt = "dispatched" => u.hold[h].state = "held"
                      /\ u.hold[h].marked => u.hold[h].attempt \in {"dispatched", "liability_unknown"}
    BY DEF MarksHold
  <2>1. /\ t.hold[h].marked \/ t.hold[h].attempt = "dispatched" => t.hold[h].state = "held"
        /\ t.hold[h].marked => t.hold[h].attempt \in {"dispatched", "liability_unknown"}
    BY DEF Kept, StopsKept, MarksHold
  <2> QED BY <1>9, <2>1 DEF Releases
<1>13. ASSUME NEW h \in Hold
       PROVE  /\ t.hold[h].state = "none" => u.hold[h] = t.hold[h]
              /\ u.hold[h].state = "held" /\ t.hold[h].attempt = "liability_unknown"
                    => u.hold[h].attempt = "liability_unknown"
  BY <1>9
<1>14. StopsKept(u, S)
  BY <1>9, <1>10, <1>12, <1>13, RowsKeepStops DEF Kept
<1>15. StopsKept(u, S \ H)
  <2>1. ASSUME NEW h \in Hold \ (S \ H), u.hold[h].state = "held", Over(u, u.hold[h].version)
        PROVE  u.hold[h].attempt = "liability_unknown"
    <3>1. CASE h \in H
      BY <1>9, <2>1, <3>1
    <3>2. CASE h \notin S
      BY <1>14, <2>1, <3>2 DEF StopsKept, EndedClassified
    <3> QED BY <2>1, <3>1, <3>2
  <2>2. EndedClassified(u, S \ H)
    BY <2>1 DEF EndedClassified
  <2> QED BY <1>14, <2>2 DEF StopsKept
<1>16. Typed(u)
  BY <1>1, <1>4, <1>7, <1>8 DEF Typed
<1>17. LineagesCurrent(u)
  BY <1>7 DEF Kept, MoneyKept, LineagesCurrent, Current, Versions
<1>18. RowsBound(u)
  BY <1>4, <1>7, <1>9, <1>10 DEF Kept, MoneyKept, RowsBound, HoldsClose
<1>19. OneOpenEnvelope(u)
  BY <1>4 DEF Kept, MoneyKept, OneOpenEnvelope
<1>20. HoldsPay(u)
  <2>1. \A h \in Hold : /\ Spent(u, h) = Spent(t, h) /\ CallsTaken(u, h) = CallsTaken(t, h)
                        /\ OpenCall(u, h) <=> OpenCall(t, h)
    BY <1>7, Zenon DEF Spent, CallsTaken, OpenCall, CallsOn
  <2> SUFFICES ASSUME NEW h \in Hold
               PROVE  /\ u.hold[h].state = "held" =>
                            u.hold[h].actual = 0 /\ CallsTaken(u, h) <= u.hold[h].amount
                      /\ u.hold[h].state \in {"abandoned", "actual"} =>
                            ~ OpenCall(u, h) /\ u.hold[h].actual = Spent(u, h)
    BY DEF HoldsPay
  <2>2. /\ t.hold[h].state = "held" =>
               t.hold[h].actual = 0 /\ CallsTaken(t, h) <= t.hold[h].amount
        /\ t.hold[h].state \in {"abandoned", "actual"} =>
               ~ OpenCall(t, h) /\ t.hold[h].actual = Spent(t, h)
    BY DEF Kept, MoneyKept, HoldsPay
  <2>3. CASE h \in H /\ Releases(t, h)
    BY <1>9, <2>1, <2>3 DEF Releases
  <2>4. CASE ~ (h \in H /\ Releases(t, h))
    BY <1>9, <2>1, <2>2, <2>4
  <2> QED BY <2>3, <2>4
<1>21. Kept(u, S \ H)
  BY <1>3, <1>10, <1>11, <1>15, <1>16, <1>17, <1>18, <1>19, <1>20 DEF Kept, MoneyKept
<1> QED BY <1>2, <1>6, <1>21 DEF u

(***************************************************************************)
(* The fence, the release of a claimed hold, and superseding.              *)
(***************************************************************************)
\* Reservations stop and close at most: what each is for stays as it was.
HoldsGo(t, u) ==
    \A h \in Hold :
        /\ u.hold[h].version = t.hold[h].version
        /\ u.hold[h].envelope = t.hold[h].envelope
        /\ u.hold[h].amount = t.hold[h].amount
        /\ u.hold[h].lease = t.hold[h].lease
        /\ u.hold[h].replaced = t.hold[h].replaced
        /\ u.hold[h].end = "final" => t.hold[h].end = "final"
        /\ t.hold[h].state # "held" =>
              u.hold[h].state = t.hold[h].state /\ u.hold[h].actual = t.hold[h].actual

LEMMA StaysGo ==
    ASSUME NEW t, NEW u, HoldsStay(t, u)
    PROVE  HoldsGo(t, u)
BY DEF HoldsStay, HoldsGo

LEMMA ClassifiedGo ==
    ASSUME NEW t, NEW S, Kept(t, S), NEW H
    PROVE  HoldsGo(t, Classified(t, H))
<1> DEFINE u == Classified(t, H)
<1>1. ASSUME NEW h \in Hold
      PROVE  /\ u.hold[h].version = t.hold[h].version /\ u.hold[h].envelope = t.hold[h].envelope
             /\ u.hold[h].amount = t.hold[h].amount /\ u.hold[h].lease = t.hold[h].lease
             /\ u.hold[h].replaced = t.hold[h].replaced /\ u.hold[h].end = t.hold[h].end
             /\ t.hold[h].state # "held" => u.hold[h] = t.hold[h]
  BY ClassifiedRows
<1> HIDE DEF u
<1>2. HoldsGo(t, u)
  BY <1>1 DEF HoldsGo
<1> QED BY <1>2 DEF u

LEMMA GoTransitive ==
    ASSUME NEW t, NEW u, NEW w, HoldsGo(t, u), HoldsGo(u, w)
    PROVE  HoldsGo(t, w)
BY DEF HoldsGo

\* The hold of a live lease is the newest of its version.
LiveUnreplaced(t) ==
    \A h \in Hold :
        t.hold[h].lease \in Lease /\ t.lease[t.hold[h].lease].state = "live" => ~ t.hold[h].replaced

LEMMA LiveIsUnreplaced ==
    ASSUME NEW t, NEW S, WorkKept(t, {}), Kept(t, S)
    PROVE  LiveUnreplaced(t)
<1> SUFFICES ASSUME NEW h \in Hold, t.hold[h].lease \in Lease,
                    t.lease[t.hold[h].lease].state = "live"
             PROVE  ~ t.hold[h].replaced
  BY DEF LiveUnreplaced
<1>1. t.lease[t.hold[h].lease].hold = h
  BY NilAssumption DEF Kept, StopsKept, LeasesBound
<1>2. t.hold[h].state = "held"
  BY <1>1 DEF WorkKept, WorksApproved
<1> QED BY <1>2 DEF Kept, StopsKept, NewestAlone

\* Leases that end with the holds they cover (fenceLiveLease, loseLease).
LEMMA LosingKeepsLedger ==
    ASSUME NEW t, NEW S, NEW L, NEW H \in SUBSET Hold, Kept(t, S), Nil \notin L
    PROVE  LET u == Classified(Lost(t, L), H) IN
           Kept(u, S \ H) /\ NoMore(t, u) /\ HoldsGo(t, u)
<1> DEFINE w == Lost(t, L)
           u == Classified(w, H)
<1>1. Kept(w, S) /\ NoMore(t, w) /\ w.hold = Stopped(t, L, "retryable").hold
  BY LostKeepsLedger
<1>2. HoldsStay(t, Stopped(t, L, "retryable"))
  BY StoppedStay DEF Kept
<1>3. HoldsStay(t, w)
  BY <1>1, <1>2 DEF HoldsStay
<1> HIDE DEF w
<1>4. Kept(u, S \ H) /\ NoMore(w, u) /\ HoldsGo(w, u)
  BY <1>1, ClassifiedKeepsLedger, ClassifiedGo
<1> HIDE DEF u
<1>5. HoldsGo(t, u)
  BY <1>3, <1>4, StaysGo, GoTransitive
<1>6. NoMore(t, u)
  BY <1>1, <1>4, NoMoreTransitive DEF Kept, MoneyKept
<1> QED BY <1>4, <1>5, <1>6 DEF u, w

LEMMA FencedKeepsLedger ==
    ASSUME NEW t, NEW k, Kept(t, {})
    PROVE  LET u == Fenced(t, k) IN Kept(u, {}) /\ NoMore(t, u) /\ HoldsGo(t, u)
<1> DEFINE L == LiveOnTask(t, k)
           H == {h \in Hold : t.hold[h].state = "held" /\ t.hold[h].lease \in L}
           u == Classified(Lost(t, L), H)
<1>1. Nil \notin L /\ H \in SUBSET Hold
  BY NilAssumption DEF LiveOnTask
<1>2. Fenced(t, k) = u
  BY DEF Fenced
<1> HIDE DEF L, H
<1>3. Kept(u, {} \ H) /\ NoMore(t, u) /\ HoldsGo(t, u)
  BY <1>1, LosingKeepsLedger
<1>4. {} \ H = {}
  OBVIOUS
<1> HIDE DEF u
<1> QED BY <1>2, <1>3, <1>4

LEMMA LetGoKeepsLedger ==
    ASSUME NEW t, NEW h \in Hold, Kept(t, {}), t.hold[h].state = "held" => t.hold[h].lease # Nil
    PROVE  LET u == LetGo(t, h) IN Kept(u, {}) /\ NoMore(t, u) /\ HoldsGo(t, u)
<1>1. CASE t.hold[h].state = "held"
  <2> DEFINE u == Classified(Lost(t, {t.hold[h].lease}), {h})
  <2>1. Kept(u, {} \ {h}) /\ NoMore(t, u) /\ HoldsGo(t, u)
    BY <1>1, LosingKeepsLedger
  <2>2. {} \ {h} = {} /\ LetGo(t, h) = u
    BY <1>1 DEF LetGo
  <2> HIDE DEF u
  <2> QED BY <2>1, <2>2
<1>2. CASE t.hold[h].state # "held"
  <2>1. LetGo(t, h) = t
    BY <1>2 DEF LetGo
  <2>2. NoMore(t, t) /\ HoldsGo(t, t)
    BY DEF NoMore, HoldsGo, Kept, MoneyKept, Typed, EnvelopeRow
  <2> QED BY <2>1, <2>2
<1> QED BY <1>1, <1>2

\* Work retired for good, with its holds classified.
LEMMA RetiringKeepsLedger ==
    ASSUME NEW t, NEW S, NEW L \in SUBSET Lease, NEW H \in SUBSET Hold, NEW code \in Codes,
           Kept(t, S), \A h \in Hold : t.hold[h].lease \in L => ~ t.hold[h].replaced
    PROVE  LET u == Classified(Retired(t, L, code), H) IN Kept(u, S \ H) /\ NoMore(t, u)
<1> DEFINE w == Retired(t, L, code)
           u == Classified(w, H)
<1>1. Nil \notin L
  BY NilAssumption
<1>2. Kept(w, S) /\ NoMore(t, w)
  BY <1>1, RetiredKeepsLedger
<1> HIDE DEF w
<1>3. Kept(u, S \ H) /\ NoMore(w, u)
  BY <1>2, ClassifiedKeepsLedger
<1> HIDE DEF u
<1>4. NoMore(t, u)
  BY <1>2, <1>3, NoMoreTransitive DEF Kept, MoneyKept
<1> QED BY <1>3, <1>4 DEF u, w

LEMMA SupersedingKeepsLedger ==
    ASSUME NEW t, NEW V, Kept(t, HeldOn(t, V)), LiveUnreplaced(t)
    PROVE  LET u == Superseding(t, V) IN Kept(u, {}) /\ NoMore(t, u)
<1> DEFINE L == {x \in LiveOn(t, V) : x \in Lease}
           H == HeldOn(t, V)
           u == Classified(Retired(t, L, "final"), H)
<1>1. L \in SUBSET Lease /\ L = LiveOn(t, V) /\ H \in SUBSET Hold /\ H \ H = {}
  BY DEF LiveOn, HeldOn
<1>2. Superseding(t, V) = u
  BY <1>1, Zenon DEF Superseding
<1>3. \A h \in Hold : t.hold[h].lease \in L => ~ t.hold[h].replaced
  BY DEF LiveUnreplaced, LiveOn
<1> HIDE DEF L, H
<1>4. Kept(t, H)
  BY DEF H
<1>5. Kept(u, H \ H) /\ NoMore(t, u)
  BY <1>1, <1>3, <1>4, RetiringKeepsLedger DEF Codes
<1> HIDE DEF u
<1> QED BY <1>1, <1>2, <1>5

(***************************************************************************)
(* A settled report.                                                       *)
(***************************************************************************)
\* Attempts that move on where no money moves.
LEMMA MovingKeepsLedger ==
    ASSUME NEW t, NEW u, NEW S, NEW L, NEW H, Kept(t, S), Ends(t, u, L, H), MoneySteady(t, u),
           Typed(u), MarksHold(u),
           \A h \in Hold :
              /\ u.hold[h].replaced = t.hold[h].replaced
              /\ u.hold[h].end = t.hold[h].end
              /\ t.hold[h].state = "none" => u.hold[h] = t.hold[h]
              /\ u.hold[h].state = "held" /\ t.hold[h].attempt = "liability_unknown"
                    => u.hold[h].attempt = "liability_unknown"
    PROVE  Kept(u, S) /\ NoMore(t, u)
<1>1. /\ Shaped(u) /\ SameApprovals(t, u) /\ LeasesEnd(t, u, L) /\ HoldsClose(t, u, H)
      /\ SameVersions(t, u)
  BY DEF Ends, SameApprovals, SameVersions
<1>2. VersionsWritten(u) /\ HoldsApproved(u)
  BY <1>1 DEF Kept, SameApprovals, HoldsClose, VersionsWritten, HoldsApproved
<1>3. StopsKept(u, S)
  BY <1>1, RowsKeepStops DEF Kept
<1>4. MoneyKept(u) /\ NoMore(t, u)
  BY SteadyKeepsMoney DEF Kept
<1> QED BY <1>1, <1>2, <1>3, <1>4 DEF Kept

\* The report itself ends a lease and settles its delegation.
LEMMA ReportSettledKeepsLedger ==
    ASSUME NEW t, NEW S, NEW x \in Lease, t.lease[x].state # "none", Kept(t, S)
    PROVE  LET u == ReportSettled(t, x) IN
           Kept(u, S) /\ NoMore(t, u) /\ Ends(t, u, {x}, {}) /\ u.hold = t.hold
           /\ u.version = t.version /\ u.call = t.call
<1> DEFINE u == ReportSettled(t, x)
           settled == t.lease[x].settled + 1
           to == IF t.lease[x].delegation = "live" THEN "settled" ELSE t.lease[x].delegation
           row == [t.lease[x] EXCEPT !.settled = settled, !.state = "released", !.delegation = to]
<1>1. Shaped(t) /\ Typed(t)
  BY DEF Kept, MoneyKept
<1>2. t.lease[x] \in LeaseRow
  BY <1>1 DEF Typed
<1>3. settled \in Nat /\ to \in {"none", "live", "settled", "revoked"}
  BY <1>2 DEF LeaseRow
<1>4. /\ u.lineage = t.lineage /\ u.version = t.version /\ u.hold = t.hold
      /\ u.envelope = t.envelope /\ u.call = t.call /\ DOMAIN u = DOMAIN t
      /\ u.lease = [t.lease EXCEPT ![x] = row]
  BY <1>1, <1>2 DEF Shaped, ReportSettled, LeaseRow
<1> HIDE DEF u, settled, to
<1>5. /\ row \in LeaseRow /\ DOMAIN row = DOMAIN NoLease
      /\ row.hold = t.lease[x].hold /\ row.task = t.lease[x].task /\ row.state = "released"
  BY <1>2, <1>3 DEF LeaseRow, NoLease
<1> HIDE DEF row
<1>6. /\ u.lease \in [Lease -> LeaseRow] /\ u.lease[x] = row
      /\ \A y \in Lease : y # x => u.lease[y] = t.lease[y]
  BY <1>1, <1>4, <1>5 DEF Typed
<1>7. Typed(u)
  BY <1>1, <1>4, <1>6 DEF Typed
<1>8. Ends(t, u, {x}, {})
  <2>1. Shaped(u)
    BY <1>1, <1>4, <1>5, <1>6 DEF Shaped
  <2>2. SameApprovals(t, u) /\ HoldsClose(t, u, {}) /\ CallsStay(t, u)
    BY <1>4 DEF SameApprovals, HoldsClose, CallsStay
  <2>3. LeasesEnd(t, u, {x})
    BY <1>5, <1>6 DEF LeasesEnd
  <2> QED BY <2>1, <2>2, <2>3 DEF Ends
<1>9. CallsClose(t, u)
  BY <1>4, SameCallsClose
<1>10. Kept(u, S) /\ NoMore(t, u)
  BY <1>4, <1>7, <1>8, <1>9, NothingMovesLedger
<1> QED BY <1>4, <1>8, <1>10 DEF u

\* A run that records another state.
LEMMA RunKeepsLedger ==
    ASSUME NEW t, NEW S, NEW v \in Version, NEW run \in RunStates, Kept(t, S)
    PROVE  LET u == [t EXCEPT !.version[v].run = run] IN
           Kept(u, S) /\ NoMore(t, u) /\ Ends(t, u, {}, {}) /\ u.hold = t.hold /\ u.call = t.call
<1> DEFINE u == [t EXCEPT !.version[v].run = run]
           row == [t.version[v] EXCEPT !.run = run]
<1>1. Shaped(t) /\ Typed(t)
  BY DEF Kept, MoneyKept
<1>2. /\ u.lineage = t.lineage /\ u.lease = t.lease /\ u.hold = t.hold
      /\ u.envelope = t.envelope /\ u.call = t.call /\ DOMAIN u = DOMAIN t
      /\ u.version = [t.version EXCEPT ![v] = row]
  BY <1>1 DEF Shaped
<1>3. t.version[v] \in VersionRow
  BY <1>1 DEF Typed
<1>4. /\ row \in VersionRow /\ DOMAIN row = DOMAIN NoVersion /\ row.state = t.version[v].state
      /\ row.lineage = t.version[v].lineage /\ row.gate = t.version[v].gate
  BY <1>3 DEF VersionRow, NoVersion
<1> HIDE DEF u, row
<1>5. /\ u.version \in [Version -> VersionRow] /\ u.version[v] = row
      /\ \A w \in Version : w # v => u.version[w] = t.version[w]
  BY <1>1, <1>2, <1>4 DEF Typed
<1>6. Ends(t, u, {}, {})
  <2>1. Shaped(u)
    BY <1>1, <1>2, <1>4, <1>5 DEF Shaped
  <2>2. LeasesEnd(t, u, {}) /\ HoldsClose(t, u, {}) /\ CallsStay(t, u)
    BY <1>2 DEF LeasesEnd, HoldsClose, CallsStay
  <2>3. SameApprovals(t, u)
    BY <1>2, <1>4, <1>5 DEF SameApprovals
  <2> QED BY <2>1, <2>2, <2>3 DEF Ends
<1>7. Kept(u, S) /\ NoMore(t, u)
  BY <1>2, <1>5, <1>6, RunsKeepLedger
<1> QED BY <1>2, <1>6, <1>7 DEF u

\* An unmarked attempt handed back.
LEMMA HandedBackKeepsLedger ==
    ASSUME NEW t, NEW S, NEW h \in Hold, Kept(t, S), ~ t.hold[h].marked,
           t.hold[h].attempt = "dispatched"
    PROVE  LET u == [t EXCEPT !.hold[h].attempt = "handed_back"] IN
           Kept(u, S) /\ NoMore(t, u) /\ HoldsStay(t, u)
<1> DEFINE u == [t EXCEPT !.hold[h].attempt = "handed_back"]
           row == [t.hold[h] EXCEPT !.attempt = "handed_back"]
<1>1. Shaped(t) /\ Typed(t) /\ MarksHold(t)
  BY DEF Kept, MoneyKept, StopsKept
<1>2. /\ u.lineage = t.lineage /\ u.lease = t.lease /\ u.version = t.version
      /\ u.envelope = t.envelope /\ u.call = t.call /\ DOMAIN u = DOMAIN t
      /\ u.hold = [t.hold EXCEPT ![h] = row]
  BY <1>1 DEF Shaped
<1>3. t.hold[h] \in HoldRow /\ t.hold[h].state = "held"
  BY <1>1 DEF Typed, MarksHold
<1>4. /\ row \in HoldRow /\ DOMAIN row = DOMAIN NoHold /\ row.state = t.hold[h].state
      /\ row.version = t.hold[h].version /\ row.envelope = t.hold[h].envelope
      /\ row.amount = t.hold[h].amount /\ row.actual = t.hold[h].actual
      /\ row.lease = t.hold[h].lease /\ row.replaced = t.hold[h].replaced
      /\ row.end = t.hold[h].end /\ row.marked = t.hold[h].marked /\ row.attempt = "handed_back"
  BY <1>3 DEF HoldRow, AttemptStates, NoHold
<1> HIDE DEF u, row
<1>5. /\ u.hold \in [Hold -> HoldRow] /\ u.hold[h] = row
      /\ \A i \in Hold : i # h => u.hold[i] = t.hold[i]
  BY <1>1, <1>2, <1>4 DEF Typed
<1>6. Typed(u) /\ Shaped(u)
  BY <1>1, <1>2, <1>4, <1>5 DEF Typed, Shaped
<1>7. HoldsStay(t, u)
  BY <1>4, <1>5 DEF HoldsStay
<1>8. HoldsClose(t, u, {h})
  BY <1>4, <1>5 DEF HoldsClose
<1>9. Ends(t, u, {}, {h})
  <2>1. SameApprovals(t, u) /\ LeasesEnd(t, u, {}) /\ CallsStay(t, u)
    BY <1>2 DEF SameApprovals, LeasesEnd, CallsStay
  <2> QED BY <1>6, <1>8, <2>1 DEF Ends
<1>10. MoneySteady(t, u)
  <2>1. SameVersions(t, u) /\ CallsClose(t, u)
    BY <1>2, SameCallsClose DEF SameVersions
  <2>2. SameReservations(t, u)
    BY <1>7 DEF HoldsStay, SameReservations
  <2> QED BY <1>2, <2>1, <2>2 DEF MoneySteady
<1>11. MarksHold(u)
  BY <1>1, <1>4, <1>5 DEF MarksHold
<1>12. \A i \in Hold :
          /\ u.hold[i].replaced = t.hold[i].replaced
          /\ u.hold[i].end = t.hold[i].end
          /\ t.hold[i].state = "none" => u.hold[i] = t.hold[i]
          /\ u.hold[i].state = "held" /\ t.hold[i].attempt = "liability_unknown"
                => u.hold[i].attempt = "liability_unknown"
  BY <1>3, <1>4, <1>5
<1>13. Kept(u, S) /\ NoMore(t, u)
  BY <1>6, <1>9, <1>10, <1>11, <1>12, MovingKeepsLedger
<1> QED BY <1>7, <1>13 DEF u

\* The report, its run and its attempt, and the classification of its hold.
LEMMA SettledKeepsLedger ==
    ASSUME NEW t, NEW x \in Lease, NEW dropped \in BOOLEAN, WorkKept(t, {}), Kept(t, {}),
           t.lease[x].state = "live"
    PROVE  LET u == Settled(t, x, dropped)
               h == t.lease[x].hold
           IN
           /\ Kept(u, {}) /\ NoMore(t, u) /\ HoldsGo(t, u)
           /\ u.hold[h].state = "held" => u.hold[h].attempt = "liability_unknown"
<1> DEFINE h == t.lease[x].hold
           v == t.hold[h].version
           t1 == ReportSettled(t, x)
           t2 == IF dropped THEN t1 ELSE [t1 EXCEPT !.version[v].run = "handed_back"]
           t3 == IF dropped \/ t.hold[h].marked \/ OpenCall(t, h) THEN t2
                 ELSE [t2 EXCEPT !.hold[h].attempt = "handed_back"]
           u == Classified(t3, {h})
<1>1. Settled(t, x, dropped) = u
  BY DEF Settled
<1>2. h \in Hold /\ t.hold[h].attempt = "dispatched" /\ v \in Version
  BY DEF WorkKept, WorksApproved, HoldsApproved
<1>3. Kept(t1, {}) /\ NoMore(t, t1) /\ t1.hold = t.hold
  BY ReportSettledKeepsLedger
<1> HIDE DEF t1, h, v
<1>4. Kept(t2, {}) /\ NoMore(t, t2) /\ t2.hold = t.hold
  <2>1. CASE dropped
    BY <1>3, <2>1
  <2>2. CASE ~ dropped
    <3> DEFINE w == [t1 EXCEPT !.version[v].run = "handed_back"]
    <3>1. Kept(w, {}) /\ NoMore(t1, w) /\ w.hold = t1.hold
      BY <1>2, <1>3, RunKeepsLedger DEF RunStates
    <3>2. t2 = w
      BY <2>2
    <3> HIDE DEF w
    <3>3. NoMore(t, w)
      BY <1>3, <3>1, NoMoreTransitive DEF Kept, MoneyKept
    <3> QED BY <1>3, <3>1, <3>2, <3>3
  <2> QED BY <2>1, <2>2
<1> HIDE DEF t2
<1>5. Kept(t3, {}) /\ NoMore(t, t3) /\ HoldsStay(t, t3)
  <2>1. CASE dropped \/ t.hold[h].marked \/ OpenCall(t, h)
    BY <1>4, <2>1 DEF HoldsStay
  <2>2. CASE ~ (dropped \/ t.hold[h].marked \/ OpenCall(t, h))
    <3> DEFINE w == [t2 EXCEPT !.hold[h].attempt = "handed_back"]
    <3>1. ~ t2.hold[h].marked /\ t2.hold[h].attempt = "dispatched"
      BY <1>2, <1>4, <2>2
    <3>2. Kept(w, {}) /\ NoMore(t2, w) /\ HoldsStay(t2, w)
      BY <1>2, <1>4, <3>1, HandedBackKeepsLedger
    <3>3. t3 = w
      BY <2>2
    <3> HIDE DEF w
    <3>4. NoMore(t, w)
      BY <1>4, <3>2, NoMoreTransitive DEF Kept, MoneyKept
    <3>5. HoldsStay(t, w)
      BY <1>4, <3>2 DEF HoldsStay
    <3> QED BY <3>2, <3>3, <3>4, <3>5
  <2> QED BY <2>1, <2>2
<1> HIDE DEF t3
<1>6. Kept(u, {} \ {h}) /\ NoMore(t3, u) /\ HoldsGo(t3, u)
  BY <1>2, <1>5, ClassifiedKeepsLedger, ClassifiedGo
<1>7. {} \ {h} = {}
  OBVIOUS
<1>8. u.hold[h].state = "held" => u.hold[h].attempt = "liability_unknown"
  <2>1. /\ Releases(t3, h) => u.hold[h].state \in {"abandoned", "actual"}
        /\ ~ Releases(t3, h) => u.hold[h].state = t3.hold[h].state
        /\ t3.hold[h].state = "held" /\ ~ Releases(t3, h) => u.hold[h].attempt = "liability_unknown"
    BY <1>2, <1>5, ClassifiedRows
  <2> HIDE DEF u
  <2> QED BY <2>1
<1> HIDE DEF u
<1>9. NoMore(t, u)
  BY <1>3, <1>5, <1>6, NoMoreTransitive DEF Kept, MoneyKept
<1>10. HoldsGo(t, u)
  BY <1>5, <1>6, StaysGo, GoTransitive
<1> QED BY <1>1, <1>6, <1>7, <1>8, <1>9, <1>10 DEF h

\* A completed attempt stops for good after its lease is released.
LEMMA CompletedKeepsLedger ==
    ASSUME NEW t, NEW S, NEW x \in Lease, Kept(t, S), t.lease[x].state # "live",
           \A h \in Hold : t.hold[h].lease = x => ~ t.hold[h].replaced
    PROVE  LET u == Stopped(t, {x}, "final") IN Kept(u, S) /\ NoMore(t, u)
<1> DEFINE u == Stopped(t, {x}, "final")
<1>1. Shaped(t) /\ Typed(t)
  BY DEF Kept, MoneyKept
<1>2. Nil \notin {x}
  BY NilAssumption
<1>3. u.lease = t.lease /\ u.envelope = t.envelope
  BY <1>1 DEF Shaped, Stopped
<1>4. Ends(t, u, {}, {}) /\ Typed(u)
  BY <1>1, StoppedEnds, StoppedSteady DEF Codes
<1>5. Ends(u, u, {x}, {})
  <2> HIDE DEF u
  <2>1. Shaped(u) /\ u.lease[x].state # "live"
    BY <1>3, <1>4 DEF Ends
  <2> QED BY <2>1 DEF Ends, SameApprovals, LeasesEnd, HoldsClose, CallsStay
<1>6. Kept(u, S) /\ NoMore(t, u)
  BY <1>2, <1>3, <1>4, <1>5, StoppingKeepsLedger DEF Codes
<1> QED BY <1>6

(***************************************************************************)
(* A dropped attempt.                                                      *)
(***************************************************************************)
LEMMA DropMarkedKeepsLedger ==
    ASSUME NEW t, NEW S, NEW H, Kept(t, S)
    PROVE  LET u == [t EXCEPT !.hold = [h \in Hold |->
                        IF h \in Dropping(t, H) THEN [t.hold[h] EXCEPT !.attempt = "dropped"]
                        ELSE t.hold[h]]]
           IN Kept(u, S) /\ NoMore(t, u) /\ Ends(t, u, {}, {}) /\ HoldsStay(t, u)
<1> DEFINE u == [t EXCEPT !.hold = [h \in Hold |->
                    IF h \in Dropping(t, H) THEN [t.hold[h] EXCEPT !.attempt = "dropped"]
                    ELSE t.hold[h]]]
<1>1. Shaped(t) /\ Typed(t) /\ HoldsApproved(t)
  BY DEF Kept, MoneyKept
<1>2. /\ u.lineage = t.lineage /\ u.version = t.version /\ u.lease = t.lease
      /\ u.envelope = t.envelope /\ u.call = t.call /\ DOMAIN u = DOMAIN t
      /\ u.hold = [h \in Hold |->
            IF h \in Dropping(t, H) THEN [t.hold[h] EXCEPT !.attempt = "dropped"] ELSE t.hold[h]]
  BY <1>1 DEF Shaped
<1> HIDE DEF u
<1>3. \A h \in Dropping(t, H) : t.hold[h].attempt = "abandoned" /\ t.hold[h].lease # Nil
  BY DEF Dropping
<1>4. ASSUME NEW h \in Hold
      PROVE  /\ u.hold[h] \in HoldRow
             /\ u.hold[h].state = t.hold[h].state /\ u.hold[h].envelope = t.hold[h].envelope
             /\ u.hold[h].amount = t.hold[h].amount /\ u.hold[h].actual = t.hold[h].actual
             /\ u.hold[h].replaced = t.hold[h].replaced /\ u.hold[h].end = t.hold[h].end
             /\ u.hold[h].version = t.hold[h].version /\ u.hold[h].lease = t.hold[h].lease
             /\ u.hold[h].marked = t.hold[h].marked
             /\ \/ u.hold[h].attempt = t.hold[h].attempt /\ u.hold[h] = t.hold[h]
                \/ /\ t.hold[h].attempt = "abandoned" /\ u.hold[h].attempt = "dropped"
                   /\ t.hold[h].state # "held" /\ t.hold[h].lease # Nil
  <2>1. t.hold[h] \in HoldRow
    BY <1>1 DEF Typed
  <2>2. CASE h \in Dropping(t, H)
    <3>1. u.hold[h] = [t.hold[h] EXCEPT !.attempt = "dropped"]
      BY <1>2, <2>2
    <3>2. t.hold[h].attempt = "abandoned" /\ t.hold[h].state # "held" /\ t.hold[h].lease # Nil
      BY <1>1, <1>3, <2>2 DEF HoldsApproved
    <3> QED BY <2>1, <3>1, <3>2 DEF HoldRow, AttemptStates
  <2>3. CASE h \notin Dropping(t, H)
    BY <1>2, <2>1, <2>3
  <2> QED BY <2>2, <2>3
<1>5. u.hold \in [Hold -> HoldRow]
  BY <1>2, <1>4
<1>6. Typed(u)
  BY <1>1, <1>2, <1>5 DEF Typed
<1>7. HoldsStay(t, u)
  BY <1>4 DEF HoldsStay
<1>8. Ends(t, u, {}, {})
  <2>1. SameApprovals(t, u) /\ LeasesEnd(t, u, {}) /\ CallsStay(t, u)
    BY <1>2 DEF SameApprovals, LeasesEnd, CallsStay
  <2>2. HoldsClose(t, u, {})
    BY <1>4 DEF HoldsClose
  <2>3. Shaped(u)
    <3>1. \A h \in Hold : DOMAIN u.hold[h] = DOMAIN NoHold
      BY <1>4 DEF HoldRow, NoHold
    <3> QED BY <1>1, <1>2, <3>1 DEF Shaped
  <2> QED BY <2>1, <2>2, <2>3 DEF Ends
<1>9. MoneySteady(t, u)
  <2>1. SameVersions(t, u) /\ CallsClose(t, u)
    BY <1>2, SameCallsClose DEF SameVersions
  <2>2. SameReservations(t, u)
    BY <1>7 DEF HoldsStay, SameReservations
  <2> QED BY <1>2, <2>1, <2>2 DEF MoneySteady
<1>10. MarksHold(u)
  BY <1>4 DEF Kept, StopsKept, MarksHold
<1>11. \A h \in Hold : t.hold[h].state = "none" => u.hold[h] = t.hold[h]
  <2> SUFFICES ASSUME NEW h \in Hold, t.hold[h].state = "none" PROVE u.hold[h] = t.hold[h]
    OBVIOUS
  <2>1. t.hold[h].lease = Nil
    BY DEF Kept, StopsKept, NewestAlone, NoHold
  <2> QED BY <1>4, <2>1
<1>12. Kept(u, S) /\ NoMore(t, u)
  BY <1>4, <1>6, <1>8, <1>9, <1>10, <1>11, EndingKeepsLedger
<1> QED BY <1>7, <1>8, <1>12 DEF u

(***************************************************************************)
(* Reservations.                                                           *)
(***************************************************************************)
\* What a reservation is written for: a version approved now that holds nothing
\* and has not stopped for good, and an envelope of the ledger.
Reservable(t, new) ==
    /\ \A n \in DOMAIN new :
          /\ n \in FreshHolds(t)
          /\ new[n].version \in Version
          /\ ApprovalCurrent(t, new[n].version)
          /\ HeldOn(t, {new[n].version}) = {}
          /\ \A h \in Hold : t.hold[h].version = new[n].version => t.hold[h].end # "final"
          /\ new[n].envelope \in Envelope
          /\ t.envelope[new[n].envelope].state # "none"
          /\ new[n].amount \in Nat
    /\ \A n, m \in DOMAIN new : new[n].version = new[m].version => n = m

NewIn(new, e) == {n \in DOMAIN new : new[n].envelope = e}

Takes(new, e) == SumFunctionOnSet([n \in DOMAIN new |-> new[n].amount], NewIn(new, e))

LEMMA TakesType ==
    ASSUME NEW t, NEW new, Reservable(t, new), NEW e
    PROVE  /\ IsFiniteSet(NewIn(new, e))
           /\ Takes(new, e) \in Nat
<1> DEFINE amounts == [n \in DOMAIN new |-> new[n].amount]
           N == NewIn(new, e)
<1>1. N \subseteq Hold /\ \A n \in N : amounts[n] \in Nat
  BY DEF Reservable, FreshHolds, NewIn
<1>2. IsFiniteSet(N)
  BY <1>1, RowsAssumption, FS_Subset
<1> HIDE DEF amounts, N
<1>3. SumFunctionOnSet(amounts, N) \in Nat
  BY <1>1, <1>2, SumOfNaturals
<1> QED BY <1>2, <1>3 DEF Takes, N, amounts

LEMMA ReservedColumns ==
    ASSUME NEW t, Shaped(t), NEW new
    PROVE  LET u == Reserved(t, new) IN
           /\ u.lineage = t.lineage /\ u.version = t.version
           /\ u.lease = t.lease /\ u.call = t.call /\ DOMAIN u = DOMAIN t
           /\ u.hold = [h \in Hold |-> u.hold[h]]
           /\ u.envelope = [e \in Envelope |-> u.envelope[e]]
BY DEF Shaped, Reserved

LEMMA ReservedEnvelopes ==
    ASSUME NEW t, Shaped(t), Typed(t), NEW new, Reservable(t, new), NEW e \in Envelope
    PROVE  LET u == Reserved(t, new) IN
           /\ u.envelope[e] \in EnvelopeRow
           /\ u.envelope[e].state = t.envelope[e].state
           /\ u.envelope[e].task = t.envelope[e].task
           /\ u.envelope[e].maximum = t.envelope[e].maximum
           /\ u.envelope[e].actual = t.envelope[e].actual
           /\ u.envelope[e].held = t.envelope[e].held + Takes(new, e)
<1> DEFINE u == Reserved(t, new)
           A == Takes(new, e)
<1>1. A \in Nat
  BY TakesType
<1>2. u.envelope[e] = [t.envelope[e] EXCEPT !.held = @ + A]
  BY DEF Shaped, Reserved, Takes, NewIn
<1>3. t.envelope[e] \in EnvelopeRow
  BY DEF Typed
<1> DEFINE x == t.envelope[e].held + A
<1> HIDE DEF u, A
<1>4. x \in Int /\ u.envelope[e] = [t.envelope[e] EXCEPT !.held = x]
  BY <1>1, <1>2, <1>3 DEF EnvelopeRow
<1> HIDE DEF x
<1>5. /\ u.envelope[e].state = t.envelope[e].state /\ u.envelope[e].task = t.envelope[e].task
      /\ u.envelope[e].maximum = t.envelope[e].maximum
      /\ u.envelope[e].actual = t.envelope[e].actual
      /\ u.envelope[e].held = x /\ u.envelope[e] \in EnvelopeRow
  BY <1>3, <1>4 DEF EnvelopeRow
<1> QED BY <1>5 DEF x, A, u

LEMMA ReservedFresh ==
    ASSUME NEW t, Shaped(t), NewestAlone(t), NEW new, Reservable(t, new), NEW h \in Hold,
           h \in DOMAIN new
    PROVE  LET u == Reserved(t, new) IN
           /\ u.hold[h] \in HoldRow
           /\ t.hold[h] = NoHold
           /\ u.hold[h] = [state |-> "held", version |-> new[h].version,
                           envelope |-> new[h].envelope, amount |-> new[h].amount,
                           actual |-> 0, lease |-> Nil, replaced |-> FALSE,
                           attempt |-> "reserved", marked |-> FALSE, end |-> "none"]
<1> DEFINE u == Reserved(t, new)
<1>1. t.hold[h] = NoHold
  BY DEF Reservable, FreshHolds, NewestAlone
<1>2. u.hold[h] = [state |-> "held", version |-> new[h].version,
                   envelope |-> new[h].envelope, amount |-> new[h].amount,
                   actual |-> 0, lease |-> Nil, replaced |-> FALSE,
                   attempt |-> "reserved", marked |-> FALSE, end |-> "none"]
  BY DEF Shaped, Reserved
<1> HIDE DEF u
<1>3. new[h].version \in Version /\ new[h].envelope \in Envelope /\ new[h].amount \in Nat
  BY DEF Reservable
<1>4. u.hold[h] \in HoldRow
  BY <1>2, <1>3 DEF HoldRow, AttemptStates
<1> QED BY <1>1, <1>2, <1>4 DEF u

LEMMA ReservedBeside ==
    ASSUME NEW t, Shaped(t), Typed(t), NEW new, NEW h \in Hold, h \notin DOMAIN new
    PROVE  LET u == Reserved(t, new) IN
           /\ u.hold[h] \in HoldRow
           /\ u.hold[h].state = t.hold[h].state
           /\ u.hold[h].version = t.hold[h].version
           /\ u.hold[h].envelope = t.hold[h].envelope
           /\ u.hold[h].amount = t.hold[h].amount
           /\ u.hold[h].actual = t.hold[h].actual
           /\ u.hold[h].lease = t.hold[h].lease
           /\ u.hold[h].attempt = t.hold[h].attempt
           /\ u.hold[h].marked = t.hold[h].marked
           /\ u.hold[h].end = t.hold[h].end
           /\ (\A n \in DOMAIN new : new[n].version # t.hold[h].version)
                 => u.hold[h] = t.hold[h]
           /\ ~ u.hold[h].replaced =>
                 /\ ~ t.hold[h].replaced
                 /\ \A n \in DOMAIN new : new[n].version # t.hold[h].version
<1> DEFINE u == Reserved(t, new)
           again == \E n \in DOMAIN new : new[n].version = t.hold[h].version
           b == t.hold[h].replaced \/ again
<1>1. t.hold[h] \in HoldRow
  BY DEF Typed
<1>2. u.hold[h] = [t.hold[h] EXCEPT !.replaced = @ \/ again]
  BY DEF Shaped, Reserved
<1>3. u.hold[h] = [t.hold[h] EXCEPT !.replaced = b]
  BY <1>1, <1>2 DEF HoldRow
<1>4. b \in BOOLEAN /\ t.hold[h].replaced \in BOOLEAN
  BY <1>1 DEF HoldRow
<1>5. ~ again => b = t.hold[h].replaced
  BY <1>4
<1>6. ~ b => ~ t.hold[h].replaced /\ \A n \in DOMAIN new : new[n].version # t.hold[h].version
  OBVIOUS
<1>7. (\A n \in DOMAIN new : new[n].version # t.hold[h].version) => ~ again
  OBVIOUS
<1> HIDE DEF u, b, again
<1>8. /\ u.hold[h] \in HoldRow /\ u.hold[h].replaced = b
      /\ u.hold[h].state = t.hold[h].state /\ u.hold[h].version = t.hold[h].version
      /\ u.hold[h].envelope = t.hold[h].envelope /\ u.hold[h].amount = t.hold[h].amount
      /\ u.hold[h].actual = t.hold[h].actual /\ u.hold[h].lease = t.hold[h].lease
      /\ u.hold[h].attempt = t.hold[h].attempt /\ u.hold[h].marked = t.hold[h].marked
      /\ u.hold[h].end = t.hold[h].end
  BY <1>1, <1>3, <1>4 DEF HoldRow
<1>9. b = t.hold[h].replaced => u.hold[h] = t.hold[h]
  BY <1>1, <1>3 DEF HoldRow
<1> QED BY <1>5, <1>6, <1>7, <1>8, <1>9 DEF u

\* The rows of a reservation, without their writing.
LEMMA ReservedHolds ==
    ASSUME NEW t, NEW S, Kept(t, S), NEW new, Reservable(t, new)
    PROVE  LET u == Reserved(t, new) IN
           /\ DOMAIN new \subseteq Hold
           /\ \A n \in DOMAIN new :
                 /\ t.hold[n] = NoHold
                 /\ new[n].version \in Version /\ new[n].envelope \in Envelope
                 /\ new[n].amount \in Nat
                 /\ u.hold[n].state = "held" /\ u.hold[n].version = new[n].version
                 /\ u.hold[n].envelope = new[n].envelope /\ u.hold[n].amount = new[n].amount
                 /\ u.hold[n].actual = 0 /\ u.hold[n].lease = Nil /\ ~ u.hold[n].replaced
                 /\ u.hold[n].attempt = "reserved" /\ ~ u.hold[n].marked
                 /\ u.hold[n].end = "none"
           /\ \A h \in Hold \ DOMAIN new :
                 /\ u.hold[h].state = t.hold[h].state
                 /\ u.hold[h].version = t.hold[h].version
                 /\ u.hold[h].envelope = t.hold[h].envelope
                 /\ u.hold[h].amount = t.hold[h].amount
                 /\ u.hold[h].actual = t.hold[h].actual
                 /\ u.hold[h].lease = t.hold[h].lease
                 /\ u.hold[h].attempt = t.hold[h].attempt
                 /\ u.hold[h].marked = t.hold[h].marked
                 /\ u.hold[h].end = t.hold[h].end
<1> DEFINE u == Reserved(t, new)
<1>1. Shaped(t) /\ Typed(t) /\ NewestAlone(t)
  BY DEF Kept, StopsKept, MoneyKept
<1>2. ASSUME NEW n \in DOMAIN new
      PROVE  /\ n \in Hold
             /\ new[n].version \in Version /\ new[n].envelope \in Envelope
             /\ new[n].amount \in Nat
  BY DEF Reservable, FreshHolds
<1>3. ASSUME NEW n \in DOMAIN new
      PROVE  /\ t.hold[n] = NoHold
             /\ u.hold[n].state = "held" /\ u.hold[n].version = new[n].version
             /\ u.hold[n].envelope = new[n].envelope /\ u.hold[n].amount = new[n].amount
             /\ u.hold[n].actual = 0 /\ u.hold[n].lease = Nil /\ ~ u.hold[n].replaced
             /\ u.hold[n].attempt = "reserved" /\ ~ u.hold[n].marked
             /\ u.hold[n].end = "none"
  <2>1. n \in Hold
    BY <1>2
  <2>2. /\ t.hold[n] = NoHold
        /\ u.hold[n] = [state |-> "held", version |-> new[n].version,
                        envelope |-> new[n].envelope, amount |-> new[n].amount,
                        actual |-> 0, lease |-> Nil, replaced |-> FALSE,
                        attempt |-> "reserved", marked |-> FALSE, end |-> "none"]
    BY <1>1, <2>1, ReservedFresh
  <2> HIDE DEF u
  <2> QED BY <2>2
<1>4. ASSUME NEW h \in Hold, h \notin DOMAIN new
      PROVE  /\ u.hold[h].state = t.hold[h].state
             /\ u.hold[h].version = t.hold[h].version
             /\ u.hold[h].envelope = t.hold[h].envelope
             /\ u.hold[h].amount = t.hold[h].amount
             /\ u.hold[h].actual = t.hold[h].actual
             /\ u.hold[h].lease = t.hold[h].lease
             /\ u.hold[h].attempt = t.hold[h].attempt
             /\ u.hold[h].marked = t.hold[h].marked
             /\ u.hold[h].end = t.hold[h].end
  BY <1>1, <1>4, ReservedBeside
<1> HIDE DEF u
<1> QED BY <1>2, <1>3, <1>4 DEF u

\* The envelope's totals stay the sums of its reservations when some are written.
LEMMA ReservedBalanced ==
    ASSUME NEW t, NEW S, Kept(t, S), NEW new, Reservable(t, new)
    PROVE  Balanced(Reserved(t, new))
<1> DEFINE u == Reserved(t, new)
           amounts(x) == [h \in Hold |-> x.hold[h].amount]
           actuals(x) == [h \in Hold |-> x.hold[h].actual]
           asked == [n \in DOMAIN new |-> new[n].amount]
           ofE(x, e) == {h \in Hold : x.hold[h].envelope = e}
           heldE(x, e) == {h \in ofE(x, e) : x.hold[h].state = "held"}
<1> SUFFICES ASSUME NEW e \in Envelope
             PROVE  /\ u.envelope[e].held = SumFunctionOnSet(amounts(u), heldE(u, e))
                    /\ u.envelope[e].actual = SumFunctionOnSet(actuals(u), ofE(u, e))
  BY Zenon DEF Balanced
<1> DEFINE N == NewIn(new, e)
<1>1. Shaped(t) /\ Typed(t)
  BY DEF Kept, MoneyKept
<1>2. /\ DOMAIN new \subseteq Hold
      /\ \A n \in DOMAIN new :
            /\ t.hold[n] = NoHold
            /\ u.hold[n].state = "held" /\ u.hold[n].envelope = new[n].envelope
            /\ u.hold[n].amount = new[n].amount /\ new[n].amount \in Nat
            /\ u.hold[n].actual = 0
      /\ \A h \in Hold \ DOMAIN new :
            /\ u.hold[h].state = t.hold[h].state /\ u.hold[h].envelope = t.hold[h].envelope
            /\ u.hold[h].amount = t.hold[h].amount /\ u.hold[h].actual = t.hold[h].actual
  BY ReservedHolds
<1>3. N \subseteq DOMAIN new /\ N \subseteq Hold /\ \A n \in N : new[n].envelope = e
  BY <1>2 DEF NewIn
<1>4. \A n \in DOMAIN new : t.hold[n].state = "none" /\ t.hold[n].envelope # e
  BY <1>2, NilAssumption DEF NoHold
<1>5. /\ u.envelope[e].held = t.envelope[e].held + SumFunctionOnSet(asked, N)
      /\ u.envelope[e].actual = t.envelope[e].actual
  BY <1>1, ReservedEnvelopes DEF Takes
<1>6. /\ t.envelope[e].held = SumFunctionOnSet(amounts(t), heldE(t, e))
      /\ t.envelope[e].actual = SumFunctionOnSet(actuals(t), ofE(t, e))
  BY Zenon DEF Kept, MoneyKept, Balanced
<1>7. SumFunctionOnSet(asked, N) \in Nat
  BY TakesType DEF Takes
<1>8. \A h \in Hold : /\ amounts(t)[h] \in Int /\ actuals(t)[h] \in Int
                      /\ amounts(u)[h] \in Int /\ actuals(u)[h] \in Int
  <2> SUFFICES ASSUME NEW h \in Hold
               PROVE  /\ amounts(t)[h] \in Int /\ actuals(t)[h] \in Int
                      /\ amounts(u)[h] \in Int /\ actuals(u)[h] \in Int
    OBVIOUS
  <2>1. t.hold[h].amount \in Int /\ t.hold[h].actual \in Int
    BY <1>1 DEF Typed, HoldRow
  <2> HIDE DEF u
  <2> QED BY <1>2, <2>1
<1> HIDE DEF u
<1>9. heldE(u, e) \ N = heldE(t, e) /\ ofE(u, e) \ N = ofE(t, e)
  <2>1. ASSUME NEW h \in Hold
        PROVE  /\ h \in heldE(u, e) \ N <=> h \in heldE(t, e)
               /\ h \in ofE(u, e) \ N <=> h \in ofE(t, e)
    <3>1. CASE h \in DOMAIN new
      BY <1>2, <1>3, <1>4, <3>1 DEF NewIn
    <3>2. CASE h \notin DOMAIN new
      BY <1>2, <1>3, <3>2
    <3> QED BY <3>1, <3>2
  <2> QED BY <2>1
<1>10. N \subseteq heldE(u, e) /\ N \subseteq ofE(u, e)
  BY <1>2, <1>3
<1>11. heldE(t, e) \cap DOMAIN new = {} /\ ofE(t, e) \cap DOMAIN new = {}
  BY <1>4
<1>12. IsFiniteSet(heldE(u, e)) /\ IsFiniteSet(ofE(u, e)) /\ IsFiniteSet(N)
       /\ IsFiniteSet(heldE(t, e)) /\ IsFiniteSet(ofE(t, e))
  BY <1>3, RowsAssumption, FS_Subset
<1>13. \A h \in N : asked[h] = amounts(u)[h] /\ actuals(u)[h] = 0
  BY <1>2, <1>3
<1>14. /\ \A h \in heldE(t, e) : amounts(u)[h] = amounts(t)[h]
       /\ \A h \in ofE(t, e) : actuals(u)[h] = actuals(t)[h]
  BY <1>2, <1>11
<1> HIDE DEF amounts, actuals, asked, N
<1>15. u.envelope[e].held = SumFunctionOnSet(amounts(u), heldE(u, e))
  <2>1. SumFunctionOnSet(amounts(u), heldE(u, e)) =
            SumFunctionOnSet(amounts(u), N) + SumFunctionOnSet(amounts(u), heldE(u, e) \ N)
    BY <1>8, <1>10, <1>12, SumOfParts
  <2>2. SumFunctionOnSet(amounts(u), heldE(u, e) \ N) = SumFunctionOnSet(amounts(u), heldE(t, e))
    BY <1>9, Zenon
  <2>3. SumFunctionOnSet(amounts(u), heldE(t, e)) = SumFunctionOnSet(amounts(t), heldE(t, e))
    BY <1>12, <1>14, SumSame
  <2>4. SumFunctionOnSet(asked, N) = SumFunctionOnSet(amounts(u), N)
    BY <1>12, <1>13, SumSame
  <2>5. SumFunctionOnSet(amounts(t), heldE(t, e)) \in Int
    BY <1>8, <1>12, SumType
  <2> QED BY <1>5, <1>6, <1>7, <2>1, <2>2, <2>3, <2>4, <2>5
<1>16. u.envelope[e].actual = SumFunctionOnSet(actuals(u), ofE(u, e))
  <2>1. SumFunctionOnSet(actuals(u), ofE(u, e)) =
            SumFunctionOnSet(actuals(u), N) + SumFunctionOnSet(actuals(u), ofE(u, e) \ N)
    BY <1>8, <1>10, <1>12, SumOfParts
  <2>2. SumFunctionOnSet(actuals(u), ofE(u, e) \ N) = SumFunctionOnSet(actuals(u), ofE(t, e))
    BY <1>9, Zenon
  <2>3. SumFunctionOnSet(actuals(u), ofE(t, e)) = SumFunctionOnSet(actuals(t), ofE(t, e))
    BY <1>12, <1>14, SumSame
  <2>4. SumFunctionOnSet(actuals(u), N) = 0
    BY <1>12, <1>13, SumOfZeroes
  <2>5. SumFunctionOnSet(actuals(t), ofE(t, e)) \in Int
    BY <1>8, <1>12, SumType
  <2> QED BY <1>5, <1>6, <2>1, <2>2, <2>3, <2>4, <2>5
<1> QED BY <1>15, <1>16

\* A reservation keeps the ledger: it is written for a version that is free of one,
\* whose earlier reservations it replaces.
LEMMA ReservedKeepsStops ==
    ASSUME NEW t, NEW S, Kept(t, S), NEW new, Reservable(t, new)
    PROVE  StopsKept(Reserved(t, new), S)
<1> DEFINE u == Reserved(t, new)
<1>1. Shaped(t) /\ Typed(t) /\ StopsKept(t, S)
  BY DEF Kept, MoneyKept
<1>2. u.lineage = t.lineage /\ u.version = t.version /\ u.lease = t.lease
  BY <1>1, ReservedColumns
<1>3. /\ DOMAIN new \subseteq Hold
      /\ \A n \in DOMAIN new :
            /\ t.hold[n] = NoHold /\ new[n].version \in Version
            /\ u.hold[n].state = "held" /\ u.hold[n].version = new[n].version
            /\ u.hold[n].lease = Nil /\ ~ u.hold[n].replaced
            /\ u.hold[n].attempt = "reserved" /\ ~ u.hold[n].marked
            /\ u.hold[n].end = "none"
      /\ \A h \in Hold \ DOMAIN new :
            /\ u.hold[h].state = t.hold[h].state /\ u.hold[h].version = t.hold[h].version
            /\ u.hold[h].lease = t.hold[h].lease /\ u.hold[h].attempt = t.hold[h].attempt
            /\ u.hold[h].marked = t.hold[h].marked /\ u.hold[h].end = t.hold[h].end
  BY ReservedHolds
<1>4. ASSUME NEW h \in Hold, h \notin DOMAIN new
      PROVE  /\ (\A n \in DOMAIN new : new[n].version # t.hold[h].version)
                   => u.hold[h] = t.hold[h]
             /\ ~ u.hold[h].replaced =>
                   /\ ~ t.hold[h].replaced
                   /\ \A n \in DOMAIN new : new[n].version # t.hold[h].version
  BY <1>1, <1>4, ReservedBeside
<1>5. \A n \in DOMAIN new :
         /\ ApprovalCurrent(t, new[n].version)
         /\ \A h \in Hold : t.hold[h].version = new[n].version =>
               t.hold[h].state # "held" /\ t.hold[h].end # "final"
  BY DEF Reservable, HeldOn
<1>6. \A n, m \in DOMAIN new : new[n].version = new[m].version => n = m
  BY DEF Reservable
<1> HIDE DEF u
<1>7. MarksHold(u)
  <2> SUFFICES ASSUME NEW h \in Hold
               PROVE  /\ u.hold[h].marked \/ u.hold[h].attempt = "dispatched" => u.hold[h].state = "held"
                      /\ u.hold[h].marked => u.hold[h].attempt \in {"dispatched", "liability_unknown"}
    BY DEF MarksHold
  <2>1. CASE h \in DOMAIN new
    BY <1>3, <2>1
  <2>2. CASE h \notin DOMAIN new
    BY <1>1, <1>3, <2>2 DEF StopsKept, MarksHold
  <2> QED BY <2>1, <2>2
<1>8. LeasesBound(u) /\ StopsEnd(u)
  <2> SUFFICES ASSUME NEW h \in Hold
               PROVE  /\ u.hold[h].lease # Nil =>
                            /\ u.hold[h].lease \in Lease
                            /\ t.lease[u.hold[h].lease].state # "none"
                            /\ t.lease[u.hold[h].lease].hold = h
                      /\ u.hold[h].end # "none" =>
                            /\ u.hold[h].lease # Nil
                            /\ t.lease[u.hold[h].lease].state # "live"
    BY <1>2 DEF LeasesBound, StopsEnd
  <2>1. CASE h \in DOMAIN new
    BY <1>3, <2>1
  <2>2. CASE h \notin DOMAIN new
    BY <1>1, <1>3, <2>2 DEF StopsKept, LeasesBound, StopsEnd
  <2> QED BY <2>1, <2>2
<1>9. NewestAlone(u)
  <2>1. NewestAlone(t)
    BY <1>1 DEF StopsKept
  <2>2. ASSUME NEW h \in Hold
        PROVE  /\ u.hold[h].state = "none" => u.hold[h] = NoHold
               /\ u.hold[h].state = "held" \/ u.hold[h].end = "final" => ~ u.hold[h].replaced
    <3>1. CASE h \in DOMAIN new
      BY <1>3, <3>1
    <3>2. CASE h \notin DOMAIN new
      <4>1. u.hold[h].state = "none" => u.hold[h] = NoHold
        <5>1. t.hold[h].state = "none" => t.hold[h] = NoHold
          BY <2>1 DEF NewestAlone
        <5> QED BY <1>3, <1>4, <3>2, <5>1, NilAssumption DEF NoHold
      <4>2. u.hold[h].state = "held" \/ u.hold[h].end = "final" => u.hold[h] = t.hold[h]
        BY <1>3, <1>4, <1>5, <3>2
      <4>3. t.hold[h].state = "held" \/ t.hold[h].end = "final" => ~ t.hold[h].replaced
        BY <2>1 DEF NewestAlone
      <4> QED BY <4>1, <4>2, <4>3
    <3> QED BY <3>1, <3>2
  <2>3. ASSUME NEW h \in Hold, NEW i \in Hold,
               u.hold[h].state # "none", u.hold[i].state # "none",
               u.hold[h].version = u.hold[i].version,
               ~ u.hold[h].replaced, ~ u.hold[i].replaced
        PROVE  h = i
    <3>1. CASE h \in DOMAIN new /\ i \in DOMAIN new
      BY <1>3, <1>6, <2>3, <3>1
    <3>2. CASE h \in DOMAIN new /\ i \notin DOMAIN new
      BY <1>3, <1>4, <2>3, <3>2
    <3>3. CASE h \notin DOMAIN new /\ i \in DOMAIN new
      BY <1>3, <1>4, <2>3, <3>3
    <3>4. CASE h \notin DOMAIN new /\ i \notin DOMAIN new
      <4>1. /\ t.hold[h].state # "none" /\ t.hold[i].state # "none"
            /\ t.hold[h].version = t.hold[i].version
            /\ ~ t.hold[h].replaced /\ ~ t.hold[i].replaced
        BY <1>3, <1>4, <2>3, <3>4
      <4> QED BY <2>1, <4>1 DEF NewestAlone
    <3> QED BY <3>1, <3>2, <3>3, <3>4
  <2> QED BY <2>2, <2>3 DEF NewestAlone
<1>10. EndedClassified(u, S)
  <2> SUFFICES ASSUME NEW h \in Hold \ S, u.hold[h].state = "held", Over(u, u.hold[h].version)
               PROVE  u.hold[h].attempt = "liability_unknown"
    BY DEF EndedClassified
  <2>1. Over(t, u.hold[h].version)
    BY <1>2 DEF Over
  <2>2. CASE h \in DOMAIN new
    <3>1. ApprovalCurrent(t, u.hold[h].version)
      BY <1>3, <1>5, <2>2
    <3> QED BY <2>1, <3>1 DEF Over, ApprovalCurrent
  <2>3. CASE h \notin DOMAIN new
    <3>1. t.hold[h].state = "held" /\ Over(t, t.hold[h].version)
      BY <1>3, <2>1, <2>3
    <3>2. t.hold[h].attempt = "liability_unknown"
      BY <1>1, <3>1 DEF StopsKept, EndedClassified
    <3> QED BY <1>3, <2>3, <3>2
  <2> QED BY <2>2, <2>3
<1>11. LineagesOpened(u)
  BY <1>1, <1>2 DEF StopsKept, LineagesOpened
<1> QED BY <1>7, <1>8, <1>9, <1>10, <1>11 DEF StopsKept, u

LEMMA ReservedKeepsLedger ==
    ASSUME NEW t, NEW S, Kept(t, S), NEW new, Reservable(t, new)
    PROVE  Kept(Reserved(t, new), S)
<1> DEFINE u == Reserved(t, new)
<1>1. Shaped(t) /\ Typed(t) /\ NewestAlone(t)
  BY DEF Kept, StopsKept, MoneyKept
<1>2. /\ u.lineage = t.lineage /\ u.version = t.version
      /\ u.lease = t.lease /\ u.call = t.call /\ DOMAIN u = DOMAIN t
      /\ u.hold = [h \in Hold |-> u.hold[h]]
      /\ u.envelope = [e \in Envelope |-> u.envelope[e]]
  BY <1>1, ReservedColumns
<1>3. /\ DOMAIN new \subseteq Hold
      /\ \A n \in DOMAIN new :
            /\ t.hold[n] = NoHold
            /\ new[n].version \in Version /\ new[n].envelope \in Envelope
            /\ new[n].amount \in Nat
            /\ u.hold[n].state = "held" /\ u.hold[n].version = new[n].version
            /\ u.hold[n].envelope = new[n].envelope /\ u.hold[n].amount = new[n].amount
            /\ u.hold[n].actual = 0 /\ u.hold[n].attempt = "reserved"
      /\ \A h \in Hold \ DOMAIN new :
            /\ u.hold[h].state = t.hold[h].state /\ u.hold[h].version = t.hold[h].version
            /\ u.hold[h].envelope = t.hold[h].envelope /\ u.hold[h].amount = t.hold[h].amount
            /\ u.hold[h].actual = t.hold[h].actual /\ u.hold[h].attempt = t.hold[h].attempt
  BY ReservedHolds
<1>4. ASSUME NEW h \in Hold PROVE u.hold[h] \in HoldRow
  BY <1>1, ReservedFresh, ReservedBeside
<1>5. ASSUME NEW e \in Envelope
      PROVE  /\ u.envelope[e] \in EnvelopeRow
             /\ u.envelope[e].state = t.envelope[e].state
             /\ u.envelope[e].task = t.envelope[e].task
  BY <1>1, ReservedEnvelopes
<1>6. Balanced(u)
  BY ReservedBalanced
<1>7. StopsKept(u, S)
  BY ReservedKeepsStops
<1>8. \A n \in DOMAIN new : /\ t.version[new[n].version].gate = "approved"
                            /\ t.envelope[new[n].envelope].state # "none"
  BY DEF Reservable, ApprovalCurrent
<1> HIDE DEF u
<1>9. Typed(u)
  BY <1>1, <1>2, <1>4, <1>5 DEF Typed
<1>10. Shaped(u)
  <2>1. \A h \in Hold : DOMAIN u.hold[h] = DOMAIN NoHold
    BY <1>4 DEF HoldRow, NoHold
  <2>2. DOMAIN u.hold = Hold /\ DOMAIN u.envelope = Envelope
    BY <1>2
  <2> QED BY <1>1, <1>2, <2>1, <2>2 DEF Shaped
<1>11. VersionsWritten(u)
  BY <1>2 DEF Kept, VersionsWritten
<1>12. HoldsApproved(u)
  <2> SUFFICES ASSUME NEW h \in Hold
               PROVE  /\ u.hold[h].state # "none" =>
                            u.hold[h].version \in Version /\ t.version[u.hold[h].version].gate = "approved"
                      /\ u.hold[h].state = "held" => u.hold[h].attempt # "abandoned"
    BY <1>2 DEF HoldsApproved
  <2>1. CASE h \in DOMAIN new
    BY <1>3, <1>8, <2>1
  <2>2. CASE h \notin DOMAIN new
    BY <1>3, <2>2 DEF Kept, HoldsApproved
  <2> QED BY <2>1, <2>2
<1>13. LineagesCurrent(u) /\ OneOpenEnvelope(u)
  BY <1>2, <1>5 DEF Kept, MoneyKept, LineagesCurrent, Current, Versions, OneOpenEnvelope
<1>14. RowsBound(u)
  <2>1. RowsBound(t)
    BY DEF Kept, MoneyKept
  <2>2. ASSUME NEW h \in Hold, u.hold[h].state # "none"
        PROVE  u.hold[h].envelope \in Envelope /\ u.envelope[u.hold[h].envelope].state # "none"
    <3>1. CASE h \in DOMAIN new
      BY <1>3, <1>5, <1>8, <3>1
    <3>2. CASE h \notin DOMAIN new
      BY <1>3, <1>5, <2>1, <2>2, <3>2 DEF RowsBound
    <3> QED BY <3>1, <3>2
  <2>3. ASSUME NEW c \in Call
        PROVE  IF u.call[c].state = "none" THEN u.call[c].hold = Nil
               ELSE u.call[c].hold \in Hold /\ u.hold[u.call[c].hold].state # "none"
    <3>1. \A h \in Hold : t.hold[h].state # "none" => u.hold[h].state # "none"
      BY <1>3
    <3> QED BY <1>2, <2>1, <3>1 DEF RowsBound
  <2> QED BY <2>2, <2>3 DEF RowsBound
<1>15. HoldsPay(u)
  <2>1. \A h \in Hold : /\ Spent(u, h) = Spent(t, h) /\ CallsTaken(u, h) = CallsTaken(t, h)
                        /\ OpenCall(u, h) <=> OpenCall(t, h)
    BY <1>2, Zenon DEF Spent, CallsTaken, OpenCall, CallsOn
  <2>2. HoldsPay(t) /\ RowsBound(t)
    BY DEF Kept, MoneyKept
  <2> SUFFICES ASSUME NEW h \in Hold
               PROVE  /\ u.hold[h].state = "held" =>
                            u.hold[h].actual = 0 /\ CallsTaken(t, h) <= u.hold[h].amount
                      /\ u.hold[h].state \in {"abandoned", "actual"} =>
                            ~ OpenCall(t, h) /\ u.hold[h].actual = Spent(t, h)
    BY <2>1 DEF HoldsPay
  <2>3. CASE h \in DOMAIN new
    <3>1. CallsOn(t, h) = {}
      BY <1>3, <2>2, <2>3, NilAssumption DEF CallsOn, RowsBound, NoHold
    <3>2. /\ {c \in CallsOn(t, h) : t.call[c].state = "settled"} = {}
          /\ {c \in CallsOn(t, h) : t.call[c].state \in {"reserved", "dispatched", "liability_unknown"}} = {}
      BY <3>1
    <3>3. CallsTaken(t, h) = 0 + 0
      BY <3>2, SumOfNothing, Zenon DEF CallsTaken, Spent
    <3> QED BY <1>3, <2>3, <3>3
  <2>4. CASE h \notin DOMAIN new
    BY <1>3, <2>2, <2>4 DEF HoldsPay
  <2> QED BY <2>3, <2>4
<1>16. Kept(u, S)
  BY <1>6, <1>7, <1>9, <1>10, <1>11, <1>12, <1>13, <1>14, <1>15 DEF Kept, MoneyKept
<1> QED BY <1>16 DEF u

\* An envelope nothing is reserved in has neither held nor paid anything.
LEMMA FreshEnvelope ==
    ASSUME NEW t, NEW S, Kept(t, S), NEW e \in Envelope, t.envelope[e].state = "none"
    PROVE  /\ \A h \in Hold : t.hold[h].envelope # e
           /\ t.envelope[e].held = 0 /\ t.envelope[e].actual = 0
<1>1. \A h \in Hold : t.hold[h].envelope # e
  <2>1. \A h \in Hold : t.hold[h].state = "none" => t.hold[h] = NoHold
    BY DEF Kept, StopsKept, NewestAlone
  <2>2. \A h \in Hold : t.hold[h].state # "none" => t.envelope[t.hold[h].envelope].state # "none"
    BY DEF Kept, MoneyKept, RowsBound
  <2> QED BY <2>1, <2>2, NilAssumption DEF NoHold
<1> DEFINE ofE == {h \in Hold : t.hold[h].envelope = e}
<1>2. ofE = {} /\ {h \in ofE : t.hold[h].state = "held"} = {}
  BY <1>1
<1>3. /\ t.envelope[e].held =
            SumFunctionOnSet([h \in Hold |-> t.hold[h].amount], {h \in ofE : t.hold[h].state = "held"})
      /\ t.envelope[e].actual = SumFunctionOnSet([h \in Hold |-> t.hold[h].actual], ofE)
  BY Zenon DEF Kept, MoneyKept, Balanced
<1> HIDE DEF ofE
<1>4. t.envelope[e].held = 0 /\ t.envelope[e].actual = 0
  BY <1>2, <1>3, SumOfNothing, Zenon
<1> QED BY <1>1, <1>4

\* One reservation within its room keeps every ceiling (decide.ts reserve).
LEMMA ReservingOneKeepsCeilings ==
    ASSUME NEW t, NEW S, Kept(t, S), Ceilings(t), NEW n, NEW new, DOMAIN new = {n},
           Reservable(t, new), Room(t, new[n].envelope, new[n].amount)
    PROVE  Ceilings(Reserved(t, new))
<1> DEFINE u == Reserved(t, new)
           d == new[n].envelope
           amount == new[n].amount
           asked == [m \in DOMAIN new |-> new[m].amount]
           stands(x) == [e \in Envelope |-> x.envelope[e].held + x.envelope[e].actual]
           rest == Envelope \ {d}
<1>1. Shaped(t) /\ Typed(t)
  BY DEF Kept, MoneyKept
<1>2. d \in Envelope /\ amount \in Nat
  BY DEF Reservable
<1>3. \A e \in Envelope : /\ u.envelope[e].maximum = t.envelope[e].maximum
                          /\ u.envelope[e].actual = t.envelope[e].actual
                          /\ u.envelope[e].held = t.envelope[e].held + Takes(new, e)
  BY <1>1, ReservedEnvelopes
<1>4. \A e \in Envelope : /\ t.envelope[e].held \in Int /\ t.envelope[e].actual \in Int
                          /\ t.envelope[e].maximum \in Nat
  BY <1>1 DEF Typed, EnvelopeRow
<1>5. Takes(new, d) = amount
  <2>1. NewIn(new, d) = {n} /\ {n} \ {n} = {} /\ asked[n] = amount
    BY DEF NewIn
  <2>2. IsFiniteSet({n})
    BY FS_Singleton
  <2>3. amount \in Int
    BY <1>2
  <2> HIDE DEF asked, amount, d
  <2>4. SumFunctionOnSet(asked, {n}) = asked[n] + SumFunctionOnSet(asked, {n} \ {n})
    BY <2>1, <2>2, <2>3, SumWithout
  <2>5. SumFunctionOnSet(asked, {n} \ {n}) = 0
    BY <2>1, SumOfNothing, Zenon
  <2>6. SumFunctionOnSet(asked, {n}) = amount
    BY <2>1, <2>3, <2>4, <2>5
  <2> QED BY <2>1, <2>6, Zenon DEF Takes, asked
<1>6. ASSUME NEW e \in Envelope, e # d PROVE Takes(new, e) = 0
  <2>1. NewIn(new, e) = {}
    BY <1>6 DEF NewIn
  <2> QED BY <2>1, SumOfNothing, Zenon DEF Takes
<1>7. /\ t.envelope[d].held + t.envelope[d].actual + amount <= t.envelope[d].maximum
      /\ Committed(t) + amount <= CapLimit
  BY DEF Room, EnvelopeFits, CapFits
<1> HIDE DEF u, d, amount
<1>8. \A e \in Envelope : u.envelope[e].held + u.envelope[e].actual <= u.envelope[e].maximum
  <2> SUFFICES ASSUME NEW e \in Envelope
               PROVE  u.envelope[e].held + u.envelope[e].actual <= u.envelope[e].maximum
    OBVIOUS
  <2>1. CASE e = d
    BY <1>2, <1>3, <1>4, <1>5, <1>7, <2>1
  <2>2. CASE e # d
    <3>1. t.envelope[e].held + t.envelope[e].actual <= t.envelope[e].maximum
      BY DEF Ceilings
    <3> QED BY <1>3, <1>4, <1>6, <2>2, <3>1
  <2> QED BY <2>1, <2>2
<1>9. Committed(u) <= CapLimit
  <2>1. IsFiniteSet(Envelope) /\ IsFiniteSet(rest)
    BY RowsAssumption, FS_Subset
  <2>2. \A e \in Envelope : stands(t)[e] \in Int /\ stands(u)[e] \in Int
    <3> SUFFICES ASSUME NEW e \in Envelope PROVE stands(t)[e] \in Int /\ stands(u)[e] \in Int
      OBVIOUS
    <3>1. CASE e = d
      BY <1>2, <1>3, <1>4, <1>5, <3>1
    <3>2. CASE e # d
      BY <1>3, <1>4, <1>6, <3>2
    <3> QED BY <3>1, <3>2
  <2>3. stands(u)[d] = stands(t)[d] + amount
    BY <1>2, <1>3, <1>4, <1>5
  <2>4. \A e \in rest : stands(u)[e] = stands(t)[e]
    BY <1>3, <1>4, <1>6
  <2>5. Committed(t) = SumFunctionOnSet(stands(t), Envelope)
        /\ Committed(u) = SumFunctionOnSet(stands(u), Envelope)
    BY Zenon DEF Committed
  <2> HIDE DEF stands
  <2>6. /\ SumFunctionOnSet(stands(t), Envelope) =
              stands(t)[d] + SumFunctionOnSet(stands(t), Envelope \ {d})
        /\ SumFunctionOnSet(stands(u), Envelope) =
              stands(u)[d] + SumFunctionOnSet(stands(u), Envelope \ {d})
    BY <1>2, <2>1, <2>2, SumWithout
  <2>7. SumFunctionOnSet(stands(u), rest) = SumFunctionOnSet(stands(t), rest)
    BY <2>1, <2>4, SumSame
  <2>8. SumFunctionOnSet(stands(t), rest) \in Int
    BY <2>1, <2>2, SumType
  <2>9. Committed(u) = Committed(t) + amount
    BY <1>2, <2>2, <2>3, <2>5, <2>6, <2>7, <2>8
  <2> QED BY <1>7, <2>9
<1> QED BY <1>8, <1>9 DEF Ceilings, u

(***************************************************************************)
(* Claims.                                                                 *)
(***************************************************************************)
\* The next fence of a task is past every one it has given.
LEMMA NextFenceType ==
    ASSUME NEW t, Typed(t), NEW k
    PROVE  NextFence(t, k) \in Nat
<1> DEFINE f == [x \in Lease |-> t.lease[x].fence]
           L == {y \in Lease : t.lease[y].task = k}
           F == {0} \cup {f[x] : x \in L}
<1>1. \A x \in Lease : f[x] \in Nat
  BY DEF Typed, LeaseRow
<1>2. {t.lease[x].fence : x \in L} = {f[x] : x \in L}
  OBVIOUS
<1>3. IsFiniteSet(L)
  BY RowsAssumption, FS_Subset
<1>4. \A x \in L : f[x] \in Nat
  BY <1>1
<1>5. F \subseteq Nat
  BY <1>4
<1>6. NextFence(t, k) = Max(F) + 1
  BY <1>2, Zenon DEF NextFence
<1> HIDE DEF f, L
<1>7. \E m \in F : \A y \in F : m >= y
  BY <1>3, <1>4, GreatestOfColumn
<1> HIDE DEF F
<1>8. Max(F) \in F
  BY <1>7 DEF Max
<1>9. Max(F) \in Nat
  BY <1>5, <1>8
<1> QED BY <1>6, <1>9

\* A claim of a held hold no lease is bound to.
LEMMA LeaseTakenKeepsLedger ==
    ASSUME NEW t, Kept(t, {}), NEW h \in Hold, NEW x \in Lease, NEW agent \in BOOLEAN,
           t.hold[h].state = "held", t.hold[h].lease = Nil,
           t.lease[x].state = "none",
           ApprovalCurrent(t, t.hold[h].version)
    PROVE  LET u == LeaseTaken(t, h, x, agent) IN Kept(u, {}) /\ NoMore(t, u)
<1> DEFINE u == LeaseTaken(t, h, x, agent)
           v == t.hold[h].version
           k == TaskOf(t, v)
           fence == NextFence(t, k)
           minted == IF agent THEN "live" ELSE "none"
           row == [state |-> "live", task |-> k, hold |-> h, fence |-> fence,
                   lapsed |-> FALSE, delegation |-> minted, settled |-> 0]
           claimed == [t.hold[h] EXCEPT !.lease = x, !.attempt = "dispatched"]
           ran == [t.version[v] EXCEPT !.run = "claimed"]
<1>1. Shaped(t) /\ Typed(t) /\ VersionsWritten(t) /\ HoldsApproved(t) /\ StopsKept(t, {})
      /\ MoneyKept(t)
  BY DEF Kept, MoneyKept
<1>2. /\ u.lineage = t.lineage /\ u.call = t.call /\ u.envelope = t.envelope
      /\ u.lease = [t.lease EXCEPT ![x] = row]
      /\ u.hold = [t.hold EXCEPT ![h] = claimed]
      /\ u.version = [t.version EXCEPT ![v] = ran]
      /\ DOMAIN u = DOMAIN t
  BY <1>1 DEF Shaped, LeaseTaken
<1>3. v \in Version /\ t.version[v].gate = "approved"
  BY <1>1 DEF HoldsApproved
<1>4. t.version[v].state = "current" /\ t.version[v].lineage \in Lineage
      /\ t.lineage[t.version[v].lineage].state = "live"
  BY <1>1, <1>3 DEF ApprovalCurrent, VersionsWritten
<1>5. k \in Task \cup {Nil}
  BY <1>1, <1>4 DEF TaskOf, Typed, LineageRow
<1>6. NextFence(t, k) \in Nat
  BY <1>1, NextFenceType
<1>7. t.hold[h] \in HoldRow /\ t.version[v] \in VersionRow
  BY <1>1, <1>3 DEF Typed
<1>8. t.hold[h].end = "none" /\ ~ (t.hold[h].attempt = "liability_unknown" /\ t.hold[h].end # "none")
  BY <1>1 DEF StopsKept, StopsEnd
<1>9. \A i \in Hold : t.hold[i].lease # x
  BY <1>1, NilAssumption DEF StopsKept, LeasesBound
<1>10. x # Nil
  BY NilAssumption
<1>11. row.state = "live" /\ row.hold = h
  OBVIOUS
<1>12. row \in LeaseRow /\ DOMAIN row = DOMAIN NoLease
  <2>1. fence \in Nat /\ minted \in {"none", "live", "settled", "revoked"}
    BY <1>6
  <2> HIDE DEF fence, minted, k
  <2> QED BY <1>5, <2>1 DEF LeaseRow, NoLease
<1>13. /\ claimed \in HoldRow /\ DOMAIN claimed = DOMAIN NoHold
       /\ claimed.state = "held" /\ claimed.version = v /\ claimed.lease = x
       /\ claimed.envelope = t.hold[h].envelope /\ claimed.amount = t.hold[h].amount
       /\ claimed.actual = t.hold[h].actual /\ claimed.replaced = t.hold[h].replaced
       /\ claimed.attempt = "dispatched" /\ claimed.marked = t.hold[h].marked
       /\ claimed.end = t.hold[h].end
  BY <1>7 DEF HoldRow, NoHold, AttemptStates
<1>14. /\ ran \in VersionRow /\ DOMAIN ran = DOMAIN NoVersion /\ ran.state = t.version[v].state
       /\ ran.lineage = t.version[v].lineage /\ ran.gate = t.version[v].gate
  BY <1>7 DEF VersionRow, NoVersion, RunStates
<1> HIDE DEF u, row, claimed, ran, k, fence, minted
<1>15. /\ u.lease \in [Lease -> LeaseRow] /\ u.lease[x] = row
       /\ \A y \in Lease : y # x => u.lease[y] = t.lease[y]
  BY <1>1, <1>2, <1>12 DEF Typed
<1>16. /\ u.hold \in [Hold -> HoldRow] /\ u.hold[h] = claimed
       /\ \A i \in Hold : i # h => u.hold[i] = t.hold[i]
  BY <1>1, <1>2, <1>13 DEF Typed
<1>17. /\ u.version \in [Version -> VersionRow]
       /\ \A w \in Version : /\ u.version[w].state = t.version[w].state
                             /\ u.version[w].lineage = t.version[w].lineage
                             /\ u.version[w].gate = t.version[w].gate
                             /\ DOMAIN u.version[w] = DOMAIN NoVersion
  <2>1. u.version[v] = ran /\ \A w \in Version : w # v => u.version[w] = t.version[w]
    BY <1>1, <1>2, <1>3 DEF Typed
  <2>2. u.version \in [Version -> VersionRow]
    BY <1>1, <1>2, <1>14 DEF Typed
  <2> QED BY <1>1, <1>14, <2>1, <2>2 DEF Shaped
<1>18. Typed(u)
  BY <1>1, <1>2, <1>15, <1>16, <1>17 DEF Typed
<1>19. Shaped(u)
  BY <1>1, <1>2, <1>12, <1>13, <1>15, <1>16, <1>17 DEF Shaped
<1>20. VersionsWritten(u)
  BY <1>1, <1>17 DEF VersionsWritten
<1>21. HoldsApproved(u)
  BY <1>1, <1>3, <1>13, <1>16, <1>17 DEF HoldsApproved
<1>22. SameVersions(t, u)
  BY <1>2, <1>17 DEF SameVersions
<1>23. SameReservations(t, u)
  BY <1>13, <1>16 DEF SameReservations
<1>24. CallsClose(t, u)
  BY <1>2, SameCallsClose
<1>25. MoneyKept(u) /\ NoMore(t, u)
  BY <1>1, <1>2, <1>18, <1>22, <1>23, <1>24, SteadyKeepsMoney DEF MoneySteady
<1>26. MarksHold(u)
  BY <1>1, <1>13, <1>16 DEF StopsKept, MarksHold
<1>27. LeasesBound(u)
  <2>1. LeasesBound(t)
    BY <1>1 DEF StopsKept
  <2> QED BY <1>9, <1>11, <1>13, <1>15, <1>16, <2>1 DEF LeasesBound
<1>28. StopsEnd(u)
  <2>1. StopsEnd(t) /\ LeasesBound(t)
    BY <1>1 DEF StopsKept
  <2> QED BY <1>8, <1>9, <1>13, <1>15, <1>16, <2>1 DEF StopsEnd, LeasesBound
<1>29. NewestAlone(u)
  <2>1. NewestAlone(t)
    BY <1>1 DEF StopsKept
  <2>2. \A i \in Hold : /\ u.hold[i].state = t.hold[i].state /\ u.hold[i].end = t.hold[i].end
                        /\ u.hold[i].version = t.hold[i].version
                        /\ u.hold[i].replaced = t.hold[i].replaced
                        /\ t.hold[i].state = "none" => u.hold[i] = t.hold[i]
    BY <1>13, <1>16
  <2> QED BY <2>1, <2>2 DEF NewestAlone
<1>30. EndedClassified(u, {})
  <2> SUFFICES ASSUME NEW i \in Hold, u.hold[i].state = "held", Over(u, u.hold[i].version)
               PROVE  u.hold[i].attempt = "liability_unknown"
    BY DEF EndedClassified
  <2>1. u.hold[i].version = t.hold[i].version /\ t.hold[i].state = "held"
    BY <1>13, <1>16
  <2>2. t.hold[i].version \in Version
    BY <1>1, <2>1 DEF HoldsApproved
  <2>3. Over(t, t.hold[i].version)
    <3> DEFINE w == t.hold[i].version
    <3>1. u.version[w].state = t.version[w].state /\ u.version[w].lineage = t.version[w].lineage
      BY <1>17, <2>2
    <3>2. Over(u, w)
      BY <2>1
    <3> HIDE DEF w
    <3> QED BY <1>2, <3>1, <3>2 DEF Over, w
  <2>4. i # h
    BY <1>4, <2>3 DEF Over
  <2> QED BY <1>1, <1>16, <2>1, <2>3, <2>4 DEF StopsKept, EndedClassified
<1>31. LineagesOpened(u)
  BY <1>1, <1>2, <1>17 DEF StopsKept, LineagesOpened
<1>32. Kept(u, {})
  BY <1>19, <1>20, <1>21, <1>25, <1>26, <1>27, <1>28, <1>29, <1>30, <1>31 DEF Kept, StopsKept
<1> QED BY <1>25, <1>32 DEF u

(***************************************************************************)
(* A dropped attempt and its resumption.                                   *)
(***************************************************************************)
\* What the holds R leave of their money in an envelope.
LeftIn(t, R, e) ==
    SumFunctionOnSet([h \in Hold |-> Left(t, h)], {h \in R : t.hold[h].envelope = e})

\* The holds a classification closes leave no more than it gives back: each
\* resumption asks for what its own close released.
LEMMA ClassifiedLeavesRoom ==
    ASSUME NEW t, NEW S, Kept(t, S), NEW H \in SUBSET Hold, NEW R \in SUBSET H,
           \A h \in R : t.hold[h].state = "held" /\ Classified(t, H).hold[h].attempt = "abandoned",
           NEW e \in Envelope
    PROVE  LET u == Classified(t, H) IN
           /\ u.envelope[e].maximum = t.envelope[e].maximum
           /\ LeftIn(u, R, e) \in Int
           /\ u.envelope[e].held + u.envelope[e].actual + LeftIn(u, R, e)
                 <= t.envelope[e].held + t.envelope[e].actual
<1> DEFINE u == Classified(t, H)
           C == ClosedOf(t, H, e)
           lefts == [h \in Hold |-> Left(u, h)]
           I == {h \in R : u.hold[h].envelope = e}
           same == [h \in Hold |-> h]
<1>1. Typed(t)
  BY DEF Kept, MoneyKept
<1>2. u.envelope[e].maximum = t.envelope[e].maximum /\ u.envelope[e] \in EnvelopeRow
  BY ClassifiedMoves
<1>3. /\ SumFunctionOnSet(GivenBack(t), C) \in Nat
      /\ u.envelope[e].held + u.envelope[e].actual =
            t.envelope[e].held + t.envelope[e].actual - SumFunctionOnSet(GivenBack(t), C)
  BY ClassifiedGivesBack
<1>4. t.envelope[e].held \in Int /\ t.envelope[e].actual \in Int
  BY <1>1 DEF Typed, EnvelopeRow
<1>5. ASSUME NEW h \in I
      PROVE  /\ h \in C
             /\ lefts[h] = GivenBack(t)[h]
  <2>1. h \in H /\ h \in Hold /\ t.hold[h].state = "held" /\ u.hold[h].attempt = "abandoned"
    OBVIOUS
  <2>2. /\ u.hold[h].envelope = t.hold[h].envelope /\ u.hold[h].amount = t.hold[h].amount
        /\ h \in H /\ Releases(t, h) => u.hold[h].actual = Spent(t, h)
        /\ h \in H /\ t.hold[h].state = "held" /\ ~ Releases(t, h) =>
              u.hold[h].attempt = "liability_unknown"
    BY <2>1, ClassifiedRows
  <2> HIDE DEF u
  <2>3. Releases(t, h) /\ t.hold[h].envelope = e /\ u.hold[h].actual = Spent(t, h)
    BY <2>1, <2>2
  <2> QED BY <2>1, <2>2, <2>3 DEF ClosedOf, GivenBack, Left
<1>6. C \subseteq Hold /\ \A h \in C : t.hold[h].state = "held"
  BY DEF ClosedOf, Releases
<1>7. \A h \in C : GivenBack(t)[h] \in Nat
  BY <1>6, GivenBackType
<1>8. IsFiniteSet(C) /\ IsFiniteSet(I)
  BY <1>6, RowsAssumption, FS_Subset
<1>9. \A h \in I : same[h] = h
  OBVIOUS
<1>10. LeftIn(u, R, e) = SumFunctionOnSet(lefts, I)
  BY Zenon DEF LeftIn
<1> HIDE DEF u, C, lefts, I, same
<1>11. SumFunctionOnSet(lefts, I) <= SumFunctionOnSet(GivenBack(t), C)
  <2>1. \A h \in I : same[h] \in C /\ lefts[h] = GivenBack(t)[same[h]]
    BY <1>5, <1>9
  <2>2. \A h, i \in I : same[h] = same[i] => h = i
    BY <1>9
  <2> QED BY <1>7, <1>8, <2>1, <2>2, SumInjected
<1>12. SumFunctionOnSet(lefts, I) \in Int
  <2>1. \A h \in I : lefts[h] \in Int
    BY <1>5, <1>7
  <2> QED BY <1>8, <2>1, SumType
<1>13. u.envelope[e].held \in Int /\ u.envelope[e].actual \in Int
  BY <1>2 DEF EnvelopeRow
<1> QED BY <1>2, <1>3, <1>4, <1>10, <1>11, <1>12, <1>13 DEF u

\* What each resumption is written with.
Renewed(t, f) ==
    [n \in {f[h] : h \in DOMAIN f} |->
        [version |-> t.hold[CHOOSE h \in DOMAIN f : f[h] = n].version,
         envelope |-> t.hold[CHOOSE h \in DOMAIN f : f[h] = n].envelope,
         amount |-> Left(t, CHOOSE h \in DOMAIN f : f[h] = n)]]

\* So the resumptions take no more from an envelope than the dropped holds left.
LEMMA RenewedTakes ==
    ASSUME NEW t, Typed(t), NEW R \in SUBSET Hold, NEW f, DOMAIN f = R,
           \A h, i \in R : f[h] = f[i] => h = i,
           \A h \in R : f[h] \in Hold /\ Left(t, h) > 0,
           NEW e
    PROVE  Takes(Renewed(t, f), e) <= LeftIn(t, R, e)
<1> DEFINE new == Renewed(t, f)
           old == [n \in {f[h] : h \in DOMAIN f} |-> CHOOSE h \in DOMAIN f : f[h] = n]
           asked == [n \in DOMAIN new |-> new[n].amount]
           lefts == [h \in Hold |-> Left(t, h)]
           N == NewIn(new, e)
           I == {h \in R : t.hold[h].envelope = e}
<1>1. DOMAIN new = {f[h] : h \in R}
  BY DEF Renewed
<1>2. ASSUME NEW n \in DOMAIN new
      PROVE  /\ n \in Hold /\ old[n] \in R /\ f[old[n]] = n
             /\ new[n].envelope = t.hold[old[n]].envelope
             /\ new[n].amount = Left(t, old[n])
  <2>1. PICK h \in R : f[h] = n
    BY <1>1
  <2>2. old[n] = CHOOSE i \in R : f[i] = n
    BY <1>1
  <2>3. old[n] \in R /\ f[old[n]] = n
    BY <2>1, <2>2
  <2>4. new[n] = [version |-> t.hold[old[n]].version, envelope |-> t.hold[old[n]].envelope,
                  amount |-> Left(t, old[n])]
    BY <1>1 DEF Renewed
  <2> HIDE DEF new, old
  <2> QED BY <2>1, <2>3, <2>4
<1>3. Takes(new, e) = SumFunctionOnSet(asked, N) /\ LeftIn(t, R, e) = SumFunctionOnSet(lefts, I)
  BY Zenon DEF Takes, LeftIn
<1>4. \A h \in I : lefts[h] \in Nat
  <2> SUFFICES ASSUME NEW h \in I PROVE lefts[h] \in Nat
    OBVIOUS
  <2>1. t.hold[h].amount \in Int /\ t.hold[h].actual \in Int
    BY DEF Typed, HoldRow
  <2>2. Left(t, h) > 0 /\ h \in Hold
    OBVIOUS
  <2> QED BY <2>1, <2>2 DEF Left
<1> HIDE DEF new, old
<1>5. \A n \in N : old[n] \in I /\ asked[n] = lefts[old[n]]
  BY <1>2 DEF NewIn
<1>6. \A n, m \in N : old[n] = old[m] => n = m
  BY <1>2 DEF NewIn
<1>7. N \subseteq Hold
  BY <1>2 DEF NewIn
<1>8. IsFiniteSet(N) /\ IsFiniteSet(I)
  BY <1>7, RowsAssumption, FS_Subset
<1> HIDE DEF asked, lefts, N, I
<1>9. SumFunctionOnSet(asked, N) <= SumFunctionOnSet(lefts, I)
  BY <1>4, <1>5, <1>6, <1>8, SumInjected
<1> QED BY <1>3, <1>9 DEF new

\* A drop keeps the ledger: its holds closed with room for what they left, in
\* tables w before they closed, and none of their versions stopped for good.
LEMMA DroppedKeepsLedger ==
    ASSUME NEW t, NEW w, NEW S, Kept(t, S), Typed(w),
           NEW H \in SUBSET Hold, NEW f, NEW retire \in BOOLEAN,
           f \in Injection(Resuming(t, H), FreshHolds(t)),
           \A h \in Resuming(t, H) :
              /\ t.hold[h].state # "none" /\ HeldOn(t, {t.hold[h].version}) = {}
              /\ \A i \in Hold : t.hold[i].version = t.hold[h].version => t.hold[i].end # "final",
           \A h, i \in Resuming(t, H) : t.hold[h].version = t.hold[i].version => h = i,
           \A e \in Envelope :
              /\ t.envelope[e].maximum = w.envelope[e].maximum
              /\ LeftIn(t, Resuming(t, H), e) \in Int
              /\ t.envelope[e].held + t.envelope[e].actual + LeftIn(t, Resuming(t, H), e)
                    <= w.envelope[e].held + w.envelope[e].actual
    PROVE  LET u == Dropped(t, H, f, retire) IN Kept(u, S) /\ NoMore(w, u)
<1> DEFINE R == Resuming(t, H)
           dropped == [t EXCEPT !.hold = [h \in Hold |->
                IF h \in Dropping(t, H) THEN [t.hold[h] EXCEPT !.attempt = "dropped"] ELSE t.hold[h]]]
           revoke(V) == IF retire THEN LeasesOf(t, V) ELSE {}
           spent == StoppedSpent(dropped, Exhausted(t, H), revoke(Exhausted(t, H)))
           new == Renewed(t, f)
           again == Reserved(spent, new)
           u == Revoked(again, revoke(DOMAIN f))
<1>1. Dropped(t, H, f, retire) = u
  BY DEF Dropped, Renewed
<1>2. Kept(dropped, S) /\ NoMore(t, dropped) /\ Ends(t, dropped, {}, {}) /\ HoldsStay(t, dropped)
  BY DropMarkedKeepsLedger
<1> HIDE DEF dropped, revoke
<1>3. /\ Kept(spent, S) /\ NoMore(dropped, spent)
      /\ Ends(dropped, spent, LeasesOf(dropped, Exhausted(t, H)), {}) /\ HoldsStay(dropped, spent)
  BY <1>2, StoppedSpentKeepsLedger
<1> HIDE DEF spent
<1>4. Typed(t) /\ Typed(dropped) /\ Typed(spent) /\ Shaped(spent) /\ RowsBound(spent)
  BY <1>2, <1>3 DEF Kept, MoneyKept
<1>5. NoMore(t, spent)
  BY <1>2, <1>3, <1>4, NoMoreTransitive
<1>6. SameApprovals(t, spent)
  BY <1>2, <1>3 DEF Ends, SameApprovals
<1>7. \A h \in Hold : /\ spent.hold[h].state = t.hold[h].state
                      /\ spent.hold[h].version = t.hold[h].version
                      /\ spent.hold[h].envelope = t.hold[h].envelope
                      /\ spent.hold[h].end = "final" => t.hold[h].end = "final"
  BY <1>2, <1>3 DEF HoldsStay
<1>8. /\ DOMAIN f = R /\ R \subseteq Hold
      /\ \A h \in R : f[h] \in FreshHolds(t) /\ f[h] \in Hold
      /\ \A h, i \in R : f[h] = f[i] => h = i
  BY DEF Injection, IsInjective, FreshHolds, Resuming, Dropping
<1>9. \A h \in R : ApprovalCurrent(t, t.hold[h].version) /\ Left(t, h) > 0
  BY DEF Resuming
<1>10. \A h \in R :
          /\ t.hold[h].state # "none" /\ HeldOn(t, {t.hold[h].version}) = {}
          /\ \A i \in Hold : t.hold[i].version = t.hold[h].version => t.hold[i].end # "final"
  OBVIOUS
<1>11. \A h, i \in R : t.hold[h].version = t.hold[i].version => h = i
  OBVIOUS
<1>12. ASSUME NEW e \in Envelope
       PROVE  /\ t.envelope[e].maximum = w.envelope[e].maximum
              /\ LeftIn(t, R, e) \in Int
              /\ t.envelope[e].held + t.envelope[e].actual + LeftIn(t, R, e)
                    <= w.envelope[e].held + w.envelope[e].actual
  OBVIOUS
<1> HIDE DEF R
<1>13. ASSUME NEW n \in DOMAIN new
       PROVE  \E h \in R : /\ f[h] = n
                           /\ new[n].version = t.hold[h].version
                           /\ new[n].envelope = t.hold[h].envelope
                           /\ new[n].amount = Left(t, h)
  <2> DEFINE old == CHOOSE h \in DOMAIN f : f[h] = n
  <2>1. n \in {f[h] : h \in DOMAIN f}
    BY DEF Renewed
  <2>2. old \in R /\ f[old] = n
    BY <1>8, <2>1
  <2>3. new[n] = [version |-> t.hold[old].version, envelope |-> t.hold[old].envelope,
                  amount |-> Left(t, old)]
    BY <2>1 DEF Renewed
  <2> HIDE DEF new, old
  <2> QED BY <2>2, <2>3
<1> HIDE DEF new
<1>14. ASSUME NEW n \in DOMAIN new
       PROVE  /\ n \in FreshHolds(spent)
              /\ new[n].version \in Version
              /\ ApprovalCurrent(spent, new[n].version)
              /\ HeldOn(spent, {new[n].version}) = {}
              /\ \A h \in Hold : spent.hold[h].version = new[n].version => spent.hold[h].end # "final"
              /\ new[n].envelope \in Envelope
              /\ spent.envelope[new[n].envelope].state # "none"
              /\ new[n].amount \in Nat
  <2>1. PICK h \in R : /\ f[h] = n
                       /\ new[n].version = t.hold[h].version
                       /\ new[n].envelope = t.hold[h].envelope
                       /\ new[n].amount = Left(t, h)
    BY <1>13
  <2>2. h \in Hold /\ t.hold[h].state # "none"
    BY <1>8, <1>10
  <2>3. n \in FreshHolds(spent)
    BY <1>7, <1>8, <2>1 DEF FreshHolds
  <2>4. t.hold[h].version \in Version
    BY <2>2 DEF Kept, HoldsApproved
  <2>5. ApprovalCurrent(spent, t.hold[h].version)
    BY <1>6, <1>9, <2>4 DEF ApprovalCurrent, SameApprovals
  <2>6. HeldOn(spent, {t.hold[h].version}) = {}
    BY <1>7, <1>10 DEF HeldOn
  <2>7. \A i \in Hold : spent.hold[i].version = t.hold[h].version => spent.hold[i].end # "final"
    <3> SUFFICES ASSUME NEW i \in Hold, spent.hold[i].version = t.hold[h].version,
                        spent.hold[i].end = "final"
                 PROVE  FALSE
      OBVIOUS
    <3>1. t.hold[i].version = t.hold[h].version /\ t.hold[i].end = "final"
      BY <1>7
    <3> QED BY <1>10, <3>1
  <2>8. t.hold[h].envelope \in Envelope /\ spent.envelope[t.hold[h].envelope].state # "none"
    BY <1>4, <1>7, <2>2 DEF RowsBound
  <2>9. Left(t, h) \in Nat
    <3>1. t.hold[h].amount \in Int /\ t.hold[h].actual \in Int /\ Left(t, h) > 0
      BY <1>4, <1>9, <2>2 DEF Typed, HoldRow
    <3> QED BY <3>1 DEF Left
  <2> QED BY <2>1, <2>3, <2>4, <2>5, <2>6, <2>7, <2>8, <2>9
<1>15. ASSUME NEW n \in DOMAIN new, NEW m \in DOMAIN new, new[n].version = new[m].version
       PROVE  n = m
  BY <1>11, <1>13, <1>15
<1>16. Reservable(spent, new)
  BY <1>14, <1>15, Zenon DEF Reservable
<1>17. Kept(again, S)
  BY <1>3, <1>16, ReservedKeepsLedger
<1>18. \A e \in Envelope : /\ again.envelope[e].maximum = spent.envelope[e].maximum
                           /\ again.envelope[e].actual = spent.envelope[e].actual
                           /\ again.envelope[e].held = spent.envelope[e].held + Takes(new, e)
  BY <1>4, <1>16, ReservedEnvelopes
<1> HIDE DEF again
<1>19. NoMore(w, again)
  <2> SUFFICES ASSUME NEW e \in Envelope
               PROVE  /\ again.envelope[e].held + again.envelope[e].actual
                            <= w.envelope[e].held + w.envelope[e].actual
                      /\ again.envelope[e].maximum = w.envelope[e].maximum
    BY DEF NoMore
  <2>1. Takes(new, e) <= LeftIn(t, R, e)
    BY <1>4, <1>8, <1>9, RenewedTakes DEF new
  <2>2. Takes(new, e) \in Nat
    BY <1>16, TakesType
  <2>3. /\ spent.envelope[e].held + spent.envelope[e].actual
              <= t.envelope[e].held + t.envelope[e].actual
        /\ spent.envelope[e].maximum = t.envelope[e].maximum
    BY <1>5 DEF NoMore
  <2>4. /\ spent.envelope[e].held \in Int /\ spent.envelope[e].actual \in Int
        /\ t.envelope[e].held \in Int /\ t.envelope[e].actual \in Int
        /\ w.envelope[e].held \in Int /\ w.envelope[e].actual \in Int
    BY <1>4 DEF Typed, EnvelopeRow
  <2>5. /\ t.envelope[e].maximum = w.envelope[e].maximum
        /\ LeftIn(t, R, e) \in Int
        /\ t.envelope[e].held + t.envelope[e].actual + LeftIn(t, R, e)
              <= w.envelope[e].held + w.envelope[e].actual
    BY <1>12
  <2>6. /\ again.envelope[e].maximum = spent.envelope[e].maximum
        /\ again.envelope[e].actual = spent.envelope[e].actual
        /\ again.envelope[e].held = spent.envelope[e].held + Takes(new, e)
    BY <1>18
  <2> QED BY <2>1, <2>2, <2>3, <2>4, <2>5, <2>6
<1>20. Kept(u, S) /\ NoMore(again, u)
  BY <1>17, RevokedKeepsLedger
<1> HIDE DEF u
<1>21. NoMore(w, u)
  BY <1>17, <1>19, <1>20, NoMoreTransitive DEF Kept, MoneyKept
<1> QED BY <1>1, <1>20, <1>21

(***************************************************************************)
(* The forecast of a proposal.                                             *)
(***************************************************************************)
\* Closing holds frees of the business cap what they give back, whichever envelopes
\* they are in.
LEMMA ClassifiedReleases ==
    ASSUME NEW t, NEW S, Kept(t, S), NEW H \in SUBSET Hold
    PROVE  LET released == SumFunctionOnSet(GivenBack(t), {h \in H : Releases(t, h)}) IN
           /\ released \in Int /\ Committed(t) \in Int
           /\ Committed(Classified(t, H)) = Committed(t) - released
<1> DEFINE u == Classified(t, H)
           R == {h \in H : Releases(t, h)}
           col == [h \in Hold |-> t.hold[h].envelope]
           g == GivenBack(t)
           before == [e \in Envelope |-> t.envelope[e].held + t.envelope[e].actual]
           after == [e \in Envelope |-> u.envelope[e].held + u.envelope[e].actual]
           back == [e \in Envelope |-> SumFunctionOnSet(g, {h \in R : col[h] = e})]
<1>1. R \in SUBSET Hold /\ IsFiniteSet(R) /\ IsFiniteSet(Envelope)
  BY RowsAssumption, FS_Subset
<1>2. \A h \in R : g[h] \in Int /\ col[h] \in Envelope
  <2> SUFFICES ASSUME NEW h \in R PROVE g[h] \in Int /\ col[h] \in Envelope
    OBVIOUS
  <2>1. h \in Hold /\ t.hold[h].state = "held"
    BY DEF Releases
  <2>2. t.hold[h].envelope \in Envelope
    BY <2>1 DEF Kept, MoneyKept, RowsBound
  <2>3. g[h] \in Int
    BY <2>1, GivenBackType
  <2> HIDE DEF g
  <2> QED BY <2>1, <2>2, <2>3
<1>3. ASSUME NEW e \in Envelope
      PROVE  after[e] \in Int /\ back[e] \in Int /\ before[e] = after[e] + back[e]
  <2> DEFINE G == SumFunctionOnSet(g, ClosedOf(t, H, e))
             p == t.envelope[e].held
             q == t.envelope[e].actual
             all == u.envelope[e].held + u.envelope[e].actual
  <2>1. G \in Nat /\ all = p + q - G
    BY ClassifiedGivesBack
  <2>2. p \in Int /\ q \in Int
    BY DEF Kept, MoneyKept, Typed, EnvelopeRow
  <2>3. ClosedOf(t, H, e) = {h \in R : col[h] = e}
    BY DEF ClosedOf
  <2>4. back[e] = G
    BY <2>3, Zenon
  <2>5. before[e] = p + q /\ after[e] = all
    OBVIOUS
  <2> HIDE DEF G, p, q, all, before, after, back
  <2> QED BY <2>1, <2>2, <2>4, <2>5
<1>4. Committed(t) = SumFunctionOnSet(before, Envelope)
      /\ Committed(u) = SumFunctionOnSet(after, Envelope)
  BY Zenon DEF Committed
<1> HIDE DEF R, g, u, before, after, col
<1>5. SumFunctionOnSet(back, Envelope) = SumFunctionOnSet(g, R)
  BY <1>1, <1>2, SumByColumn
<1> HIDE DEF back
<1>6. /\ SumFunctionOnSet(before, Envelope)
            = SumFunctionOnSet(after, Envelope) + SumFunctionOnSet(back, Envelope)
      /\ SumFunctionOnSet(after, Envelope) \in Int
      /\ SumFunctionOnSet(back, Envelope) \in Int
  BY <1>1, <1>3, SumOfSums, SumType
<1>7. /\ SumFunctionOnSet(g, R) \in Int /\ Committed(t) \in Int
      /\ Committed(u) = Committed(t) - SumFunctionOnSet(g, R)
  BY <1>4, <1>5, <1>6
<1> QED BY <1>7 DEF R, g, u

\* Retiring leases marks nothing and only lets go calls never sent.
LEMMA RetiredSteady ==
    ASSUME NEW t, Shaped(t), Typed(t), NEW L, NEW code \in Codes
    PROVE  LET u == Retired(t, L, code) IN
           /\ SameReservations(t, u) /\ CallsClose(t, u)
           /\ \A h \in Hold : u.hold[h].marked = t.hold[h].marked
<1> DEFINE p == Stopped(t, L, code)
           q == Ended(p, L, "released")
           u == Revoked(q, L)
<1>1. /\ MoneySteady(t, p) /\ \A h \in Hold : p.hold[h].marked = t.hold[h].marked
  BY StoppedSteady
<1>2. Shaped(p)
  BY StoppedEnds DEF Ends
<1>3. Retired(t, L, code) = u
  BY DEF Retired
<1> HIDE DEF p
<1>4. q.hold = p.hold /\ q.call = p.call /\ Shaped(q)
  BY <1>2, EndedColumns, EndedEnds DEF Ends
<1> HIDE DEF q
<1>5. u.hold = q.hold /\ u.call = q.call
  BY <1>4, RevokedColumns
<1> HIDE DEF u
<1>6. SameReservations(t, u) /\ CallsClose(t, u)
  BY <1>1, <1>4, <1>5 DEF MoneySteady, SameReservations, CallsClose
<1>7. \A h \in Hold : u.hold[h].marked = t.hold[h].marked
  BY <1>1, <1>4, <1>5
<1> QED BY <1>3, <1>6, <1>7

\* What is forecast to be released of holds is no more than what they give back when
\* their leases have been retired: a call never sent is let go first, and one sent
\* keeps the hold either way.
LEMMA ForecastIsNoMore ==
    ASSUME NEW t, NEW r, NEW S, Typed(t), Kept(r, S), SameReservations(t, r), CallsClose(t, r),
           \A h \in Hold : r.hold[h].marked = t.hold[h].marked,
           NEW H \in SUBSET Hold, \A h \in H : t.hold[h].state = "held"
    PROVE  /\ ReleasedOnClosing(t, H) \in Int
           /\ ReleasedOnClosing(t, H)
                 <= SumFunctionOnSet(GivenBack(r), {h \in H : Releases(r, h)})
<1> DEFINE f == [h \in Hold |-> GivesBack(t, h)]
           b == GivenBack(r)
           g == [h \in Hold |-> IF Releases(r, h) THEN b[h] ELSE 0]
           P == {h \in H : Releases(r, h)}
<1>1. Typed(r)
  BY DEF Kept, MoneyKept
<1>2. ASSUME NEW h \in H
      PROVE  f[h] \in Int /\ g[h] \in Int /\ f[h] <= g[h]
  <2> DEFINE spent == Spent(t, h)
             amount == t.hold[h].amount
  <2>1. h \in Hold /\ t.hold[h].state = "held" /\ r.hold[h].state = "held"
        /\ r.hold[h].amount = amount
    BY DEF SameReservations
  <2>2. Spent(r, h) = spent /\ (OpenCall(r, h) => OpenCall(t, h)) /\ spent \in Nat
    BY <1>1, CallsCloseSums, CallSums
  <2>3. Releases(t, h) => Releases(r, h)
    BY <2>1, <2>2 DEF Releases
  <2>4. b[h] = amount - spent
    BY <2>1, <2>2 DEF GivenBack
  <2>5. b[h] \in Nat
    BY <2>1, GivenBackType
  <2>6. f[h] = IF Releases(t, h) THEN amount - spent ELSE 0
    BY <2>1 DEF GivesBack
  <2>7. g[h] = IF Releases(r, h) THEN b[h] ELSE 0
    BY <2>1
  <2> HIDE DEF f, g, b, spent, amount
  <2> QED BY <2>3, <2>4, <2>5, <2>6, <2>7
<1>3. P \in SUBSET H /\ IsFiniteSet(H) /\ IsFiniteSet(P) /\ IsFiniteSet(H \ P)
  BY RowsAssumption, FS_Subset
<1>4. (\A h \in P : g[h] = b[h]) /\ (\A h \in H \ P : g[h] = 0)
  OBVIOUS
<1>5. ReleasedOnClosing(t, H) = SumFunctionOnSet(f, H)
  BY Zenon DEF ReleasedOnClosing
<1> HIDE DEF f, g, b, P
<1>6. SumFunctionOnSet(f, H) <= SumFunctionOnSet(g, H) /\ SumFunctionOnSet(f, H) \in Int
  BY <1>2, <1>3, SumNoMore, SumType
<1>7. SumFunctionOnSet(g, H) = SumFunctionOnSet(g, P) + SumFunctionOnSet(g, H \ P)
  BY <1>2, <1>3, SumOfParts
<1>8. SumFunctionOnSet(g, H \ P) = 0
  BY <1>3, <1>4, SumOfZeroes
<1>9. SumFunctionOnSet(g, P) = SumFunctionOnSet(b, P) /\ SumFunctionOnSet(g, P) \in Int
  BY <1>2, <1>3, <1>4, SumSame, SumType
<1>10. ReleasedOnClosing(t, H) \in Int /\ ReleasedOnClosing(t, H) <= SumFunctionOnSet(b, P)
  BY <1>5, <1>6, <1>7, <1>8, <1>9
<1> QED BY <1>10 DEF b, P

\* Superseding versions leaves committed no more than a proposal forecast: u is the
\* tables with the proposal written, where holds and calls are still those of t.
LEMMA SupersedingReleases ==
    ASSUME NEW t, NEW u, NEW V, Typed(t), Kept(u, HeldOn(u, V)), LiveUnreplaced(u),
           u.hold = t.hold, u.call = t.call
    PROVE  /\ ReleasedOnClosing(t, HeldOn(t, V)) \in Int
           /\ Committed(u) \in Int /\ Committed(Superseding(u, V)) \in Int
           /\ Committed(Superseding(u, V)) <= Committed(u) - ReleasedOnClosing(t, HeldOn(t, V))
<1> DEFINE L == LiveOn(u, V)
           H == HeldOn(u, V)
           r == Retired(u, L, "final")
           w == Classified(r, H)
           back == SumFunctionOnSet(GivenBack(r), {h \in H : Releases(r, h)})
<1>1. HeldOn(t, V) = H /\ H \in SUBSET Hold /\ \A h \in H : t.hold[h].state = "held"
  BY DEF HeldOn
<1>2. Superseding(u, V) = w
  BY Zenon DEF Superseding
<1>3. L \subseteq Lease /\ \A h \in Hold : u.hold[h].lease \in L => ~ u.hold[h].replaced
  BY DEF LiveOn, LiveUnreplaced
<1>4. Nil \notin L
  BY <1>3, NilAssumption
<1>5. "final" \in Codes /\ Shaped(u) /\ Typed(u)
  BY DEF Codes, Kept, MoneyKept
<1> HIDE DEF L, H
<1>6. Kept(u, H)
  BY DEF H
<1>7. Kept(r, H) /\ NoMore(u, r)
  BY <1>3, <1>4, <1>5, <1>6, RetiredKeepsLedger
<1>8. /\ SameReservations(u, r) /\ CallsClose(u, r)
      /\ \A h \in Hold : r.hold[h].marked = u.hold[h].marked
  BY <1>5, RetiredSteady
<1> HIDE DEF r
<1>9. /\ SameReservations(t, r) /\ CallsClose(t, r)
      /\ \A h \in Hold : r.hold[h].marked = t.hold[h].marked
  BY <1>8 DEF SameReservations, CallsClose
<1>10. ReleasedOnClosing(t, H) \in Int /\ ReleasedOnClosing(t, H) <= back
  BY <1>1, <1>7, <1>9, ForecastIsNoMore
<1>11. back \in Int /\ Committed(r) \in Int /\ Committed(w) = Committed(r) - back
  BY <1>1, <1>7, ClassifiedReleases
<1>12. Committed(r) <= Committed(u) /\ Committed(u) \in Int
  BY <1>5, <1>7, NoMoreCommits DEF Kept, MoneyKept
<1> HIDE DEF w, back
<1>13. /\ ReleasedOnClosing(t, H) \in Int /\ Committed(u) \in Int /\ Committed(w) \in Int
       /\ Committed(w) <= Committed(u) - ReleasedOnClosing(t, H)
  BY <1>10, <1>11, <1>12
<1> QED BY <1>1, <1>2, <1>13

(***************************************************************************)
(* The actions.                                                            *)
(***************************************************************************)

\* What the runtime's invariant adds to the work invariant.
LedgerInv == Kept(Tables, {}) /\ Ceilings(Tables)

LEMMA RuntimeIsWorkAndLedger == RuntimeInv <=> WorkInv /\ LedgerInv
<1>1. RuntimeInv => LedgerInv
  BY DEF RuntimeInv, WorkInv, WorkKept, StopsInv, MoneyInv, LedgerInv, Kept
<1>2. WorkInv /\ LedgerInv => RuntimeInv
  BY DEF RuntimeInv, StopsInv, MoneyInv, LedgerInv, Kept
<1> QED BY <1>1, <1>2 DEF RuntimeInv

(***************************************************************************)
(* The tables a transaction commits are the next state.                    *)
(***************************************************************************)
\* Tables with the same rows keep the same ledger.
LEMMA SameTablesKeepLedger ==
    ASSUME NEW t, NEW u, Kept(t, {}), DOMAIN u = DOMAIN t,
           u.lineage = t.lineage, u.version = t.version, u.hold = t.hold,
           u.lease = t.lease, u.envelope = t.envelope, u.call = t.call
    PROVE  Kept(u, {}) /\ NoMore(t, u)
<1>1. SameApprovals(t, u) /\ LeasesEnd(t, u, {}) /\ HoldsClose(t, u, {}) /\ CallsStay(t, u)
  BY DEF SameApprovals, LeasesEnd, HoldsClose, CallsStay
<1>2. Shaped(u) /\ Typed(u)
  BY DEF Kept, MoneyKept, Shaped, Typed
<1>3. CallsClose(t, u)
  BY SameCallsClose
<1> QED BY <1>1, <1>2, <1>3, NothingMovesLedger DEF Ends

\* A transaction whose tables keep the ledger may be committed.
LEMMA CommitKeepsLedger ==
    ASSUME NEW STATE t, Kept(t, {}), Ceilings(t), Commit(t)
    PROVE  LedgerInv'
<1>1. /\ Tables'.lineage = t.lineage /\ Tables'.version = t.version /\ Tables'.hold = t.hold
      /\ Tables'.lease = t.lease /\ Tables'.envelope = t.envelope /\ Tables'.call = t.call
  BY DEF Tables, Commit
<1>2. DOMAIN Tables' = DOMAIN t
  BY DEF Tables, Kept, Shaped
<1>3. Kept(Tables', {}) /\ NoMore(t, Tables')
  BY <1>1, <1>2, SameTablesKeepLedger
<1>4. Ceilings(Tables')
  BY <1>3, NoMoreKeepsCeilings DEF Kept, MoneyKept
<1> QED BY <1>3, <1>4 DEF LedgerInv

\* It may where no envelope stands higher than it did.
LEMMA CommitNoMore ==
    ASSUME LedgerInv, NEW STATE t, Kept(t, {}), NoMore(Tables, t), Commit(t)
    PROVE  LedgerInv'
<1>1. Ceilings(t)
  BY NoMoreKeepsCeilings DEF LedgerInv, Kept, MoneyKept
<1> QED BY <1>1, CommitKeepsLedger

\* A version proposed between t and u fits the cap with all u commits.
FitsCap(t, u) ==
    \A v \in Version : t.version[v].state = "none" /\ u.version[v].state = "current"
        => Committed(u) + u.version[v].maximum <= CapLimit

\* ProposalFitsCap, of one step.
ProposalsFit ==
    \A v \in Version : version[v].state = "none" /\ version'[v].state = "current"
        => Committed(Tables)' + version'[v].maximum <= CapLimit

\* What is committed is read off the envelopes alone.
LEMMA CommittedIsOfEnvelopes ==
    Committed(Tables) =
        SumFunctionOnSet([e \in Envelope |-> envelope[e].held + envelope[e].actual], Envelope)
BY Zenon DEF Committed, Tables

\* A transaction whose tables fit the cap may be committed.
LEMMA CommitFits ==
    ASSUME NEW STATE t, FitsCap(Tables, t), Commit(t)
    PROVE  ProposalsFit
<1>1. version' = t.version /\ envelope' = t.envelope /\ Tables.version = version
  BY DEF Commit, Tables
<1>2. (Committed(Tables) =
         SumFunctionOnSet([e \in Envelope |-> envelope[e].held + envelope[e].actual], Envelope))'
  BY CommittedIsOfEnvelopes, PTL
<1>3. Committed(Tables)' = Committed(t)
  BY <1>1, <1>2, Zenon DEF Committed
<1> QED BY <1>1, <1>3 DEF FitsCap, ProposalsFit

\* One version proposed, under the cap as it stood, fits where no more is committed.
LEMMA NoMoreFits ==
    ASSUME NEW t, NEW u, Typed(t), Typed(u), NoMore(t, u), NEW v \in Version,
           NEW maximum \in Nat, CapFits(t, maximum), u.version[v].maximum = maximum,
           \A w \in Version : w # v /\ t.version[w].state = "none" => u.version[w].state = "none"
    PROVE  FitsCap(t, u)
<1>1. Committed(u) <= Committed(t) /\ Committed(t) \in Int /\ Committed(u) \in Int
  BY NoMoreCommits
<1>2. Committed(t) + maximum <= CapLimit /\ CapLimit \in Int
  BY LimitsAssumption DEF CapFits
<1>3. Committed(u) + maximum <= CapLimit
  BY <1>1, <1>2
<1>4. \A w \in Version : t.version[w].state = "none" /\ u.version[w].state = "current" => w = v
  OBVIOUS
<1> QED BY <1>3, <1>4 DEF FitsCap

\* What every command starts from.
LEMMA LedgerFound ==
    ASSUME RuntimeInv
    PROVE  /\ WorkKept(Tables, {}) /\ Kept(Tables, {}) /\ Ceilings(Tables)
           /\ LedgerInv /\ LiveUnreplaced(Tables)
<1>1. WorkKept(Tables, {}) /\ Kept(Tables, {}) /\ Ceilings(Tables) /\ LedgerInv
  BY RuntimeIsWorkAndLedger DEF WorkInv, LedgerInv
<1> QED BY <1>1, LiveIsUnreplaced

(***************************************************************************)
(* Retirement.                                                             *)
(***************************************************************************)
\* The hold of a live lease alone is bound to it, and nothing has replaced it.
LEMMA LiveLeaseHolds ==
    ASSUME NEW t, Kept(t, {}), LiveUnreplaced(t), NEW x \in Lease, t.lease[x].state = "live"
    PROVE  \A h \in Hold : t.hold[h].lease \in {x} => ~ t.hold[h].replaced
BY DEF LiveUnreplaced

LEMMA RetiringOneKeepsLedger ==
    ASSUME NEW t, NEW x \in Lease, NEW code \in Codes, Kept(t, {}), LiveUnreplaced(t),
           t.lease[x].state = "live"
    PROVE  Kept(Retired(t, {x}, code), {}) /\ NoMore(t, Retired(t, {x}, code))
<1>1. Nil \notin {x}
  BY NilAssumption
<1> QED BY <1>1, LiveLeaseHolds, RetiredKeepsLedger

\* A worker that ends its own run retires its attempt.
LEMMA EndRunKeepsLedger ==
    ASSUME RuntimeInv, NEW x \in Lease, EndRun(x)
    PROVE  LedgerInv'
<1> DEFINE u == Retired(Tables, {x}, "final")
<1>1. Commit(u) /\ Tables.lease[x].state = "live"
  BY DEF EndRun, Standing
<1>2. Kept(u, {}) /\ NoMore(Tables, u)
  BY <1>1, LedgerFound, RetiringOneKeepsLedger DEF Codes
<1> HIDE DEF u
<1> QED BY <1>1, <1>2, LedgerFound, CommitNoMore

\* So does a refused call.
LEMMA RefuseCallKeepsLedger ==
    ASSUME RuntimeInv, NEW x \in Lease, RefuseCall(x)
    PROVE  LedgerInv'
<1> DEFINE u == Retired(Tables, {x}, "final")
<1>1. Commit(u) /\ Tables.lease[x].state = "live"
  BY DEF RefuseCall, CallFacts, Standing
<1>2. Kept(u, {}) /\ NoMore(Tables, u)
  BY <1>1, LedgerFound, RetiringOneKeepsLedger DEF Codes
<1> HIDE DEF u
<1> QED BY <1>1, <1>2, LedgerFound, CommitNoMore

\* A call past the ceiling leaves its run waiting, its money as it was.
LEMMA StopAtCeilingKeepsLedger ==
    ASSUME RuntimeInv, NEW x \in Lease, NEW m \in Amounts, StopAtCeiling(x, m)
    PROVE  LedgerInv'
<1> DEFINE V == VersionsOf(Tables, {lease[x].hold})
           t1 == Retired(Tables, {x}, "retryable")
           u == AtBudget(t1, V)
<1>1. Commit(u) /\ Tables.lease[x].state = "live"
  BY DEF StopAtCeiling, CallFacts, Standing
<1>2. Kept(t1, {}) /\ NoMore(Tables, t1)
  BY <1>1, LedgerFound, RetiringOneKeepsLedger DEF Codes
<1> HIDE DEF t1, V
<1>3. Kept(u, {}) /\ NoMore(t1, u)
  BY <1>2, AtBudgetKeepsLedger
<1> HIDE DEF u
<1>4. NoMore(Tables, u)
  BY <1>2, <1>3, LedgerFound, NoMoreTransitive DEF Kept, MoneyKept
<1> QED BY <1>1, <1>3, <1>4, LedgerFound, CommitNoMore

(***************************************************************************)
(* Handing back.                                                           *)
(***************************************************************************)
\* A report from a live lease, completed or not, keeps the ledger.
LEMMA ReportingKeepsLedger ==
    ASSUME NEW t, WorkKept(t, {}), Kept(t, {}), NEW x \in Lease, HandbackBound(t, x),
           NEW completed \in BOOLEAN
    PROVE  LET u == IF completed THEN Stopped(Settled(t, x, FALSE), {x}, "final")
                    ELSE Settled(t, x, FALSE)
               h == t.lease[x].hold
           IN
           /\ Kept(u, {}) /\ NoMore(t, u)
           /\ u.hold[h].state = "held" => u.hold[h].attempt = "liability_unknown"
<1> DEFINE h == t.lease[x].hold
           t1 == Settled(t, x, FALSE)
           t2 == Stopped(t1, {x}, "final")
<1>1. t.lease[x].state = "live" /\ LiveUnreplaced(t)
  BY LiveIsUnreplaced DEF HandbackBound, Standing
<1>2. /\ Kept(t1, {}) /\ NoMore(t, t1) /\ HoldsGo(t, t1)
      /\ t1.hold[h].state = "held" => t1.hold[h].attempt = "liability_unknown"
  BY <1>1, SettledKeepsLedger
<1>3. t1.lease[x].state # "live"
  <2>1. Ends(t, t1, {x}, {t.lease[x].hold})
    BY <1>1, SettledEnds DEF Kept
  <2> QED BY <2>1 DEF Ends, LeasesEnd
<1> HIDE DEF t1
<1>4. \A i \in Hold : t1.hold[i].lease = x => ~ t1.hold[i].replaced
  BY <1>1, <1>2 DEF HoldsGo, LiveUnreplaced
<1>5. Kept(t2, {}) /\ NoMore(t1, t2)
  BY <1>2, <1>3, <1>4, CompletedKeepsLedger
<1>6. t2.hold[h].state = "held" => t2.hold[h].attempt = "liability_unknown"
  <2>1. h \in Hold
    BY <1>1 DEF WorkKept, WorksApproved
  <2>2. "final" \in Codes /\ Shaped(t1) /\ Typed(t1)
    BY <1>2 DEF Codes, Kept, MoneyKept
  <2>3. t2.hold[h].state = t1.hold[h].state /\ t2.hold[h].attempt = t1.hold[h].attempt
    BY <2>1, <2>2, StoppedSteady
  <2> QED BY <1>2, <2>3
<1> HIDE DEF t2, h
<1>7. NoMore(t, t2)
  BY <1>2, <1>5, NoMoreTransitive DEF Kept, MoneyKept
<1> QED BY <1>2, <1>5, <1>6, <1>7 DEF t1, t2, h

\* A hand-back closes or keeps its own hold.
LEMMA HandBackKeepsLedger ==
    ASSUME RuntimeInv, NEW x \in Lease, NEW completed \in BOOLEAN, HandBack(x, completed)
    PROVE  LedgerInv'
<1> DEFINE u == IF completed THEN Stopped(Settled(Tables, x, FALSE), {x}, "final")
                ELSE Settled(Tables, x, FALSE)
<1>1. HandbackBound(Tables, x) /\ Commit(u)
  BY DEF HandBack
<1>2. Kept(u, {}) /\ NoMore(Tables, u)
  BY <1>1, LedgerFound, ReportingKeepsLedger
<1> HIDE DEF u
<1> QED BY <1>1, <1>2, LedgerFound, CommitNoMore

(***************************************************************************)
(* Dropped attempts and their resumption.                                  *)
(***************************************************************************)
\* While the newest reservation of a version can go on, none before it stopped for
\* good: a final stop is never replaced.
LEMMA NewestGoesOn ==
    ASSUME NEW t, NewestAlone(t), NEW h \in Hold, t.hold[h].state # "none",
           ~ t.hold[h].replaced, t.hold[h].end # "final",
           NEW i \in Hold, t.hold[i].version = t.hold[h].version
    PROVE  t.hold[i].end # "final"
<1> SUFFICES ASSUME t.hold[i].end = "final" PROVE FALSE
  OBVIOUS
<1>1. ~ t.hold[h].replaced /\ ~ t.hold[i].replaced
  BY DEF NewestAlone
<1>2. t.hold[i].state # "none"
  BY DEF NewestAlone, NoHold
<1>3. i = h
  BY <1>1, <1>2 DEF NewestAlone
<1> QED BY <1>3

\* Holds of live leases, classified and then resumed: each fresh reservation asks
\* for no more than the close of the one it replaces gave back.
LEMMA ResumingKeepsLedger ==
    ASSUME NEW t, WorkKept(t, {}), Kept(t, {}), NEW w, Kept(w, {}), NoMore(t, w), HoldsStay(t, w),
           NEW H \in SUBSET Hold,
           \A h \in H : /\ t.hold[h].state = "held" /\ t.hold[h].lease # Nil
                        /\ t.lease[t.hold[h].lease].state = "live",
           NEW f, NEW retire \in BOOLEAN,
           f \in Injection(Resuming(Classified(w, H), H), FreshHolds(t))
    PROVE  LET u == Dropped(Classified(w, H), H, f, retire) IN
           Kept(u, {}) /\ NoMore(t, u)
<1> DEFINE t1 == Classified(w, H)
           R == Resuming(t1, H)
           u == Dropped(t1, H, f, retire)
<1>1. Kept(t1, {} \ H) /\ NoMore(w, t1) /\ Ends(w, t1, {}, H) /\ HoldsGo(w, t1)
  BY ClassifiedKeepsLedger, ClassifiedGo
<1>2. {} \ H = {}
  OBVIOUS
<1>3. \A h \in R : h \in H /\ t1.hold[h].attempt = "abandoned"
  BY DEF Resuming, Dropping
<1>4. R \in SUBSET H /\ \A h \in R : w.hold[h].state = "held"
  BY <1>3 DEF HoldsStay
<1>5. \A e \in Envelope :
        /\ t1.envelope[e].maximum = w.envelope[e].maximum
        /\ LeftIn(t1, R, e) \in Int
        /\ t1.envelope[e].held + t1.envelope[e].actual + LeftIn(t1, R, e)
              <= w.envelope[e].held + w.envelope[e].actual
  BY <1>3, <1>4, ClassifiedLeavesRoom
<1>6. f \in Injection(R, FreshHolds(t))
  OBVIOUS
<1> HIDE DEF t1, R
<1>7. Kept(t1, {})
  BY <1>1, <1>2
<1>8. HoldsGo(t, t1)
  BY <1>1, StaysGo, GoTransitive
<1>9. HoldsClose(w, t1, H)
  BY <1>1 DEF Ends
<1>10. FreshHolds(t1) = FreshHolds(t)
  BY <1>9 DEF FreshHolds, HoldsClose, HoldsStay
<1>11. ASSUME NEW h \in R
       PROVE  /\ t1.hold[h].state # "none" /\ HeldOn(t1, {t1.hold[h].version}) = {}
              /\ \A i \in Hold : t1.hold[i].version = t1.hold[h].version => t1.hold[i].end # "final"
  <2>1. h \in Hold /\ t.hold[h].state = "held" /\ t1.hold[h].attempt = "abandoned"
    BY <1>3
  <2>2. t1.hold[h].state # "none" /\ t1.hold[h].state # "held"
    BY <1>7, <1>9, <1>10, <2>1 DEF Kept, HoldsApproved, FreshHolds
  <2>3. \A j \in Hold : t1.hold[j].state = "held" => t.hold[j].state = "held"
    BY <1>9 DEF HoldsClose, HoldsStay
  <2>4. \A j \in Hold : t1.hold[j].version = t.hold[j].version
    BY <1>8 DEF HoldsGo
  <2>5. \A j \in Hold : t1.hold[j].state = "held" /\ t1.hold[j].version = t1.hold[h].version => j = h
    BY <2>1, <2>3, <2>4 DEF WorkKept, OneHeld
  <2>6. t.hold[h].end # "final"
    BY <1>3, <2>1 DEF Kept, StopsKept, StopsEnd
  <2>7. NewestAlone(t) /\ ~ t.hold[h].replaced
    BY <2>1 DEF Kept, StopsKept, NewestAlone
  <2>8. \A i \in Hold : t.hold[i].version = t.hold[h].version => t.hold[i].end # "final"
    BY <2>1, <2>6, <2>7, NewestGoesOn
  <2>9. \A i \in Hold : t1.hold[i].end = "final" => t.hold[i].end = "final"
    BY <1>8 DEF HoldsGo
  <2> QED BY <2>1, <2>2, <2>4, <2>5, <2>8, <2>9 DEF HeldOn
<1>12. \A h, i \in R : t1.hold[h].version = t1.hold[i].version => h = i
  BY <1>3, <1>8 DEF HoldsGo, WorkKept, OneHeld
<1>13. Typed(w)
  BY DEF Kept, MoneyKept
<1>14. f \in Injection(Resuming(t1, H), FreshHolds(t1))
  BY <1>6, <1>10 DEF R
<1>15. Kept(u, {}) /\ NoMore(w, u)
  BY <1>5, <1>7, <1>11, <1>12, <1>13, <1>14, DroppedKeepsLedger DEF R
<1> HIDE DEF u
<1>16. NoMore(t, u)
  BY <1>13, <1>15, NoMoreTransitive DEF Kept, MoneyKept
<1> QED BY <1>15, <1>16 DEF u, t1

\* A dropped attempt resumes on what its own close gave back.
LEMMA HandBackDroppedKeepsLedger ==
    ASSUME RuntimeInv, NEW x \in Lease, HandbackBound(Tables, x),
           NEW f \in Renewals(Resuming(Settled(Tables, x, TRUE), {lease[x].hold})),
           HandBackDropped(x, f)
    PROVE  LedgerInv'
<1> DEFINE t == Tables
           h == t.lease[x].hold
           w == ReportSettled(t, x)
           u == Dropped(Classified(w, {h}), {h}, f, FALSE)
<1>1. Settled(t, x, TRUE) = Classified(w, {h})
  BY DEF Settled
<1>2. t.lease = lease
  BY TablesFields
<1>3. Commit(u) /\ f \in Injection(Resuming(Classified(w, {h}), {h}), FreshHolds(t))
  BY <1>1, <1>2 DEF HandBackDropped, Renewals
<1>4. WorkKept(t, {}) /\ Kept(t, {}) /\ HandbackBound(t, x)
  BY LedgerFound
<1> HIDE DEF t
<1>5. t.lease[x].state = "live" /\ WorksApproved(t, x)
  BY <1>4 DEF WorkKept, HandbackBound, Standing
<1>6. {h} \in SUBSET Hold /\ t.hold[h].state = "held" /\ t.hold[h].lease = x /\ x # Nil
  BY <1>5, NilAssumption DEF WorksApproved
<1>7. Kept(w, {}) /\ NoMore(t, w) /\ w.hold = t.hold
  BY <1>4, <1>5, ReportSettledKeepsLedger
<1> HIDE DEF w, h
<1>8. HoldsStay(t, w)
  BY <1>7 DEF HoldsStay
<1>9. Kept(u, {}) /\ NoMore(t, u)
  BY <1>3, <1>4, <1>5, <1>6, <1>7, <1>8, ResumingKeepsLedger
<1> HIDE DEF u
<1> QED BY <1>3, <1>9, LedgerFound, CommitNoMore DEF t

\* The sweep marks what was sent, fences every expired lease, and resumes on what
\* the closes gave back.
LEMMA SweepPassKeepsLedger ==
    ASSUME RuntimeInv,
           NEW f \in Renewals(Resuming(ExpiredFenced(Tables), Expired(Tables))),
           SweepPass(f)
    PROVE  LedgerInv'
<1> DEFINE t == Tables
           H == Expired(t)
           c == CallsLost(t, H)
           L == LeasesOf(c, H)
           w == Lost(c, L)
           t2 == Dropped(Classified(w, H), H, f, TRUE)
           u == CallsSwept(t2)
<1>1. ExpiredFenced(t) = Classified(w, H)
  BY DEF ExpiredFenced
<1>2. Commit(u) /\ f \in Injection(Resuming(Classified(w, H), H), FreshHolds(t))
  BY <1>1 DEF SweepPass, Swept, Renewals
<1>3. WorkKept(t, {}) /\ Kept(t, {})
  BY LedgerFound
<1> HIDE DEF t
<1>4. H \in SUBSET Hold /\ \A h \in H : /\ t.hold[h].state = "held" /\ t.hold[h].lease # Nil
                                        /\ t.lease[t.hold[h].lease].state = "live"
  BY DEF Expired
<1> HIDE DEF H
<1>5. Kept(c, {}) /\ NoMore(t, c) /\ HoldsStay(t, c)
  BY <1>3, CallsLostKeepsLedger
<1> HIDE DEF c
<1>6. Nil \notin L
  BY DEF LeasesOf
<1> HIDE DEF L
<1>7. /\ Kept(w, {}) /\ NoMore(c, w) /\ w.hold = Stopped(c, L, "retryable").hold
      /\ HoldsStay(c, Stopped(c, L, "retryable"))
  BY <1>5, <1>6, LostKeepsLedger, StoppedStay DEF Kept
<1> HIDE DEF w
<1>8. HoldsStay(t, w)
  BY <1>5, <1>7 DEF HoldsStay
<1>9. NoMore(t, w)
  BY <1>3, <1>5, <1>7, NoMoreTransitive DEF Kept, MoneyKept
<1>10. Kept(t2, {}) /\ NoMore(t, t2)
  BY <1>2, <1>3, <1>4, <1>7, <1>8, <1>9, ResumingKeepsLedger
<1> HIDE DEF t2
<1>11. Kept(u, {}) /\ NoMore(t2, u)
  BY <1>10, CallsSweptKeepsLedger
<1> HIDE DEF u
<1>12. NoMore(t, u)
  BY <1>3, <1>10, <1>11, NoMoreTransitive DEF Kept, MoneyKept
<1> QED BY <1>2, <1>11, <1>12, LedgerFound, CommitNoMore DEF t

(***************************************************************************)
(* The replay and the loss of authority.                                   *)
(***************************************************************************)
\* A replay closes what recorded ends left held.
LEMMA ReplayKeepsLedger ==
    ASSUME RuntimeInv, Replay
    PROVE  LedgerInv'
<1> DEFINE t == Tables
           E == {h \in Hold : Eligible(t, h)}
           A == {h \in E : LostAuthority(t, h)}
           L == LeasesOf(t, A)
           t1 == Retired(t, L, "retryable")
           t2 == RunsReopened(t1, VersionsOf(t, A))
           u == Classified(t2, E)
<1>1. Commit(u)
  BY DEF Replay, Replayed
<1>2. Kept(t, {})
  BY LedgerFound
<1>3. Nil \notin L
  BY DEF LeasesOf
<1> HIDE DEF t, L, A
<1>4. Kept(t1, {}) /\ NoMore(t, t1)
  BY <1>2, <1>3, RetiredKeepsLedger DEF Codes
<1> HIDE DEF t1
<1>5. Kept(t2, {}) /\ NoMore(t1, t2)
  BY <1>4, RunsReopenedKeepsLedger
<1>6. E \in SUBSET Hold /\ {} \ E = {}
  OBVIOUS
<1> HIDE DEF t2, E
<1>7. Kept(u, {} \ E) /\ NoMore(t2, u)
  BY <1>5, <1>6, ClassifiedKeepsLedger
<1> HIDE DEF u
<1>8. Kept(u, {})
  BY <1>6, <1>7
<1>9. NoMore(t, t2)
  BY <1>2, <1>4, <1>5, NoMoreTransitive DEF Kept, MoneyKept
<1>10. NoMore(t, u)
  BY <1>2, <1>5, <1>7, <1>9, NoMoreTransitive DEF Kept, MoneyKept
<1> QED BY <1>1, <1>8, <1>10, LedgerFound, CommitNoMore DEF t

\* Lost authority stops its attempts and closes their holds.
LEMMA LoseAuthorityKeepsLedger ==
    ASSUME RuntimeInv, NEW L \in SUBSET Lease, LoseAuthority(L)
    PROVE  LedgerInv'
<1> DEFINE t == Tables
           H == {h \in Hold : t.hold[h].state = "held" /\ t.hold[h].lease \in L}
           V == {t.hold[t.lease[x].hold].version : x \in L}
           t1 == Classified(Retired(t, L, "retryable"), H)
           u == RunsReopened(t1, V)
<1>1. Commit(u) /\ \A x \in L : t.lease[x].state = "live"
  BY TablesFields DEF LoseAuthority
<1>2. Kept(t, {}) /\ LiveUnreplaced(t)
  BY LedgerFound
<1>3. H \in SUBSET Hold /\ {} \ H = {}
  OBVIOUS
<1> HIDE DEF t, V, H
<1>4. \A h \in Hold : t.hold[h].lease \in L => ~ t.hold[h].replaced
  BY <1>1, <1>2 DEF LiveUnreplaced
<1>5. Kept(t1, {} \ H) /\ NoMore(t, t1)
  BY <1>2, <1>3, <1>4, RetiringKeepsLedger DEF Codes
<1> HIDE DEF t1
<1>6. Kept(t1, {})
  BY <1>3, <1>5
<1>7. Kept(u, {}) /\ NoMore(t1, u)
  BY <1>6, RunsReopenedKeepsLedger
<1> HIDE DEF u
<1>8. NoMore(t, u)
  BY <1>2, <1>5, <1>7, NoMoreTransitive DEF Kept, MoneyKept
<1> QED BY <1>1, <1>7, <1>8, LedgerFound, CommitNoMore DEF t

(***************************************************************************)
(* Pickup.                                                                 *)
(***************************************************************************)
\* A claim fences the task's lapsed lease and writes its own.
LEMMA ClaimingKeepsLedger ==
    ASSUME NEW t, Kept(t, {}), NEW h \in Hold, NEW x \in Lease, NEW agent \in BOOLEAN,
           t.hold[h].state = "held", t.hold[h].lease = Nil,
           t.lease[x].state = "none",
           ApprovalCurrent(t, t.hold[h].version), NEW k
    PROVE  LET u == LeaseTaken(Fenced(t, k), h, x, agent) IN Kept(u, {}) /\ NoMore(t, u)
<1> DEFINE v == t.hold[h].version
           L == LiveOnTask(t, k)
           H == {i \in Hold : t.hold[i].state = "held" /\ t.hold[i].lease \in L}
           t1 == Fenced(t, k)
           u == LeaseTaken(t1, h, x, agent)
<1>1. Ends(t, t1, L, H)
  BY FencedEnds DEF Kept
<1>2. h \notin H
  BY NilAssumption DEF LiveOnTask
<1>3. v \in Version /\ ApprovalCurrent(t, v)
  BY DEF Kept, HoldsApproved
<1>4. Kept(t1, {}) /\ NoMore(t, t1)
  BY FencedKeepsLedger
<1> HIDE DEF t1, v, L, H
<1>5. SameApprovals(t, t1) /\ LeasesEnd(t, t1, L) /\ HoldsClose(t, t1, H)
  BY <1>1 DEF Ends
<1>6. t1.hold[h].state = "held" /\ t1.hold[h].lease = Nil /\ t1.hold[h].version = v
  BY <1>2, <1>5 DEF HoldsClose, v
<1>7. t1.lease[x].state = "none"
  BY <1>5 DEF LeasesEnd
<1>8. ApprovalCurrent(t1, v)
  BY <1>3, <1>5 DEF SameApprovals, ApprovalCurrent
<1>9. Kept(u, {}) /\ NoMore(t1, u)
  BY <1>4, <1>6, <1>7, <1>8, LeaseTakenKeepsLedger
<1> HIDE DEF u
<1>10. NoMore(t, u)
  BY <1>4, <1>9, NoMoreTransitive DEF Kept, MoneyKept
<1> QED BY <1>9, <1>10 DEF u, t1

\* A pickup of an unclaimed hold moves no money but what its fence closes.
LEMMA PickUpKeepsLedger ==
    ASSUME RuntimeInv, NEW h \in Hold, NEW x \in Lease, NEW agent \in BOOLEAN, PickUp(h, x, agent)
    PROVE  LedgerInv'
<1> DEFINE k == TaskOf(Tables, Tables.hold[h].version)
           u == LeaseTaken(Fenced(Tables, k), h, x, agent)
<1>1. Tables.hold = hold /\ Tables.lease = lease
  BY TablesFields
<1>2. /\ Tables.lease[x].state = "none"
      /\ Tables.hold[h].state = "held" /\ Tables.hold[h].lease = Nil
      /\ ApprovalCurrent(Tables, Tables.hold[h].version)
      /\ Commit(u)
  BY <1>1 DEF PickUp, Unclaimed, Claimable
<1>3. Kept(u, {}) /\ NoMore(Tables, u)
  BY <1>2, LedgerFound, ClaimingKeepsLedger
<1> HIDE DEF u
<1> QED BY <1>2, <1>3, LedgerFound, CommitNoMore

\* A claim of a hold already let go of takes up its version: nothing else is held on
\* it, none of its attempts stopped for good, and the hold's envelope still stands.
LEMMA ReplacingLeavesReservable ==
    ASSUME NEW t, WorkKept(t, {}), Kept(t, {}), NEW h \in Hold, Replacing(t, h)
    PROVE  LET u == LetGo(t, h)
               v == t.hold[h].version
               e == t.hold[h].envelope
           IN
           /\ Kept(u, {}) /\ NoMore(t, u)
           /\ e \in Envelope /\ u.envelope[e].state # "none"
           /\ \A i \in Hold : u.hold[i].version = v => u.hold[i].end # "final"
           /\ ReplacementAmount(u, h) \in Int
<1> DEFINE u == LetGo(t, h)
           v == t.hold[h].version
           e == t.hold[h].envelope
<1>1. t.hold[h].state = "held" => t.hold[h].lease # Nil
  BY DEF Replacing, Abandoned, Replaceable
<1>2. Kept(u, {}) /\ NoMore(t, u) /\ HoldsGo(t, u)
  BY <1>1, LetGoKeepsLedger
<1>3. NewestAlone(t) /\ RowsBound(t)
  BY DEF Kept, StopsKept, MoneyKept
<1>4. t.hold[h].state # "none" /\ ~ t.hold[h].replaced /\ t.hold[h].end # "final"
  BY <1>3 DEF Replacing, Abandoned, Replaceable, Claimable, NewestAlone
<1>5. \A i \in Hold : t.hold[i].version = v => t.hold[i].end # "final"
  BY <1>3, <1>4, NewestGoesOn
<1>6. u.hold[h].state # "none"
  <2>1. CASE t.hold[h].state = "held"
    <3>1. HoldsClose(t, u, {h})
      BY <2>1, LetGoEnds DEF Kept, Ends
    <3> QED BY <1>4, <3>1 DEF HoldsClose
  <2>2. CASE t.hold[h].state # "held"
    BY <1>4, <2>2 DEF LetGo
  <2> QED BY <2>1, <2>2
<1> HIDE DEF u, v, e
<1>7. \A i \in Hold : u.hold[i].version = v => u.hold[i].end # "final"
  BY <1>2, <1>5 DEF HoldsGo
<1>8. u.hold[h].envelope = e
  BY <1>2 DEF HoldsGo, e
<1>9. e \in Envelope /\ u.envelope[e].state # "none"
  BY <1>2, <1>6, <1>8 DEF Kept, MoneyKept, RowsBound
<1>10. ReplacementAmount(u, h) \in Int
  <2> DEFINE amounts == [i \in Hold |-> IF u.hold[i].state = "held" THEN u.hold[i].amount
                                        ELSE u.hold[i].actual]
             z == u.hold[h].version
             I == {i \in Hold : u.hold[i].version = z}
             a == Left(u, h)
             b == VersionRoom(u, z)
  <2>1. Typed(u) /\ HoldsApproved(u)
    BY <1>2 DEF Kept, MoneyKept
  <2>2. z \in Version
    BY <1>6, <2>1 DEF HoldsApproved
  <2>3. /\ \A i \in Hold : u.hold[i].amount \in Int /\ u.hold[i].actual \in Int
        /\ u.version[z].maximum \in Int
    BY <2>1, <2>2 DEF Typed, HoldRow, VersionRow
  <2>4. a \in Int
    BY <2>3 DEF Left
  <2>5. \A i \in I : amounts[i] \in Int
    BY <2>3
  <2>6. IsFiniteSet(I)
    BY RowsAssumption, FS_Subset
  <2>7. b = u.version[z].maximum - SumFunctionOnSet(amounts, I)
    BY Zenon DEF VersionRoom
  <2> HIDE DEF amounts, I
  <2>8. SumFunctionOnSet(amounts, I) \in Int
    BY <2>5, <2>6, SumType
  <2>9. b \in Int
    BY <2>3, <2>7, <2>8
  <2>10. ReplacementAmount(u, h) = Min({a, b})
    BY DEF ReplacementAmount
  <2> HIDE DEF a, b
  <2>11. \E m \in {a, b} : \A y \in {a, b} : m <= y
    BY <2>4, <2>9
  <2>12. Min({a, b}) \in {a, b}
    BY <2>11 DEF Min
  <2> QED BY <2>4, <2>9, <2>10, <2>12
<1> QED BY <1>2, <1>7, <1>9, <1>10 DEF u, v, e

\* A replacing pickup reserves, within the room left, what its own close gave back.
LEMMA PickUpReplacingKeepsLedger ==
    ASSUME RuntimeInv, NEW h \in Hold, NEW n \in Hold, NEW x \in Lease, NEW agent \in BOOLEAN,
           PickUpReplacing(h, n, x, agent)
    PROVE  LedgerInv'
<1> DEFINE t == Tables
           v == t.hold[h].version
           e == t.hold[h].envelope
           k == TaskOf(t, v)
           t1 == LetGo(t, h)
           amount == ReplacementAmount(t1, h)
           new == [m \in {n} |-> [version |-> v, envelope |-> e, amount |-> amount]]
           t2 == Reserved(t1, new)
           u == LeaseTaken(Fenced(t2, k), n, x, agent)
<1>1. t.hold = hold /\ t.lease = lease
  BY TablesFields
<1>2. /\ t.lease[x].state = "none" /\ t.hold[n].state = "none"
      /\ Replacing(t, h) /\ amount > 0 /\ Room(t1, e, amount) /\ Commit(u)
  BY <1>1 DEF PickUpReplacing, FreshHolds
<1>3. WorkKept(t, {}) /\ Kept(t, {}) /\ Ceilings(t)
  BY LedgerFound
<1> HIDE DEF t
<1>4. /\ WorkKept(t1, {}) /\ v \in Version /\ HeldOn(t1, {v}) = {}
      /\ ApprovalCurrent(t1, v)
      /\ t1.hold[n].state = "none" /\ t1.lease[x].state = "none"
  BY <1>2, <1>3, ReplacingFreesVersion
<1>5. /\ Kept(t1, {}) /\ NoMore(t, t1)
      /\ e \in Envelope /\ t1.envelope[e].state # "none"
      /\ \A i \in Hold : t1.hold[i].version = v => t1.hold[i].end # "final"
      /\ amount \in Int
  BY <1>2, <1>3, ReplacingLeavesReservable
<1>6. DOMAIN new = {n} /\ new[n].version = v /\ new[n].envelope = e /\ new[n].amount = amount
  OBVIOUS
<1> HIDE DEF k, t1, new, v, e, amount
<1>7. Ceilings(t1)
  BY <1>3, <1>5, NoMoreKeepsCeilings DEF Kept, MoneyKept
<1>8. n \in FreshHolds(t1) /\ amount \in Nat
  BY <1>2, <1>4, <1>5 DEF FreshHolds
<1>9. Reservable(t1, new)
  BY <1>4, <1>5, <1>6, <1>8 DEF Reservable
<1>10. Kept(t2, {})
  BY <1>5, <1>9, ReservedKeepsLedger
<1>11. Ceilings(t2)
  BY <1>2, <1>5, <1>6, <1>7, <1>9, ReservingOneKeepsCeilings
<1>12. t1.version[v].gate = "approved"
  BY <1>4 DEF ApprovalCurrent
<1>13. /\ t2.lineage = t1.lineage /\ t2.version = t1.version /\ t2.lease = t1.lease
       /\ t2.hold[n].state = "held" /\ t2.hold[n].lease = Nil /\ t2.hold[n].version = v
  BY <1>4, <1>6, <1>8, <1>12, ReservingOneKeepsWork
<1> HIDE DEF t2
<1>14. ApprovalCurrent(t2, t2.hold[n].version)
  BY <1>4, <1>13 DEF ApprovalCurrent
<1>15. t2.lease[x].state = "none"
  BY <1>4, <1>13
<1>16. Kept(u, {}) /\ NoMore(t2, u)
  BY <1>10, <1>13, <1>14, <1>15, ClaimingKeepsLedger
<1> HIDE DEF u
<1>17. Ceilings(u)
  BY <1>10, <1>11, <1>16, NoMoreKeepsCeilings DEF Kept, MoneyKept
<1> QED BY <1>2, <1>16, <1>17, CommitKeepsLedger

\* A claim refused for want of money keeps the closes it made.
LEMMA PickUpSpentKeepsLedger ==
    ASSUME RuntimeInv, NEW h \in Hold, PickUpSpent(h)
    PROVE  LedgerInv'
<1> DEFINE t == Tables
           k == TaskOf(t, hold[h].version)
           t1 == LetGo(t, h)
           t2 == StoppedSpent(t1, {h}, {})
           u == Fenced(t2, k)
<1>1. Commit(u) /\ Replacing(t, h)
  BY DEF PickUpSpent
<1>2. WorkKept(t, {}) /\ Kept(t, {})
  BY LedgerFound
<1> HIDE DEF t
<1>3. Kept(t1, {}) /\ NoMore(t, t1)
  BY <1>1, <1>2, ReplacingLeavesReservable
<1> HIDE DEF t1, k
<1>4. Kept(t2, {}) /\ NoMore(t1, t2)
  BY <1>3, StoppedSpentKeepsLedger
<1> HIDE DEF t2
<1>5. Kept(u, {}) /\ NoMore(t2, u)
  BY <1>4, FencedKeepsLedger
<1> HIDE DEF u
<1>6. NoMore(t, t2)
  BY <1>2, <1>3, <1>4, NoMoreTransitive DEF Kept, MoneyKept
<1>7. NoMore(t, u)
  BY <1>2, <1>4, <1>5, <1>6, NoMoreTransitive DEF Kept, MoneyKept
<1> QED BY <1>1, <1>5, <1>7, LedgerFound, CommitNoMore DEF t

(***************************************************************************)
(* Model calls.                                                            *)
(***************************************************************************)
\* What one call has cost a hold, and what it keeps taken of it.
CostOf(r, h) == IF r.hold = h /\ r.state = "settled" THEN r.actual ELSE 0
TakenOf(r, h) == IF r.hold = h /\ CallTakes(r) THEN r.maximum ELSE 0

\* Where one call alone moves, a hold's sums move by that call.
LEMMA OneCallMoves ==
    ASSUME NEW t, NEW u, Typed(t), Typed(u), NEW c \in Call, NEW h,
           \A d \in Call : d # c => u.call[d] = t.call[d]
    PROVE  /\ Spent(u, h) - CostOf(u.call[c], h) = Spent(t, h) - CostOf(t.call[c], h)
           /\ CallsTaken(u, h) - CostOf(u.call[c], h) - TakenOf(u.call[c], h)
              = CallsTaken(t, h) - CostOf(t.call[c], h) - TakenOf(t.call[c], h)
<1> DEFINE costs(x) == [d \in Call |-> x.call[d].actual]
           maxima(x) == [d \in Call |-> x.call[d].maximum]
           P(x) == {d \in CallsOn(x, h) : x.call[d].state = "settled"}
           Q(x) == {d \in CallsOn(x, h) : CallTakes(x.call[d])}
           s(x) == SumFunctionOnSet(costs(x), P(x))
           k(x) == SumFunctionOnSet(maxima(x), Q(x))
<1>1. P(t) \in SUBSET Call /\ P(u) \in SUBSET Call /\ Q(t) \in SUBSET Call /\ Q(u) \in SUBSET Call
  BY DEF CallsOn
<1>2. P(t) \ {c} = P(u) \ {c} /\ Q(t) \ {c} = Q(u) \ {c}
  BY DEF CallsOn
<1>3. \A d \in Call : /\ costs(t)[d] \in Int /\ costs(u)[d] \in Int
                      /\ maxima(t)[d] \in Int /\ maxima(u)[d] \in Int
  BY DEF Typed, CallRow
<1>4. \A d \in Call : d # c => costs(t)[d] = costs(u)[d] /\ maxima(t)[d] = maxima(u)[d]
  OBVIOUS
<1>5. /\ costs(t)[c] = t.call[c].actual /\ costs(u)[c] = u.call[c].actual
      /\ maxima(t)[c] = t.call[c].maximum /\ maxima(u)[c] = u.call[c].maximum
  OBVIOUS
<1>6. /\ c \in P(t) <=> t.call[c].hold = h /\ t.call[c].state = "settled"
      /\ c \in P(u) <=> u.call[c].hold = h /\ u.call[c].state = "settled"
      /\ c \in Q(t) <=> t.call[c].hold = h /\ CallTakes(t.call[c])
      /\ c \in Q(u) <=> u.call[c].hold = h /\ CallTakes(u.call[c])
  BY DEF CallsOn
<1>7. Spent(t, h) = s(t) /\ Spent(u, h) = s(u)
  BY DEF Spent
<1>8. CallsTaken(t, h) = Spent(t, h) + k(t) /\ CallsTaken(u, h) = Spent(u, h) + k(u)
  BY Zenon DEF CallsTaken, CallTakes
<1> HIDE DEF costs, maxima, P, Q
<1>9. IsFiniteSet(P(t)) /\ IsFiniteSet(P(u)) /\ IsFiniteSet(Q(t)) /\ IsFiniteSet(Q(u))
  BY <1>1, RowsAssumption, FS_Subset
<1>10. s(t) \in Int /\ s(u) \in Int /\ k(t) \in Int /\ k(u) \in Int
  BY <1>1, <1>3, <1>9, SumType
<1>11. s(t) - (IF c \in P(t) THEN costs(t)[c] ELSE 0)
       = s(u) - (IF c \in P(u) THEN costs(u)[c] ELSE 0)
  BY <1>1, <1>2, <1>3, <1>4, RowsAssumption, SumBeside
<1>12. k(t) - (IF c \in Q(t) THEN maxima(t)[c] ELSE 0)
       = k(u) - (IF c \in Q(u) THEN maxima(u)[c] ELSE 0)
  BY <1>1, <1>2, <1>3, <1>4, RowsAssumption, SumBeside
<1> HIDE DEF s, k
<1>13. s(t) - CostOf(t.call[c], h) = s(u) - CostOf(u.call[c], h)
  BY <1>5, <1>6, <1>11 DEF CostOf
<1>14. k(t) - TakenOf(t.call[c], h) = k(u) - TakenOf(u.call[c], h)
  BY <1>5, <1>6, <1>12 DEF TakenOf
<1>15. /\ CostOf(t.call[c], h) \in Int /\ CostOf(u.call[c], h) \in Int
       /\ TakenOf(t.call[c], h) \in Int /\ TakenOf(u.call[c], h) \in Int
  BY <1>3, <1>5 DEF CostOf, TakenOf
<1>16. Spent(u, h) - CostOf(u.call[c], h) = Spent(t, h) - CostOf(t.call[c], h)
  BY <1>7, <1>13
<1>17. /\ Spent(t, h) \in Int /\ Spent(u, h) \in Int
       /\ CallsTaken(t, h) = Spent(t, h) + k(t) /\ CallsTaken(u, h) = Spent(u, h) + k(u)
  BY <1>7, <1>8, <1>10
<1>18. CallsTaken(u, h) - CostOf(u.call[c], h) - TakenOf(u.call[c], h)
       = CallsTaken(t, h) - CostOf(t.call[c], h) - TakenOf(t.call[c], h)
  BY <1>10, <1>14, <1>15, <1>16, <1>17
<1> QED BY <1>16, <1>18

\* Envelopes balance by their own columns and their holds'.
LEMMA SameRowsBalance ==
    ASSUME NEW t, NEW u, u.hold = t.hold, Balanced(t),
           \A e \in Envelope : u.envelope[e].held = t.envelope[e].held
                             /\ u.envelope[e].actual = t.envelope[e].actual
    PROVE  Balanced(u)
<1> DEFINE ofE(holds, e) == {h \in Hold : holds[h].envelope = e}
           amounts(holds, e) == SumFunctionOnSet([h \in Hold |-> holds[h].amount],
                                    {h \in ofE(holds, e) : holds[h].state = "held"})
           actuals(holds, e) == SumFunctionOnSet([h \in Hold |-> holds[h].actual], ofE(holds, e))
<1>1. \A e \in Envelope : /\ t.envelope[e].held = amounts(t.hold, e)
                          /\ t.envelope[e].actual = actuals(t.hold, e)
  BY DEF Balanced
<1>2. Balanced(u) <=> \A e \in Envelope : /\ u.envelope[e].held = amounts(u.hold, e)
                                         /\ u.envelope[e].actual = actuals(u.hold, e)
  BY DEF Balanced
<1> HIDE DEF amounts, actuals
<1> QED BY <1>1, <1>2

\* One call written on a held reservation that still covers what its calls take.
LEMMA CallWrittenKeepsLedger ==
    ASSUME NEW t, NEW u, Kept(t, {}), NEW c \in Call, NEW h \in Hold, t.hold[h].state = "held",
           DOMAIN u = DOMAIN t, u.lineage = t.lineage, u.version = t.version, u.hold = t.hold,
           u.lease = t.lease, u.envelope = t.envelope, u.call \in [Call -> CallRow],
           \A d \in Call : d # c => u.call[d] = t.call[d],
           u.call[c].hold = h, u.call[c].state # "none",
           t.call[c].state = "none" \/ t.call[c].hold = h,
           LET r == t.call[c]
               s == u.call[c]
           IN CallsTaken(t, h) - CostOf(r, h) - TakenOf(r, h) + CostOf(s, h) + TakenOf(s, h)
                 <= t.hold[h].amount
    PROVE  Kept(u, {}) /\ NoMore(t, u)
<1>1. Shaped(t) /\ Typed(t) /\ RowsBound(t) /\ HoldsPay(t)
  BY DEF Kept, MoneyKept
<1>2. Typed(u)
  BY <1>1 DEF Typed
<1>3. Shaped(u)
  BY <1>1 DEF Shaped, CallRow, NoCall
<1>4. VersionsWritten(u) /\ HoldsApproved(u)
  BY DEF Kept, VersionsWritten, HoldsApproved
<1>5. StopsKept(u, {})
  <2>1. MarksHold(u) /\ LeasesBound(u) /\ StopsEnd(u) /\ LineagesOpened(u)
    <3>1. StopsKept(t, {})
      BY DEF Kept
    <3>2. MarksHold(u)
      BY <3>1 DEF StopsKept, MarksHold
    <3>3. LeasesBound(u)
      BY <3>1 DEF StopsKept, LeasesBound
    <3>4. StopsEnd(u)
      BY <3>1 DEF StopsKept, StopsEnd
    <3>5. LineagesOpened(u)
      BY <3>1 DEF StopsKept, LineagesOpened
    <3> QED BY <3>2, <3>3, <3>4, <3>5
  <2>2. NewestAlone(u)
    BY DEF Kept, StopsKept, NewestAlone
  <2>3. EndedClassified(u, {})
    BY DEF Kept, StopsKept, EndedClassified, Over
  <2> QED BY <2>1, <2>2, <2>3 DEF StopsKept
<1>6. LineagesCurrent(u) /\ OneOpenEnvelope(u)
  BY DEF Kept, MoneyKept, LineagesCurrent, Current, Versions, OneOpenEnvelope
<1>7. RowsBound(u)
  BY <1>1 DEF RowsBound
<1>8. Balanced(u)
  <2>1. Balanced(t)
    BY DEF Kept, MoneyKept
  <2> QED BY <2>1, SameRowsBalance
<1>9. CallsTaken(u, h) <= t.hold[h].amount
  <2>1. /\ CallsTaken(u, h) - CostOf(u.call[c], h) - TakenOf(u.call[c], h)
           = CallsTaken(t, h) - CostOf(t.call[c], h) - TakenOf(t.call[c], h)
        /\ CallsTaken(u, h) \in Int /\ CallsTaken(t, h) \in Int
    BY <1>1, <1>2, OneCallMoves, CallSums
  <2>2. /\ CostOf(u.call[c], h) \in Int /\ TakenOf(u.call[c], h) \in Int
        /\ CostOf(t.call[c], h) \in Int /\ TakenOf(t.call[c], h) \in Int
        /\ t.hold[h].amount \in Int
    BY <1>1, <1>2 DEF Typed, CallRow, HoldRow, CostOf, TakenOf
  <2> QED BY <2>1, <2>2
<1>10. ASSUME NEW g \in Hold, g # h
       PROVE  /\ Spent(u, g) = Spent(t, g) /\ CallsTaken(u, g) = CallsTaken(t, g)
              /\ OpenCall(u, g) <=> OpenCall(t, g)
  <2>1. t.call[c].hold # g /\ u.call[c].hold # g
    BY <1>1, <1>10, NilAssumption DEF RowsBound
  <2>2. /\ CostOf(t.call[c], g) = 0 /\ CostOf(u.call[c], g) = 0
        /\ TakenOf(t.call[c], g) = 0 /\ TakenOf(u.call[c], g) = 0
    BY <2>1 DEF CostOf, TakenOf
  <2>3. /\ Spent(u, g) - CostOf(u.call[c], g) = Spent(t, g) - CostOf(t.call[c], g)
        /\ CallsTaken(u, g) - CostOf(u.call[c], g) - TakenOf(u.call[c], g)
           = CallsTaken(t, g) - CostOf(t.call[c], g) - TakenOf(t.call[c], g)
    BY <1>1, <1>2, OneCallMoves
  <2>4. /\ Spent(u, g) \in Int /\ Spent(t, g) \in Int
        /\ CallsTaken(u, g) \in Int /\ CallsTaken(t, g) \in Int
    BY <1>1, <1>2, CallSums
  <2>5. OpenCall(u, g) <=> OpenCall(t, g)
    BY <2>1 DEF OpenCall, CallsOn
  <2> QED BY <2>2, <2>3, <2>4, <2>5
<1>11. HoldsPay(u)
  BY <1>1, <1>9, <1>10 DEF HoldsPay
<1>12. NoMore(t, u)
  BY <1>1 DEF NoMore, Typed, EnvelopeRow
<1> QED BY <1>2, <1>3, <1>4, <1>5, <1>6, <1>7, <1>8, <1>11, <1>12 DEF Kept, MoneyKept

\* A call is reserved within what its hold has left.
LEMMA ReserveCallKeepsLedger ==
    ASSUME RuntimeInv, NEW x \in Lease, NEW c \in Call, NEW m \in Amounts, ReserveCall(x, c, m)
    PROVE  LedgerInv'
<1> DEFINE t == Tables
           u == Tables'
           h == t.lease[x].hold
           row == [state |-> "reserved", hold |-> h, lease |-> x, maximum |-> m, actual |-> 0]
<1>1. /\ u.lineage = t.lineage /\ u.version = t.version /\ u.hold = t.hold
      /\ u.lease = t.lease /\ u.envelope = t.envelope /\ DOMAIN u = DOMAIN t
      /\ u.call = [t.call EXCEPT ![c] = row]
  BY TablesFields DEF Tables, ReserveCall
<1>2. /\ t.lease[x].state = "live" /\ t.call[c].state = "none"
      /\ m <= t.hold[h].amount - CallsTaken(t, h)
  BY TablesFields DEF ReserveCall, CallFacts, Standing, CallFits
<1>3. WorkKept(t, {}) /\ Kept(t, {}) /\ Ceilings(t)
  BY LedgerFound
<1> HIDE DEF t, u
<1>4. h \in Hold /\ t.hold[h].state = "held"
  BY <1>2, <1>3 DEF WorkKept, WorksApproved
<1>5. Typed(t) /\ RowsBound(t)
  BY <1>3 DEF Kept, MoneyKept
<1>6. row \in CallRow /\ m \in Nat
  BY <1>4, AmountsAssumption DEF CallRow
<1>7. row.hold = h /\ row.state = "reserved" /\ row.maximum = m
  OBVIOUS
<1> HIDE DEF h, row
<1>8. /\ u.call \in [Call -> CallRow] /\ u.call[c] = row
      /\ \A d \in Call : d # c => u.call[d] = t.call[d]
  BY <1>1, <1>5, <1>6 DEF Typed
<1>9. /\ CostOf(t.call[c], h) = 0 /\ TakenOf(t.call[c], h) = 0
      /\ CostOf(u.call[c], h) = 0 /\ TakenOf(u.call[c], h) = m
  BY <1>2, <1>7, <1>8 DEF CostOf, TakenOf, CallTakes
<1>10. CallsTaken(t, h) \in Int /\ t.hold[h].amount \in Int
  BY <1>4, <1>5, CallSums DEF Typed, HoldRow
<1>11. CallsTaken(t, h) - CostOf(t.call[c], h) - TakenOf(t.call[c], h)
           + CostOf(u.call[c], h) + TakenOf(u.call[c], h) <= t.hold[h].amount
  BY <1>2, <1>6, <1>9, <1>10
<1>12. Kept(u, {}) /\ NoMore(t, u)
  BY <1>1, <1>2, <1>3, <1>4, <1>7, <1>8, <1>11, CallWrittenKeepsLedger
<1>13. Ceilings(u)
  BY <1>3, <1>12, NoMoreKeepsCeilings DEF Kept, MoneyKept
<1> QED BY <1>12, <1>13 DEF LedgerInv, u

\* A started call still takes the maximum it reserved.
LEMMA StartCallKeepsLedger ==
    ASSUME RuntimeInv, NEW c \in Call, StartCall(c)
    PROVE  LedgerInv'
<1> DEFINE t == Tables
           u == Tables'
           x == t.call[c].lease
           h == t.lease[x].hold
           row == [t.call[c] EXCEPT !.state = "dispatched"]
<1>1. /\ u.lineage = t.lineage /\ u.version = t.version /\ u.hold = t.hold
      /\ u.lease = t.lease /\ u.envelope = t.envelope /\ DOMAIN u = DOMAIN t
      /\ u.call = [t.call EXCEPT ![c] = row]
  BY TablesFields DEF Tables, StartCall
<1>2. t.call[c].state = "reserved" /\ t.hold[h].state = "held" /\ t.lease[x].state = "live"
  BY TablesFields DEF StartCall, CallFacts, Standing
<1>3. WorkKept(t, {}) /\ Kept(t, {}) /\ Ceilings(t)
  BY LedgerFound
<1> HIDE DEF t, u
<1>4. t.call[c].hold = h /\ x \in Lease
  BY <1>2, <1>3 DEF WorkKept, CallsBound
<1>5. h \in Hold
  BY <1>2, <1>3, <1>4 DEF WorkKept, WorksApproved
<1>6. Typed(t) /\ HoldsPay(t)
  BY <1>3 DEF Kept, MoneyKept
<1>7. /\ row \in CallRow /\ row.hold = h /\ row.state = "dispatched"
      /\ row.maximum = t.call[c].maximum /\ t.call[c].maximum \in Int
  BY <1>4, <1>6 DEF Typed, CallRow
<1> HIDE DEF h, row, x
<1>8. /\ u.call \in [Call -> CallRow] /\ u.call[c] = row
      /\ \A d \in Call : d # c => u.call[d] = t.call[d]
  BY <1>1, <1>6, <1>7 DEF Typed
<1>9. /\ CostOf(t.call[c], h) = 0 /\ TakenOf(t.call[c], h) = t.call[c].maximum
      /\ CostOf(u.call[c], h) = 0 /\ TakenOf(u.call[c], h) = t.call[c].maximum
  BY <1>2, <1>4, <1>7, <1>8 DEF CostOf, TakenOf, CallTakes
<1>10. CallsTaken(t, h) \in Int /\ t.hold[h].amount \in Int /\ CallsTaken(t, h) <= t.hold[h].amount
  BY <1>2, <1>5, <1>6, CallSums DEF Typed, HoldRow, HoldsPay
<1>11. CallsTaken(t, h) - CostOf(t.call[c], h) - TakenOf(t.call[c], h)
           + CostOf(u.call[c], h) + TakenOf(u.call[c], h) <= t.hold[h].amount
  BY <1>7, <1>9, <1>10
<1>12. Kept(u, {}) /\ NoMore(t, u)
  BY <1>1, <1>2, <1>3, <1>4, <1>5, <1>7, <1>8, <1>11, CallWrittenKeepsLedger
<1>13. Ceilings(u)
  BY <1>3, <1>12, NoMoreKeepsCeilings DEF Kept, MoneyKept
<1> QED BY <1>12, <1>13 DEF LedgerInv, u

\* A hold with a call that was sent is still held: no close passed it by.
LEMMA SentCallIsHeld ==
    ASSUME NEW t, Kept(t, {}), NEW c \in Call, Sent(t, c)
    PROVE  t.call[c].hold \in Hold /\ t.hold[t.call[c].hold].state = "held"
<1> DEFINE h == t.call[c].hold
<1>1. h \in Hold /\ t.hold[h].state # "none"
  BY DEF Kept, MoneyKept, RowsBound, Sent
<1>2. OpenCall(t, h)
  BY DEF OpenCall, CallsOn, Sent
<1>3. t.hold[h].state \notin {"abandoned", "actual"}
  BY <1>1, <1>2 DEF Kept, MoneyKept, HoldsPay
<1>4. t.hold[h] \in HoldRow
  BY <1>1 DEF Kept, MoneyKept, Typed
<1> QED BY <1>1, <1>3, <1>4 DEF HoldRow

\* A settled call costs its hold no more than it had reserved.
LEMMA SettleCallKeepsLedger ==
    ASSUME RuntimeInv, NEW c \in Call, NEW cost \in Amounts \cup {0}, SettleCall(c, cost)
    PROVE  LedgerInv'
<1> DEFINE t == Tables
           u == Tables'
           h == t.call[c].hold
           row == [t.call[c] EXCEPT !.state = "settled", !.actual = cost]
<1>1. /\ u.lineage = t.lineage /\ u.version = t.version /\ u.hold = t.hold
      /\ u.lease = t.lease /\ u.envelope = t.envelope /\ DOMAIN u = DOMAIN t
      /\ u.call = [t.call EXCEPT ![c] = row]
  BY TablesFields DEF Tables, SettleCall
<1>2. Sent(t, c) /\ cost <= t.call[c].maximum
  BY TablesFields DEF SettleCall
<1>3. Kept(t, {}) /\ Ceilings(t)
  BY LedgerFound
<1> HIDE DEF t, u
<1>4. h \in Hold /\ t.hold[h].state = "held"
  BY <1>2, <1>3, SentCallIsHeld
<1>5. Typed(t) /\ HoldsPay(t) /\ cost \in Nat
  BY <1>3, AmountsAssumption DEF Kept, MoneyKept
<1>6. /\ row \in CallRow /\ row.hold = h /\ row.state = "settled" /\ row.actual = cost
      /\ t.call[c].maximum \in Int
  <2> DEFINE r == t.call[c]
  <2>1. r \in CallRow
    BY <1>5 DEF Typed
  <2> HIDE DEF r
  <2> DEFINE s == [r EXCEPT !.state = "settled", !.actual = cost]
  <2>2. s \in CallRow
    BY <1>5, <2>1 DEF CallRow
  <2>3. s.hold = r.hold /\ s.state = "settled" /\ s.actual = cost /\ r.maximum \in Int
    BY <2>1 DEF CallRow
  <2> QED BY <2>2, <2>3 DEF r
<1> HIDE DEF row
<1>7. /\ u.call \in [Call -> CallRow] /\ u.call[c] = row
      /\ \A d \in Call : d # c => u.call[d] = t.call[d]
  BY <1>1, <1>5, <1>6 DEF Typed
<1>8. t.call[c].state \in {"dispatched", "liability_unknown"}
  BY <1>2 DEF Sent
<1>9. /\ CostOf(t.call[c], h) = 0 /\ TakenOf(t.call[c], h) = t.call[c].maximum
      /\ CostOf(u.call[c], h) = cost /\ TakenOf(u.call[c], h) = 0
  BY <1>6, <1>7, <1>8 DEF CostOf, TakenOf, CallTakes
<1>10. CallsTaken(t, h) \in Int /\ t.hold[h].amount \in Int /\ CallsTaken(t, h) <= t.hold[h].amount
  BY <1>4, <1>5, CallSums DEF Typed, HoldRow, HoldsPay
<1>11. CallsTaken(t, h) - CostOf(t.call[c], h) - TakenOf(t.call[c], h)
           + CostOf(u.call[c], h) + TakenOf(u.call[c], h) <= t.hold[h].amount
  BY <1>2, <1>5, <1>6, <1>9, <1>10
<1>12. u.call[c].hold = h /\ u.call[c].state # "none"
  BY <1>6, <1>7
<1> HIDE DEF h
<1>13. t.call[c].hold = h
  BY DEF h
<1>14. Kept(u, {}) /\ NoMore(t, u)
  BY <1>1, <1>3, <1>4, <1>7, <1>11, <1>12, <1>13, CallWrittenKeepsLedger
<1>15. Ceilings(u)
  BY <1>3, <1>14, NoMoreKeepsCeilings DEF Kept, MoneyKept
<1> QED BY <1>14, <1>15 DEF LedgerInv, u

\* A call released takes nothing more.
LEMMA ReleasingCallKeepsLedger ==
    ASSUME NEW t, Kept(t, {}), NEW c \in Call, t.call[c].state \notin {"none", "settled"}
    PROVE  LET u == [t EXCEPT !.call[c].state = "released"] IN
           Kept(u, {}) /\ NoMore(t, u) /\ u.lease = t.lease /\ u.hold = t.hold
<1> DEFINE row == [t.call[c] EXCEPT !.state = "released"]
           u == [t EXCEPT !.call[c] = row]
<1>1. Shaped(t) /\ Typed(t) /\ t.call[c] \in CallRow
  BY DEF Kept, MoneyKept, Typed
<1>2. u = [t EXCEPT !.call[c].state = "released"]
  BY <1>1 DEF Shaped
<1>3. /\ row \in CallRow /\ DOMAIN row = DOMAIN NoCall
      /\ row.hold = t.call[c].hold /\ row.lease = t.call[c].lease /\ row.state = "released"
      /\ row.maximum = t.call[c].maximum /\ row.actual = t.call[c].actual
  BY <1>1 DEF CallRow, NoCall
<1> HIDE DEF row
<1>4. Ends(t, u, {}, {})
  BY <1>1, <1>3, CallWrittenEnds
<1>5. /\ u.lineage = t.lineage /\ u.version = t.version /\ u.hold = t.hold
      /\ u.lease = t.lease /\ u.envelope = t.envelope
      /\ u.call = [t.call EXCEPT ![c] = row]
  BY <1>1 DEF Shaped
<1> HIDE DEF u
<1>6. /\ u.call \in [Call -> CallRow] /\ u.call[c] = row
      /\ \A d \in Call : d # c => u.call[d] = t.call[d]
  BY <1>1, <1>3, <1>5 DEF Typed
<1>7. Typed(u)
  BY <1>1, <1>5, <1>6 DEF Typed
<1>8. CallsClose(t, u)
  BY <1>3, <1>6 DEF CallsClose, CallOpen, CallTakes
<1>9. Kept(u, {}) /\ NoMore(t, u)
  BY <1>4, <1>5, <1>7, <1>8, NothingMovesLedger
<1> QED BY <1>2, <1>5, <1>9

\* Envelopes stand no higher than themselves.
LEMMA NoMoreReflexive ==
    ASSUME NEW t, Typed(t)
    PROVE  NoMore(t, t)
<1> SUFFICES ASSUME NEW e \in Envelope
             PROVE  t.envelope[e].held + t.envelope[e].actual
                       <= t.envelope[e].held + t.envelope[e].actual
  BY Zenon DEF NoMore
<1> QED BY DEF Typed, EnvelopeRow

\* An attempt stopped at a settlement is one whose lease still stands.
LEMMA StoppedAtSettlementKeepsLedger ==
    ASSUME NEW t, Kept(t, {}), LiveUnreplaced(t), NEW x \in Lease
    PROVE  Kept(StoppedAtSettlement(t, x), {}) /\ NoMore(t, StoppedAtSettlement(t, x))
<1>1. CASE Standing(t, x)
  <2>1. t.lease[x].state = "live" /\ "final" \in Codes
    BY <1>1 DEF Standing, Codes
  <2>2. StoppedAtSettlement(t, x) = Retired(t, {x}, "final")
    BY <1>1 DEF StoppedAtSettlement
  <2> QED BY <2>1, <2>2, RetiringOneKeepsLedger
<1>2. CASE ~ Standing(t, x)
  <2>1. StoppedAtSettlement(t, x) = t
    BY <1>2 DEF StoppedAtSettlement
  <2> QED BY <2>1, NoMoreReflexive DEF Kept, MoneyKept
<1> QED BY <1>1, <1>2

LEMMA SentCallHasLease ==
    ASSUME NEW t, WorkKept(t, {}), NEW c \in Call, t.call[c].state # "none"
    PROVE  t.call[c].lease \in Lease
BY DEF WorkKept, CallsBound

\* A call the provider proved undone is released, and its attempt stopped.
LEMMA ReleaseCallKeepsLedger ==
    ASSUME RuntimeInv, NEW c \in Call, ReleaseCall(c)
    PROVE  LedgerInv'
<1> DEFINE t == Tables
           x == t.call[c].lease
           t1 == [t EXCEPT !.call[c].state = "released"]
           u == StoppedAtSettlement(t1, x)
<1>1. Sent(t, c) /\ Commit(u)
  BY TablesFields DEF ReleaseCall
<1>2. WorkKept(t, {}) /\ Kept(t, {}) /\ LiveUnreplaced(t)
  BY LedgerFound
<1> HIDE DEF t
<1>3. t.call[c].state \notin {"none", "settled"}
  BY <1>1 DEF Sent
<1>4. Kept(t1, {}) /\ NoMore(t, t1) /\ t1.lease = t.lease /\ t1.hold = t.hold
  BY <1>2, <1>3, ReleasingCallKeepsLedger
<1>5. x \in Lease
  BY <1>2, <1>3, SentCallHasLease
<1> HIDE DEF t1, x
<1>6. LiveUnreplaced(t1)
  BY <1>2, <1>4 DEF LiveUnreplaced
<1>7. Kept(u, {}) /\ NoMore(t1, u)
  BY <1>4, <1>5, <1>6, StoppedAtSettlementKeepsLedger
<1> HIDE DEF u
<1>8. NoMore(t, u)
  BY <1>2, <1>4, <1>7, NoMoreTransitive DEF Kept, MoneyKept
<1> QED BY <1>1, <1>7, <1>8, LedgerFound, CommitNoMore DEF t

\* A call refused at its start is released, its attempt stopped with it or left.
LEMMA RefuseStartKeepsLedger ==
    ASSUME RuntimeInv, NEW c \in Call, RefuseStart(c)
    PROVE  LedgerInv'
<1> DEFINE t == Tables
           x == call[c].lease
           t1 == [t EXCEPT !.call[c].state = "released"]
           u == Retired(t1, {x}, "final")
<1>1. /\ call[c].state = "reserved" /\ call = t.call
      /\ Commit(t1) \/ (CallFacts(t, x) /\ Commit(u))
  <2>1. call[c].state = "reserved"
    BY DEF RefuseStart
  <2>2. call = t.call
    BY TablesFields
  <2>3. Commit(t1) \/ (CallFacts(t, x) /\ Commit(u))
    BY Zenon DEF RefuseStart
  <2> QED BY <2>1, <2>2, <2>3
<1>2. WorkKept(t, {}) /\ Kept(t, {}) /\ LiveUnreplaced(t)
  BY LedgerFound
<1>0. x = t.call[c].lease
  BY <1>1
<1> HIDE DEF t
<1>3. t.call[c].state \notin {"none", "settled"}
  BY <1>1
<1>4. Kept(t1, {}) /\ NoMore(t, t1) /\ t1.lease = t.lease /\ t1.hold = t.hold
  BY <1>2, <1>3, ReleasingCallKeepsLedger
<1>5. x \in Lease
  BY <1>2, <1>3, <1>0, SentCallHasLease
<1> HIDE DEF t1, x
<1>6. LiveUnreplaced(t1)
  BY <1>2, <1>4 DEF LiveUnreplaced
<1>7. CASE Commit(t1)
  BY <1>4, <1>7, LedgerFound, CommitNoMore DEF t
<1>8. CASE CallFacts(t, x) /\ Commit(u)
  <2>1. t1.lease[x].state = "live" /\ "final" \in Codes
    BY <1>4, <1>8 DEF CallFacts, Standing, Codes
  <2>2. Kept(u, {}) /\ NoMore(t1, u)
    BY <1>4, <1>5, <1>6, <2>1, RetiringOneKeepsLedger
  <2> HIDE DEF u
  <2>3. NoMore(t, u)
    BY <1>2, <1>4, <2>2, NoMoreTransitive DEF Kept, MoneyKept
  <2> QED BY <1>8, <2>2, <2>3, LedgerFound, CommitNoMore DEF t
<1> QED BY <1>1, <1>7, <1>8

\* A call held unknown marks a dispatched step, and moves no money.
LEMMA HeldUnknownKeepsLedger ==
    ASSUME NEW t, Kept(t, {}), NEW c \in Call
    PROVE  LET u == HeldUnknown(t, c) IN
           Kept(u, {}) /\ NoMore(t, u) /\ HoldsStay(t, u) /\ u.lease = t.lease
<1> DEFINE u == HeldUnknown(t, c)
           h == t.call[c].hold
           row == [t.call[c] EXCEPT !.state = "liability_unknown"]
           r == t.hold[h]
           marked == [r EXCEPT !.marked = @ \/ t.hold[h].attempt = "dispatched"]
<1>1. Shaped(t) /\ Typed(t)
  BY DEF Kept, MoneyKept
<1>2. CASE t.call[c].state = "dispatched"
  <2>1. /\ u.lineage = t.lineage /\ u.version = t.version /\ u.lease = t.lease
        /\ u.envelope = t.envelope
        /\ u.call = [t.call EXCEPT ![c] = row]
        /\ u.hold = [t.hold EXCEPT ![h] = marked]
    BY <1>1, <1>2 DEF Shaped, HeldUnknown
  <2>2. Ends(t, u, {}, {})
    BY <1>1, HeldUnknownEnds
  <2>3. h \in Hold
    BY <1>2, SentCallIsHeld DEF Sent
  <2>4. r \in HoldRow /\ t.call[c] \in CallRow
    BY <1>1, <2>3 DEF Typed
  <2> HIDE DEF u
  <2>5. /\ row \in CallRow /\ row.hold = t.call[c].hold /\ row.state = "liability_unknown"
        /\ row.maximum = t.call[c].maximum /\ row.actual = t.call[c].actual
    BY <2>4 DEF CallRow
  <2> HIDE DEF row
  <2>6. /\ u.call \in [Call -> CallRow] /\ u.call[c] = row
        /\ \A d \in Call : d # c => u.call[d] = t.call[d]
    BY <1>1, <2>1, <2>5 DEF Typed
  <2>7. CallsClose(t, u)
    BY <1>2, <2>5, <2>6 DEF CallsClose, CallOpen, CallTakes
  <2>8. \/ marked = r
        \/ r.attempt = "dispatched" /\ marked = [r EXCEPT !.marked = TRUE]
    <3>1. r = [r EXCEPT !.marked = r.marked]
      BY <2>4 DEF HoldRow
    <3>2. r.attempt # "dispatched" => marked = r
      BY <2>4, <3>1 DEF HoldRow
    <3>3. r.attempt = "dispatched" => marked = [r EXCEPT !.marked = TRUE]
      BY <2>4 DEF HoldRow
    <3> QED BY <3>2, <3>3
  <2>9. /\ u.hold[h] = marked /\ \A g \in Hold : g # h => u.hold[g] = t.hold[g]
        /\ u.hold = [g \in Hold |-> u.hold[g]]
    BY <1>1, <2>1, <2>3 DEF Typed
  <2> HIDE DEF marked
  <2>10. \A g \in Hold :
            \/ u.hold[g] = t.hold[g]
            \/ t.hold[g].attempt = "dispatched" /\ u.hold[g] = [t.hold[g] EXCEPT !.marked = TRUE]
    BY <2>8, <2>9
  <2>11. u.lease \in [Lease -> LeaseRow] /\ u.version \in [Version -> VersionRow]
    BY <1>1, <2>1 DEF Typed
  <2>12. Kept(u, {}) /\ NoMore(t, u) /\ HoldsStay(t, u)
    BY <2>1, <2>2, <2>6, <2>7, <2>9, <2>10, <2>11, MarkingKeepsLedger, SMTT(20)
  <2> QED BY <2>1, <2>12 DEF u
<1>3. CASE t.call[c].state # "dispatched"
  <2>1. u = t
    BY <1>3 DEF HeldUnknown
  <2>2. HoldsStay(t, u)
    BY <2>1 DEF HoldsStay
  <2> QED BY <1>1, <2>1, <2>2, NoMoreReflexive
<1> QED BY <1>2, <1>3

\* A call nobody can price keeps its money held, whatever is dropped with it.
LEMMA HoldCallKeepsLedger ==
    ASSUME RuntimeInv, NEW c \in Call, NEW drops \in BOOLEAN, HoldCall(c, drops)
    PROVE  LedgerInv'
<1> DEFINE t == Tables
           x == t.call[c].lease
           h == t.call[c].hold
           t1 == HeldUnknown(t, c)
           t2 == StoppedAtSettlement(t1, x)
           u == Classified(t2, {h})
<1>1. Sent(t, c) /\ (Commit(u) \/ Commit(t2))
  BY TablesFields DEF HoldCall
<1>2. WorkKept(t, {}) /\ Kept(t, {}) /\ LiveUnreplaced(t)
  BY LedgerFound
<1> HIDE DEF t
<1>3. Kept(t1, {}) /\ NoMore(t, t1) /\ HoldsStay(t, t1) /\ t1.lease = t.lease
  BY <1>2, HeldUnknownKeepsLedger
<1>4. x \in Lease /\ {h} \in SUBSET Hold
  <2>1. t.call[c].state # "none"
    BY <1>1 DEF Sent
  <2> QED BY <1>1, <1>2, <2>1, SentCallHasLease, SentCallIsHeld
<1> HIDE DEF t1, x, h
<1>5. LiveUnreplaced(t1)
  BY <1>2, <1>3 DEF LiveUnreplaced, HoldsStay
<1>6. Kept(t2, {}) /\ NoMore(t1, t2)
  BY <1>3, <1>4, <1>5, StoppedAtSettlementKeepsLedger
<1> HIDE DEF t2
<1>7. NoMore(t, t2)
  BY <1>2, <1>3, <1>6, NoMoreTransitive DEF Kept, MoneyKept
<1>8. Kept(u, {} \ {h}) /\ NoMore(t2, u)
  BY <1>4, <1>6, ClassifiedKeepsLedger
<1>9. Kept(u, {})
  <2>1. {} \ {h} = {}
    OBVIOUS
  <2> QED BY <1>8, <2>1
<1> HIDE DEF u
<1>10. NoMore(t, u)
  BY <1>2, <1>6, <1>7, <1>8, NoMoreTransitive, <1>9 DEF Kept, MoneyKept
<1>11. CASE Commit(u)
  BY <1>9, <1>10, <1>11, LedgerFound, CommitNoMore DEF t
<1>12. CASE Commit(t2)
  BY <1>6, <1>7, <1>12, LedgerFound, CommitNoMore DEF t
<1> QED BY <1>1, <1>11, <1>12

(***************************************************************************)
(* The effect and the clocks.                                              *)
(***************************************************************************)
\* The mark of a step is written on a dispatched attempt.
LEMMA DispatchKeepsLedger ==
    ASSUME RuntimeInv, NEW x \in Lease, Dispatch(x)
    PROVE  LedgerInv'
<1> DEFINE t == Tables
           u == Tables'
           h == t.lease[x].hold
<1>1. /\ u.lineage = t.lineage /\ u.version = t.version /\ u.lease = t.lease
      /\ u.envelope = t.envelope /\ u.call = t.call /\ DOMAIN u = DOMAIN t
      /\ u.hold = [t.hold EXCEPT ![h].marked = TRUE]
  BY TablesFields DEF Tables, Dispatch
<1>2. EffectFacts(t, x)
  BY DEF Dispatch
<1>3. WorkKept(t, {}) /\ Kept(t, {}) /\ Ceilings(t)
  BY LedgerFound
<1> HIDE DEF t, u
<1>4. t.hold[h].attempt = "dispatched" /\ h \in Hold
  <2>1. t.lease[x].state = "live"
    BY <1>2 DEF EffectFacts, Standing
  <2> QED BY <1>2, <1>3, <2>1 DEF EffectFacts, WorkKept, WorksApproved
<1>5. Shaped(t) /\ Typed(t)
  BY <1>3 DEF Kept, MoneyKept
<1>6. Ends(t, u, {}, {})
  <2>1. Shaped(u)
    BY <1>1, <1>4, <1>5 DEF Shaped, NoHold
  <2>2. HoldsClose(t, u, {})
    BY <1>1, <1>4, <1>5 DEF HoldsClose, Shaped, NoHold
  <2>3. SameApprovals(t, u) /\ LeasesEnd(t, u, {}) /\ CallsStay(t, u)
    BY <1>1 DEF SameApprovals, LeasesEnd, CallsStay
  <2> QED BY <2>1, <2>2, <2>3 DEF Ends
<1>7. /\ u.hold[h] = [t.hold[h] EXCEPT !.marked = TRUE]
      /\ \A g \in Hold : g # h => u.hold[g] = t.hold[g]
      /\ u.hold = [g \in Hold |-> u.hold[g]]
  BY <1>1, <1>4, <1>5 DEF Typed
<1>8. /\ u.lease \in [Lease -> LeaseRow] /\ u.version \in [Version -> VersionRow]
      /\ u.call \in [Call -> CallRow] /\ CallsClose(t, u)
  BY <1>1, <1>5, SameCallsClose DEF Typed
<1>9. \A g \in Hold :
         \/ u.hold[g] = t.hold[g]
         \/ t.hold[g].attempt = "dispatched" /\ u.hold[g] = [t.hold[g] EXCEPT !.marked = TRUE]
  BY <1>4, <1>7
<1>10. Kept(u, {}) /\ NoMore(t, u)
  <2>1. u.envelope = t.envelope
    BY <1>1
  <2>2. u.hold = [g \in Hold |-> u.hold[g]]
    BY <1>7
  <2> HIDE DEF h
  <2> QED BY <1>3, <1>6, <1>8, <1>9, <2>1, <2>2, MarkingKeepsLedger
<1>11. Ceilings(u)
  BY <1>3, <1>10, NoMoreKeepsCeilings DEF Kept, MoneyKept
<1> QED BY <1>10, <1>11 DEF LedgerInv, u

\* A clock that passes moves nothing.
LEMMA LapseLeaseKeepsLedger ==
    ASSUME RuntimeInv, NEW x \in Lease, LapseLease(x)
    PROVE  LedgerInv'
<1> DEFINE t == Tables
           u == Tables'
<1>1. /\ u.lineage = t.lineage /\ u.version = t.version /\ u.hold = t.hold
      /\ u.envelope = t.envelope /\ u.call = t.call /\ DOMAIN u = DOMAIN t
      /\ u.lease = [t.lease EXCEPT ![x].lapsed = TRUE]
  BY TablesFields DEF Tables, LapseLease
<1>2. Kept(t, {}) /\ Ceilings(t)
  BY LedgerFound
<1> HIDE DEF t, u
<1>3. Shaped(t) /\ Typed(t)
  BY <1>2 DEF Kept, MoneyKept
<1>4. Ends(t, u, {}, {})
  <2>1. Shaped(u)
    BY <1>1, <1>3 DEF Shaped, NoLease
  <2>2. LeasesEnd(t, u, {})
    BY <1>1, <1>3 DEF LeasesEnd, Shaped, NoLease
  <2>3. SameApprovals(t, u) /\ HoldsClose(t, u, {}) /\ CallsStay(t, u)
    BY <1>1 DEF SameApprovals, HoldsClose, CallsStay
  <2> QED BY <2>1, <2>2, <2>3 DEF Ends
<1>5. u.lease \in [Lease -> LeaseRow]
  <2>1. t.lease[x] \in LeaseRow
    BY <1>3 DEF Typed
  <2>2. [t.lease[x] EXCEPT !.lapsed = TRUE] \in LeaseRow
    BY <2>1 DEF LeaseRow
  <2> QED BY <1>1, <1>3, <2>2 DEF Typed
<1>6. Typed(u) /\ CallsClose(t, u)
  BY <1>1, <1>3, <1>5, SameCallsClose DEF Typed
<1>7. Kept(u, {}) /\ NoMore(t, u)
  BY <1>1, <1>2, <1>4, <1>6, NothingMovesLedger
<1>8. Ceilings(u)
  BY <1>2, <1>7, NoMoreKeepsCeilings DEF Kept, MoneyKept
<1> QED BY <1>7, <1>8 DEF LedgerInv, u

LEMMA LapseGateKeepsLedger ==
    ASSUME RuntimeInv, NEW v \in Version, LapseGate(v)
    PROVE  LedgerInv'
<1> DEFINE t == Tables
           u == Tables'
<1>1. /\ u.lineage = t.lineage /\ u.hold = t.hold /\ u.lease = t.lease
      /\ u.envelope = t.envelope /\ u.call = t.call /\ DOMAIN u = DOMAIN t
      /\ u.version = [t.version EXCEPT ![v].lapsed = TRUE]
  BY TablesFields DEF Tables, LapseGate
<1>2. Kept(t, {}) /\ Ceilings(t)
  BY LedgerFound
<1> HIDE DEF t, u
<1>3. Shaped(t) /\ Typed(t)
  BY <1>2 DEF Kept, MoneyKept
<1>4. Ends(t, u, {}, {})
  <2>1. Shaped(u)
    BY <1>1, <1>3 DEF Shaped, NoVersion
  <2>2. SameApprovals(t, u)
    BY <1>1, <1>3 DEF SameApprovals, Shaped, NoVersion
  <2>3. LeasesEnd(t, u, {}) /\ HoldsClose(t, u, {}) /\ CallsStay(t, u)
    BY <1>1 DEF LeasesEnd, HoldsClose, CallsStay
  <2> QED BY <2>1, <2>2, <2>3 DEF Ends
<1>5. u.version \in [Version -> VersionRow]
  <2>1. t.version[v] \in VersionRow
    BY <1>3 DEF Typed
  <2>2. [t.version[v] EXCEPT !.lapsed = TRUE] \in VersionRow
    BY <2>1 DEF VersionRow
  <2> QED BY <1>1, <1>3, <2>2 DEF Typed
<1>6. Kept(u, {}) /\ NoMore(t, u)
  BY <1>1, <1>2, <1>4, <1>5, RunsKeepLedger
<1>7. Ceilings(u)
  BY <1>2, <1>6, NoMoreKeepsCeilings DEF Kept, MoneyKept
<1> QED BY <1>6, <1>7 DEF LedgerInv, u

(***************************************************************************)
(* Proposals.                                                              *)
(***************************************************************************)
\* The rounds a lineage has used are counted.
LEMMA RoundType ==
    ASSUME NEW t, Typed(t), NEW l
    PROVE  RoundsUsed(t, l) \in Nat
<1> DEFINE R == {v \in Versions(t, l) : t.version[v].gate = "changes_requested"}
<1>1. R \subseteq Version
  BY DEF Versions
<1>2. RoundsUsed(t, l) = Cardinality(R) + 1
  BY DEF RoundsUsed
<1> HIDE DEF R
<1>3. Cardinality(R) \in Nat
  BY <1>1, RowsAssumption, FS_Subset, FS_CardinalityType
<1> QED BY <1>2, <1>3

\* The rows a proposal leaves: its own, the superseded version's, the others.
LEMMA ProposalRows ==
    ASSUME NEW t, Shaped(t), Typed(t), NEW v \in Version, t.version[v].state = "none",
           NEW l \in Lineage, NEW maximum \in Nat, NEW reviewed \in BOOLEAN
    PROVE  LET u == ProposalWritten(t, v, l, maximum, reviewed) IN
           /\ u.lineage = t.lineage /\ u.hold = t.hold /\ u.lease = t.lease
           /\ u.envelope = t.envelope /\ u.call = t.call /\ DOMAIN u = DOMAIN t
           /\ u.version \in [Version -> VersionRow]
           /\ u.version[v].state = "current" /\ u.version[v].lineage = l
           /\ u.version[v].gate = "pending" /\ u.version[v].maximum = maximum
           /\ \A w \in Version : w # v =>
                 /\ u.version[w].lineage = t.version[w].lineage
                 /\ u.version[w].gate = "approved" <=> t.version[w].gate = "approved"
                 /\ IF w \in Current(t, l) THEN u.version[w].state = "superseded"
                    ELSE u.version[w] = t.version[w]
<1> DEFINE u == ProposalWritten(t, v, l, maximum, reviewed)
           previous == Current(t, l)
           pending == {p \in previous : t.version[p].gate = "pending"}
           round == IF previous = {} THEN 1
                    ELSE IF pending = {} THEN RoundsUsed(t, l)
                    ELSE t.version[CHOOSE p \in pending : TRUE].round
           row == [state |-> "current", lineage |-> l, maximum |-> maximum,
                   reviewed |-> reviewed, gate |-> "pending", round |-> round,
                   lapsed |-> FALSE, run |-> "planned", asks |-> 0]
           ended(w) == [t.version[w] EXCEPT !.state = "superseded",
                                            !.gate = IF w \in pending THEN "superseded" ELSE @]
<1>1. /\ u.lineage = t.lineage /\ u.hold = t.hold /\ u.lease = t.lease
      /\ u.envelope = t.envelope /\ u.call = t.call /\ DOMAIN u = DOMAIN t
      /\ u.version = [w \in Version |-> IF w = v THEN row
                                        ELSE IF w \in previous THEN ended(w) ELSE t.version[w]]
  BY DEF Shaped, ProposalWritten
<1>2. round \in Nat
  <2>1. RoundsUsed(t, l) \in Nat
    BY RoundType
  <2>2. ASSUME pending # {}
        PROVE  t.version[CHOOSE p \in pending : TRUE].round \in Nat
    <3> DEFINE p == CHOOSE p \in pending : TRUE
    <3>1. p \in pending
      BY <2>2
    <3>2. p \in Version
      BY <3>1 DEF Current, Versions
    <3> HIDE DEF p
    <3>3. t.version[p].round \in Nat
      BY <3>2 DEF Typed, VersionRow
    <3> QED BY <3>3 DEF p
  <2> QED BY <2>1, <2>2
<1> HIDE DEF u, round
<1>3. /\ row \in VersionRow /\ row.state = "current" /\ row.lineage = l /\ row.gate = "pending"
      /\ row.maximum = maximum
  BY <1>2 DEF VersionRow, GateStates, RunStates
<1> HIDE DEF row
<1>4. ASSUME NEW w \in Version
      PROVE  /\ ended(w) \in VersionRow /\ ended(w).state = "superseded"
             /\ ended(w).lineage = t.version[w].lineage
             /\ ended(w).gate = "approved" <=> t.version[w].gate = "approved"
  <2> DEFINE r == t.version[w]
             gate == IF w \in pending THEN "superseded" ELSE r.gate
             s == [r EXCEPT !.state = "superseded", !.gate = gate]
  <2>1. r \in VersionRow
    BY DEF Typed
  <2>2. w \in pending => r.gate = "pending"
    OBVIOUS
  <2>3. ended(w) = s
    OBVIOUS
  <2>4. gate \in GateStates /\ (gate = "approved" <=> r.gate = "approved")
    BY <2>1, <2>2 DEF VersionRow, GateStates
  <2> HIDE DEF r, gate, ended
  <2>5. s \in VersionRow
    BY <2>1, <2>4 DEF VersionRow
  <2>6. s.state = "superseded" /\ s.lineage = r.lineage /\ s.gate = gate
    BY <2>1 DEF VersionRow
  <2> HIDE DEF s
  <2> QED BY <2>3, <2>4, <2>5, <2>6 DEF r
<1> HIDE DEF previous, ended, pending
<1>5. u.version[v] = row
  BY <1>1
<1>6. ASSUME NEW w \in Version, w # v
      PROVE  u.version[w] = IF w \in previous THEN ended(w) ELSE t.version[w]
  BY <1>1, <1>6
<1>7. u.version \in [Version -> VersionRow]
  BY <1>1, <1>3, <1>4 DEF Typed
<1>8. \A w \in Version : w # v =>
         /\ u.version[w].lineage = t.version[w].lineage
         /\ u.version[w].gate = "approved" <=> t.version[w].gate = "approved"
         /\ IF w \in previous THEN u.version[w].state = "superseded"
            ELSE u.version[w] = t.version[w]
  BY <1>4, <1>6
<1>9. /\ u.version[v].state = "current" /\ u.version[v].lineage = l
      /\ u.version[v].gate = "pending" /\ u.version[v].maximum = maximum
  BY <1>3, <1>5
<1>10. /\ u.lineage = t.lineage /\ u.hold = t.hold /\ u.lease = t.lease
       /\ u.envelope = t.envelope /\ u.call = t.call /\ DOMAIN u = DOMAIN t
  BY <1>1
<1> QED BY <1>7, <1>8, <1>9, <1>10 DEF u, previous

\* Money rests on holds, envelopes and calls alone.
LEMMA SameMoneyKept ==
    ASSUME NEW t, NEW u, MoneyKept(t), Typed(u), LineagesCurrent(u),
           u.hold = t.hold, u.envelope = t.envelope, u.call = t.call
    PROVE  MoneyKept(u) /\ NoMore(t, u)
<1>1. Typed(t) /\ RowsBound(t) /\ HoldsPay(t) /\ Balanced(t) /\ OneOpenEnvelope(t)
  BY DEF MoneyKept
<1>2. RowsBound(u) /\ OneOpenEnvelope(u)
  BY <1>1 DEF RowsBound, OneOpenEnvelope
<1>3. Balanced(u)
  BY <1>1, SameRowsBalance
<1>4. HoldsPay(u)
  <2> SUFFICES ASSUME NEW h \in Hold
               PROVE  /\ u.hold[h].state = "held" =>
                            u.hold[h].actual = 0 /\ CallsTaken(u, h) <= u.hold[h].amount
                      /\ u.hold[h].state \in {"abandoned", "actual"} =>
                            ~ OpenCall(u, h) /\ u.hold[h].actual = Spent(u, h)
    BY DEF HoldsPay
  <2>1. CallsClose(t, u)
    BY SameCallsClose
  <2>2. /\ Spent(u, h) = Spent(t, h) /\ (OpenCall(u, h) => OpenCall(t, h))
        /\ CallsTaken(u, h) <= CallsTaken(t, h)
        /\ CallsTaken(u, h) \in Nat /\ CallsTaken(t, h) \in Nat
    BY <1>1, <2>1, CallsCloseSums, CallSums
  <2>3. t.hold[h].amount \in Int
    BY <1>1 DEF Typed, HoldRow
  <2> QED BY <1>1, <2>2, <2>3 DEF HoldsPay
<1>5. NoMore(t, u)
  BY <1>1, NoMoreReflexive DEF NoMore
<1> QED BY <1>1, <1>2, <1>3, <1>4, <1>5 DEF MoneyKept

\* A proposal, under a lineage live or just opened, leaves to be classified only
\* the holds of the version it supersedes.
LEMMA ProposalKeepsLedger ==
    ASSUME NEW t, Kept(t, {}), NEW v \in Version, t.version[v].state = "none", NEW l \in Lineage,
           NEW maximum \in Nat, NEW reviewed \in BOOLEAN,
           NEW t1, Shaped(t1), t1.version = t.version, t1.hold = t.hold, t1.lease = t.lease,
           t1.envelope = t.envelope, t1.call = t.call,
           t1.lineage \in [Lineage -> LineageRow],
           \A m \in Lineage : m # l => t1.lineage[m] = t.lineage[m],
           t1.lineage[l].state # "none",
           t1.lineage[l] = t.lineage[l] \/ t.lineage[l].state = "none"
    PROVE  LET u == ProposalWritten(t1, v, l, maximum, reviewed) IN
           /\ Kept(u, HeldOn(t, Current(t, l))) /\ NoMore(t, u)
           /\ u.lineage = t1.lineage /\ u.hold = t.hold /\ u.lease = t.lease
           /\ u.envelope = t.envelope /\ u.call = t.call
           /\ u.version[v].maximum = maximum
           /\ \A w \in Version : w # v /\ t.version[w].state = "none" => u.version[w].state = "none"
<1> DEFINE u == ProposalWritten(t1, v, l, maximum, reviewed)
           previous == Current(t, l)
           S == HeldOn(t, previous)
<1>1. Shaped(t) /\ Typed(t) /\ VersionsWritten(t) /\ HoldsApproved(t) /\ StopsKept(t, {})
      /\ MoneyKept(t)
  BY DEF Kept, MoneyKept
<1>2. Typed(t1)
  BY <1>1 DEF Typed
<1>3. Current(t1, l) = previous
  BY DEF Current, Versions
<1>4. /\ u.lineage = t1.lineage /\ u.hold = t.hold /\ u.lease = t.lease
      /\ u.envelope = t.envelope /\ u.call = t.call /\ DOMAIN u = DOMAIN t1
      /\ u.version \in [Version -> VersionRow]
      /\ u.version[v].state = "current" /\ u.version[v].lineage = l
      /\ u.version[v].gate = "pending" /\ u.version[v].maximum = maximum
  BY <1>2, ProposalRows
<1>5. \A w \in Version : w # v =>
         /\ u.version[w].lineage = t.version[w].lineage
         /\ u.version[w].gate = "approved" <=> t.version[w].gate = "approved"
         /\ IF w \in previous THEN u.version[w].state = "superseded"
            ELSE u.version[w] = t.version[w]
  BY <1>2, <1>3, ProposalRows
<1>6. \A w \in previous : w \in Version /\ t.version[w].lineage = l /\ t.version[w].state = "current"
  BY DEF Current, Versions
<1>7. \A h \in S : h \in Hold
  BY DEF HeldOn
<1>8. \A h \in Hold : t.hold[h].state = "held" /\ t.hold[h].version \in previous => h \in S
  BY DEF HeldOn
<1> HIDE DEF u, previous, S
<1>9. Typed(u)
  BY <1>1, <1>4 DEF Typed
<1>10. Shaped(u)
  <2>1. \A w \in Version : DOMAIN u.version[w] = DOMAIN NoVersion
    BY <1>4 DEF VersionRow, NoVersion
  <2> QED BY <1>1, <1>4, <2>1 DEF Shaped, Typed
<1>11. VersionsWritten(u)
  BY <1>1, <1>4, <1>5, <1>6 DEF VersionsWritten
<1>12. ASSUME NEW h \in Hold, t.hold[h].state # "none"
       PROVE  /\ t.hold[h].version \in Version /\ t.hold[h].version # v
              /\ t.version[t.hold[h].version].gate = "approved"
              /\ t.version[t.hold[h].version].lineage \in Lineage
  BY <1>1, <1>12 DEF HoldsApproved, VersionsWritten
<1>13. HoldsApproved(u)
  BY <1>1, <1>4, <1>5, <1>12 DEF HoldsApproved
<1>14. LineagesOpened(u)
  <2>1. LineagesOpened(t)
    BY <1>1 DEF StopsKept
  <2>2. ASSUME NEW m \in Lineage, t.lineage[m].state # "none"
        PROVE  u.lineage[m].state # "none"
    BY <1>4, <2>2
  <2> SUFFICES ASSUME NEW w \in Version, u.version[w].state # "none"
               PROVE  u.lineage[u.version[w].lineage].state # "none"
    BY DEF LineagesOpened
  <2>3. CASE w = v
    BY <1>4, <2>3
  <2>4. CASE w # v
    <3>1. t.version[w].state # "none" /\ u.version[w].lineage = t.version[w].lineage
      BY <1>5, <1>6, <2>4
    <3>2. t.version[w].lineage \in Lineage /\ t.lineage[t.version[w].lineage].state # "none"
      BY <1>1, <2>1, <3>1 DEF VersionsWritten, LineagesOpened
    <3> QED BY <2>2, <3>1, <3>2
  <2> QED BY <2>3, <2>4
<1>15. LineagesCurrent(u)
  <2> SUFFICES ASSUME NEW m \in Lineage, u.lineage[m].state # "none"
               PROVE  Current(u, m) # {}
    BY DEF LineagesCurrent
  <2>1. CASE m = l
    BY <1>4, <2>1 DEF Current, Versions
  <2>2. CASE m # l
    <3>1. t.lineage[m].state # "none"
      BY <1>4, <2>2
    <3>2. PICK w \in Version : t.version[w].lineage = m /\ t.version[w].state = "current"
      BY <1>1, <3>1 DEF MoneyKept, LineagesCurrent, Current, Versions
    <3>3. w # v /\ w \notin previous
      BY <1>6, <2>2, <3>2
    <3>4. u.version[w] = t.version[w]
      BY <1>5, <3>3
    <3> QED BY <3>2, <3>4 DEF Current, Versions
  <2> QED BY <2>1, <2>2
<1>16. EndedClassified(u, S)
  <2> SUFFICES ASSUME NEW h \in Hold, h \notin S, u.hold[h].state = "held",
                      Over(u, u.hold[h].version)
               PROVE  u.hold[h].attempt = "liability_unknown"
    BY DEF EndedClassified
  <2> DEFINE w == t.hold[h].version
             m == t.version[w].lineage
  <2>1. u.hold[h] = t.hold[h] /\ t.hold[h].state = "held"
    BY <1>4
  <2>2. w \in Version /\ w # v /\ w \notin previous /\ m \in Lineage
        /\ t.version[w].state # "none"
    BY <1>1, <1>8, <1>12, <2>1 DEF VersionsWritten
  <2>3. Over(u, w)
    BY <2>1
  <2> HIDE DEF w
  <2>4. u.version[w] = t.version[w]
    BY <1>5, <2>2
  <2>5. t.lineage[m].state # "none"
    BY <1>1, <2>2 DEF StopsKept, LineagesOpened
  <2> HIDE DEF m
  <2>6. u.lineage[m] = t.lineage[m]
    BY <1>4, <2>2, <2>5
  <2>7. u.version[w].lineage = m
    BY <2>4 DEF m
  <2>8. Over(t, w)
    BY <2>3, <2>4, <2>6, <2>7 DEF Over
  <2> QED BY <1>1, <2>1, <2>8 DEF StopsKept, EndedClassified, w
<1>17. MarksHold(u) /\ LeasesBound(u) /\ StopsEnd(u) /\ NewestAlone(u)
  <2>1. MarksHold(u) /\ LeasesBound(u) /\ StopsEnd(u)
    BY <1>1, <1>4 DEF StopsKept, MarksHold, LeasesBound, StopsEnd
  <2>2. NewestAlone(u)
    BY <1>1, <1>4 DEF StopsKept, NewestAlone
  <2> QED BY <2>1, <2>2
<1>18. MoneyKept(u) /\ NoMore(t, u)
  BY <1>1, <1>4, <1>9, <1>15, SameMoneyKept
<1>19. Kept(u, S)
  BY <1>10, <1>11, <1>13, <1>14, <1>16, <1>17, <1>18 DEF Kept, StopsKept
<1>20. \A w \in Version : w # v /\ t.version[w].state = "none" => u.version[w].state = "none"
  BY <1>5, <1>6
<1> QED BY <1>4, <1>18, <1>19, <1>20 DEF u, S, previous

\* A lineage opened for a proposal.
LEMMA OpenedRows ==
    ASSUME NEW t, Shaped(t), Typed(t), NEW l \in Lineage, NEW k \in Task \cup {Nil},
           NEW restarts \in Lineage \cup {Nil}
    PROVE  LET u == Opened(t, l, k, restarts) IN
           /\ Shaped(u) /\ u.lineage \in [Lineage -> LineageRow]
           /\ u.version = t.version /\ u.hold = t.hold /\ u.lease = t.lease
           /\ u.envelope = t.envelope /\ u.call = t.call
           /\ \A m \in Lineage : m # l => u.lineage[m] = t.lineage[m]
           /\ u.lineage[l].state # "none"
<1> DEFINE u == Opened(t, l, k, restarts)
           row == [state |-> "live", task |-> k, restarts |-> restarts]
<1>1. /\ u.version = t.version /\ u.hold = t.hold /\ u.lease = t.lease
      /\ u.envelope = t.envelope /\ u.call = t.call /\ DOMAIN u = DOMAIN t
      /\ u.lineage = [t.lineage EXCEPT ![l] = row]
  BY DEF Shaped, Opened
<1>2. row \in LineageRow /\ DOMAIN row = DOMAIN NoLineage /\ row.state = "live"
  BY DEF LineageRow, NoLineage
<1> HIDE DEF u, row
<1>3. u.lineage \in [Lineage -> LineageRow] /\ u.lineage[l] = row
      /\ \A m \in Lineage : m # l => u.lineage[m] = t.lineage[m]
  BY <1>1, <1>2 DEF Typed
<1>4. Shaped(u)
  BY <1>1, <1>2, <1>3 DEF Shaped
<1> QED BY <1>1, <1>2, <1>3, <1>4 DEF u

\* Superseding writes no version.
LEMMA SupersedingVersions ==
    ASSUME NEW t, Shaped(t), NEW V
    PROVE  Superseding(t, V).version = t.version
<1> DEFINE p == Stopped(t, LiveOn(t, V), "final")
           q == Ended(p, LiveOn(t, V), "released")
           r == Revoked(q, LiveOn(t, V))
<1>1. p.version = t.version /\ DOMAIN p = DOMAIN t
  BY DEF Shaped, Stopped
<1>2. Superseding(t, V) = Classified(r, HeldOn(t, V))
  BY Zenon DEF Superseding, Retired
<1> HIDE DEF p
<1>3. q.version = p.version /\ DOMAIN q = DOMAIN p
  BY <1>1 DEF Shaped, Ended
<1> HIDE DEF q
<1>4. r.version = q.version /\ DOMAIN r = DOMAIN q
  BY <1>1, <1>3 DEF Shaped, Revoked
<1> HIDE DEF r
<1>5. Classified(r, HeldOn(t, V)).version = r.version
  BY <1>1, <1>3, <1>4 DEF Shaped, Classified
<1> QED BY <1>1, <1>2, <1>3, <1>4, <1>5

\* A proposal classifies the holds of the version it supersedes, and leaves room for
\* its own maximum under the cap.
LEMMA ProposeKeepsLedger ==
    ASSUME RuntimeInv, NEW k \in Task, NEW l \in Lineage, NEW v \in Version, NEW m \in Amounts,
           NEW revision \in BOOLEAN, Propose(k, l, v, m, revision)
    PROVE  LedgerInv' /\ ProposalsFit
<1> DEFINE t == Tables
           opens == lineage[l].state = "none"
           t1 == IF opens THEN Opened(t, l, k, Nil) ELSE t
           t2 == ProposalWritten(t1, v, l, m, revision)
           V == Current(t, l)
           u == Superseding(t2, V)
           back == ReleasedOnClosing(t, HeldOn(t, V))
<1>1. /\ version[v].state = "none" /\ (opens \/ lineage[l].state = "live")
      /\ BudgetRoomToPropose(t, k, l, m) /\ Commit(u)
  BY Zenon DEF Propose
<1>2. WorkKept(t, {}) /\ Kept(t, {}) /\ LiveUnreplaced(t) /\ t.lineage = lineage
      /\ t.version = version
  BY LedgerFound, TablesFields
<1> HIDE DEF t
<1>3. Shaped(t) /\ Typed(t)
  BY <1>2 DEF Kept, MoneyKept
<1>4. /\ Shaped(t1) /\ t1.version = t.version /\ t1.hold = t.hold /\ t1.lease = t.lease
      /\ t1.envelope = t.envelope /\ t1.call = t.call
      /\ t1.lineage \in [Lineage -> LineageRow]
      /\ \A n \in Lineage : n # l => t1.lineage[n] = t.lineage[n]
      /\ t1.lineage[l].state # "none"
      /\ t1.lineage[l] = t.lineage[l] \/ t.lineage[l].state = "none"
  <2>1. CASE opens
    <3> DEFINE w == Opened(t, l, k, Nil)
    <3>1. /\ Shaped(w) /\ w.lineage \in [Lineage -> LineageRow]
          /\ w.version = t.version /\ w.hold = t.hold /\ w.lease = t.lease
          /\ w.envelope = t.envelope /\ w.call = t.call
          /\ \A n \in Lineage : n # l => w.lineage[n] = t.lineage[n]
          /\ w.lineage[l].state # "none"
      BY <1>3, OpenedRows
    <3>2. t1 = w /\ t.lineage[l].state = "none"
      BY <1>2, <2>1
    <3> HIDE DEF w
    <3> QED BY <3>1, <3>2
  <2>2. CASE ~ opens
    <3>1. t1 = t /\ t.lineage[l].state # "none"
      BY <1>2, <2>2
    <3> QED BY <1>3, <3>1 DEF Typed
  <2> QED BY <2>1, <2>2
<1> HIDE DEF t1
<1>5. m \in Nat
  BY AmountsAssumption
<1>6. /\ Kept(t2, HeldOn(t, V)) /\ NoMore(t, t2) /\ t2.hold = t.hold /\ t2.lease = t.lease
      /\ t2.call = t.call /\ t2.version[v].maximum = m
      /\ \A w \in Version : w # v /\ t.version[w].state = "none" => t2.version[w].state = "none"
  BY <1>1, <1>2, <1>4, <1>5, ProposalKeepsLedger
<1>7. CapFits(t, m - back)
  BY <1>1 DEF BudgetRoomToPropose
<1> HIDE DEF t2, V
<1>8. HeldOn(t2, V) = HeldOn(t, V)
  BY <1>6 DEF HeldOn
<1>9. LiveUnreplaced(t2)
  BY <1>2, <1>6 DEF LiveUnreplaced
<1>10. Kept(t2, HeldOn(t2, V))
  BY <1>6, <1>8
<1>11. Kept(u, {}) /\ NoMore(t2, u)
  BY <1>9, <1>10, SupersedingKeepsLedger
<1>12. /\ back \in Int /\ Committed(t2) \in Int /\ Committed(u) \in Int
       /\ Committed(u) <= Committed(t2) - back
  BY <1>3, <1>6, <1>9, <1>10, SupersedingReleases
<1>13. u.version = t2.version
  BY <1>10, SupersedingVersions DEF Kept
<1> HIDE DEF u
<1>14. NoMore(t, u)
  BY <1>2, <1>6, <1>11, NoMoreTransitive DEF Kept, MoneyKept
<1>15. FitsCap(t, u)
  <2>1. Committed(t2) <= Committed(t) /\ Committed(t) \in Int
    BY <1>3, <1>6, NoMoreCommits DEF Kept, MoneyKept
  <2>2. Committed(t) + (m - back) <= CapLimit /\ CapLimit \in Int
    BY <1>7, LimitsAssumption DEF CapFits
  <2> HIDE DEF back
  <2>3. Committed(u) + m <= CapLimit
    BY <1>5, <1>12, <2>1, <2>2
  <2>4. \A w \in Version : t.version[w].state = "none" /\ u.version[w].state = "current" => w = v
    BY <1>6, <1>13
  <2> QED BY <1>6, <1>13, <2>3, <2>4 DEF FitsCap
<1>16. LedgerInv'
  BY <1>1, <1>11, <1>14, LedgerFound, CommitNoMore DEF t
<1> QED BY <1>1, <1>15, <1>16, CommitFits DEF t

\* Envelopes opened or closed with their balances as they were.
LEMMA EnvelopesWrittenKeepLedger ==
    ASSUME NEW t, NEW u, NEW S, Kept(t, S), DOMAIN u = DOMAIN t,
           u.lineage = t.lineage, u.version = t.version, u.hold = t.hold,
           u.lease = t.lease, u.call = t.call, u.envelope \in [Envelope -> EnvelopeRow],
           \A e \in Envelope : /\ u.envelope[e].held = t.envelope[e].held
                               /\ u.envelope[e].actual = t.envelope[e].actual
                               /\ t.envelope[e].state # "none" => u.envelope[e].state # "none",
           OneOpenEnvelope(u)
    PROVE  Kept(u, S) /\ Committed(u) = Committed(t)
<1>1. Shaped(t) /\ Typed(t) /\ RowsBound(t) /\ HoldsPay(t) /\ Balanced(t) /\ LineagesCurrent(t)
  BY DEF Kept, MoneyKept
<1>2. Typed(u) /\ Shaped(u)
  BY <1>1 DEF Typed, Shaped
<1>3. VersionsWritten(u) /\ HoldsApproved(u)
  BY DEF Kept, VersionsWritten, HoldsApproved
<1>4. StopsKept(u, S)
  <2>1. MarksHold(u) /\ LeasesBound(u) /\ StopsEnd(u) /\ LineagesOpened(u)
    BY DEF Kept, StopsKept, MarksHold, LeasesBound, StopsEnd, LineagesOpened
  <2>2. NewestAlone(u)
    BY DEF Kept, StopsKept, NewestAlone
  <2>3. EndedClassified(u, S)
    BY DEF Kept, StopsKept, EndedClassified, Over
  <2> QED BY <2>1, <2>2, <2>3 DEF StopsKept
<1>5. LineagesCurrent(u)
  BY <1>1 DEF LineagesCurrent, Current, Versions
<1>6. RowsBound(u)
  BY <1>1 DEF RowsBound
<1>7. HoldsPay(u)
  <2> SUFFICES ASSUME NEW h \in Hold
               PROVE  /\ u.hold[h].state = "held" =>
                            u.hold[h].actual = 0 /\ CallsTaken(u, h) <= u.hold[h].amount
                      /\ u.hold[h].state \in {"abandoned", "actual"} =>
                            ~ OpenCall(u, h) /\ u.hold[h].actual = Spent(u, h)
    BY DEF HoldsPay
  <2>1. CallsClose(t, u)
    BY SameCallsClose
  <2>2. /\ Spent(u, h) = Spent(t, h) /\ (OpenCall(u, h) => OpenCall(t, h))
        /\ CallsTaken(u, h) <= CallsTaken(t, h)
        /\ CallsTaken(u, h) \in Nat /\ CallsTaken(t, h) \in Nat
    BY <1>1, <1>2, <2>1, CallsCloseSums, CallSums
  <2>3. t.hold[h].amount \in Int
    BY <1>1 DEF Typed, HoldRow
  <2> QED BY <1>1, <2>2, <2>3 DEF HoldsPay
<1>8. Balanced(u)
  BY <1>1, SameRowsBalance
<1>9. Committed(u) = Committed(t)
  <2>1. [e \in Envelope |-> u.envelope[e].held + u.envelope[e].actual]
        = [e \in Envelope |-> t.envelope[e].held + t.envelope[e].actual]
    OBVIOUS
  <2> QED BY <2>1, Zenon DEF Committed
<1> QED BY <1>2, <1>3, <1>4, <1>5, <1>6, <1>7, <1>8, <1>9 DEF Kept, MoneyKept

\* A restart repeats an ended lineage under the cap and closes its task's envelope.
LEMMA RestartKeepsLedger ==
    ASSUME RuntimeInv, NEW old \in Lineage, NEW l \in Lineage, NEW v \in Version, Restart(old, l, v)
    PROVE  LedgerInv' /\ ProposalsFit
<1> DEFINE t == Tables
           k == lineage[old].task
           last == CHOOSE w \in Current(t, old) : TRUE
           maximum == version[last].maximum
           t1 == Opened(t, l, k, old)
           t2 == ProposalWritten(t1, v, l, maximum, FALSE)
           closed == [e \in Envelope |->
                IF e \in OpenEnvelope(t2, k) THEN [t2.envelope[e] EXCEPT !.state = "closed"]
                ELSE t2.envelope[e]]
           u == [t2 EXCEPT !.envelope = closed]
<1>1. /\ lineage[l].state = "none" /\ version[v].state = "none"
      /\ lineage[old].state # "none" /\ CapFits(t, maximum) /\ Commit(u)
  BY DEF Restart
<1>2. WorkKept(t, {}) /\ Kept(t, {}) /\ t.lineage = lineage /\ t.version = version
  BY LedgerFound, TablesFields
<1> HIDE DEF t
<1>3. Shaped(t) /\ Typed(t)
  BY <1>2 DEF Kept, MoneyKept
<1>4. k \in Task \cup {Nil}
  BY <1>2, <1>3 DEF Typed, LineageRow
<1>5. maximum \in Nat
  <2>1. Current(t, old) # {}
    BY <1>1, <1>2 DEF Kept, MoneyKept, LineagesCurrent
  <2>2. last \in Version
    BY <2>1 DEF Current, Versions
  <2> HIDE DEF last
  <2> QED BY <1>2, <1>3, <2>2 DEF Typed, VersionRow
<1> HIDE DEF k, maximum
<1>6. /\ Shaped(t1) /\ t1.lineage \in [Lineage -> LineageRow]
      /\ t1.version = t.version /\ t1.hold = t.hold /\ t1.lease = t.lease
      /\ t1.envelope = t.envelope /\ t1.call = t.call
      /\ \A m \in Lineage : m # l => t1.lineage[m] = t.lineage[m]
      /\ t1.lineage[l].state # "none"
  <2>1. PICK c \in Task \cup {Nil} : c = k
    BY <1>4
  <2> DEFINE w == Opened(t, l, c, old)
  <2>2. /\ Shaped(w) /\ w.lineage \in [Lineage -> LineageRow]
        /\ w.version = t.version /\ w.hold = t.hold /\ w.lease = t.lease
        /\ w.envelope = t.envelope /\ w.call = t.call
        /\ \A m \in Lineage : m # l => w.lineage[m] = t.lineage[m]
        /\ w.lineage[l].state # "none"
    BY <1>3, OpenedRows
  <2>3. w = t1
    BY <2>1
  <2> HIDE DEF w, t1
  <2> QED BY <2>2, <2>3
<1> HIDE DEF t1
<1>7. /\ Kept(t2, HeldOn(t, Current(t, l))) /\ NoMore(t, t2) /\ t2.envelope = t.envelope
      /\ t2.version[v].maximum = maximum
      /\ \A w \in Version : w # v /\ t.version[w].state = "none" => t2.version[w].state = "none"
  <2>1. /\ t.version[v].state = "none"
        /\ t1.lineage[l] = t.lineage[l] \/ t.lineage[l].state = "none"
    BY <1>1, <1>2
  <2>2. (\E m \in Nat : m = maximum) /\ (\E b \in BOOLEAN : b = FALSE)
    BY <1>5
  <2>3. PICK m \in Nat : m = maximum
    BY <2>2
  <2>4. PICK b \in BOOLEAN : b = FALSE
    BY <2>2
  <2> DEFINE p == ProposalWritten(t1, v, l, m, b)
  <2>5. /\ Kept(p, HeldOn(t, Current(t, l))) /\ NoMore(t, p) /\ p.envelope = t.envelope
        /\ p.version[v].maximum = m
        /\ \A w \in Version : w # v /\ t.version[w].state = "none" => p.version[w].state = "none"
    BY <1>2, <1>6, <2>1, ProposalKeepsLedger
  <2>6. p = t2
    BY <2>3, <2>4, Zenon
  <2> HIDE DEF p, t2
  <2> QED BY <2>3, <2>5, <2>6
<1> HIDE DEF t2
<1>8. HeldOn(t, Current(t, l)) = {}
  <2> SUFFICES ASSUME NEW w \in Current(t, l) PROVE FALSE
    BY DEF HeldOn
  <2>1. w \in Version /\ t.version[w].state = "current" /\ t.version[w].lineage = l
    BY DEF Current, Versions
  <2> QED BY <1>1, <1>2, <2>1 DEF Kept, StopsKept, LineagesOpened
<1>9. Kept(t2, {})
  BY <1>7, <1>8
<1>10. Shaped(t2) /\ Typed(t2) /\ OneOpenEnvelope(t2)
  BY <1>9 DEF Kept, MoneyKept
<1>11. ASSUME NEW e \in Envelope
       PROVE  /\ closed[e] \in EnvelopeRow
              /\ closed[e].held = t2.envelope[e].held /\ closed[e].actual = t2.envelope[e].actual
              /\ closed[e].maximum = t2.envelope[e].maximum
              /\ closed[e].task = t2.envelope[e].task
              /\ closed[e].state = "open" => t2.envelope[e].state = "open"
              /\ t2.envelope[e].state # "none" => closed[e].state # "none"
  <2> DEFINE r == t2.envelope[e]
             s == [r EXCEPT !.state = "closed"]
  <2>1. r \in EnvelopeRow
    BY <1>10 DEF Typed
  <2>2. closed[e] = s \/ closed[e] = r
    OBVIOUS
  <2> HIDE DEF r, closed
  <2>3. s \in EnvelopeRow /\ s.held = r.held /\ s.actual = r.actual /\ s.maximum = r.maximum
        /\ s.task = r.task /\ s.state = "closed"
    BY <2>1 DEF EnvelopeRow
  <2> HIDE DEF s
  <2>4. /\ closed[e] \in EnvelopeRow
        /\ closed[e].held = r.held /\ closed[e].actual = r.actual
        /\ closed[e].maximum = r.maximum /\ closed[e].task = r.task
        /\ closed[e].state = "open" => r.state = "open"
        /\ r.state # "none" => closed[e].state # "none"
    BY <2>1, <2>2, <2>3
  <2> QED BY <2>4 DEF r
<1>12. /\ u.lineage = t2.lineage /\ u.version = t2.version /\ u.hold = t2.hold
       /\ u.lease = t2.lease /\ u.call = t2.call /\ u.envelope = closed
       /\ DOMAIN u = DOMAIN t2
  BY <1>10 DEF Shaped
<1>13. closed = [e \in Envelope |-> closed[e]]
  OBVIOUS
<1> HIDE DEF closed, u
<1>14. OneOpenEnvelope(u)
  BY <1>10, <1>11, <1>12 DEF OneOpenEnvelope
<1>15. u.envelope \in [Envelope -> EnvelopeRow]
  BY <1>11, <1>12, <1>13
<1>16. Kept(u, {})
  BY <1>9, <1>11, <1>12, <1>14, <1>15, EnvelopesWrittenKeepLedger
<1>17. NoMore(t2, u)
  BY <1>10, <1>11, <1>12, NoMoreReflexive DEF NoMore
<1>18. NoMore(t, u) /\ Typed(u)
  BY <1>3, <1>7, <1>10, <1>16, <1>17, NoMoreTransitive DEF Kept, MoneyKept
<1>19. FitsCap(t, u)
  BY <1>1, <1>3, <1>5, <1>7, <1>12, <1>18, NoMoreFits
<1>20. LedgerInv'
  BY <1>1, <1>16, <1>18, LedgerFound, CommitNoMore DEF t
<1> QED BY <1>1, <1>19, <1>20, CommitFits DEF t

\* A proposal under a lineage already open.
LEMMA ProposalUnderOpenLineage ==
    ASSUME NEW t, Kept(t, {}), NEW v \in Version, t.version[v].state = "none", NEW l \in Lineage,
           NEW maximum \in Nat, NEW reviewed \in BOOLEAN, t.lineage[l].state # "none"
    PROVE  LET u == ProposalWritten(t, v, l, maximum, reviewed) IN
           /\ Kept(u, HeldOn(t, Current(t, l))) /\ NoMore(t, u) /\ u.hold = t.hold
           /\ u.version[v].maximum = maximum
           /\ \A w \in Version : w # v /\ t.version[w].state = "none" => u.version[w].state = "none"
<1>1. Shaped(t) /\ t.lineage \in [Lineage -> LineageRow]
  BY DEF Kept, MoneyKept, Typed
<1>2. /\ t.version = t.version /\ t.hold = t.hold /\ t.lease = t.lease
      /\ t.envelope = t.envelope /\ t.call = t.call
      /\ \A m \in Lineage : m # l => t.lineage[m] = t.lineage[m]
      /\ t.lineage[l] = t.lineage[l] \/ t.lineage[l].state = "none"
  OBVIOUS
<1> QED BY <1>1, <1>2, ProposalKeepsLedger

\* A hand-back for review leaves nothing held on the version it supersedes but
\* what it has itself classified, and its proposal fits the cap.
LEMMA HandBackForReviewKeepsLedger ==
    ASSUME RuntimeInv, NEW x \in Lease, NEW completed \in BOOLEAN, NEW v \in Version,
           NEW m \in Amounts, HandBackForReview(x, completed, v, m)
    PROVE  LedgerInv' /\ ProposalsFit
<1> DEFINE t == Tables
           h == t.lease[x].hold
           w == t.hold[h].version
           l == t.version[w].lineage
           t2 == IF completed THEN Stopped(Settled(t, x, FALSE), {x}, "final")
                 ELSE Settled(t, x, FALSE)
           u == ProposalWritten(t2, v, l, m, TRUE)
           S == HeldOn(t2, Current(t2, l))
<1>1. HandbackBound(t, x) /\ t.version[v].state = "none" /\ CapFits(t, m) /\ Commit(u)
  <2>1. CapFits(t, m)
    BY Zenon DEF HandBackForReview
  <2>2. HandbackBound(t, x) /\ t.version[v].state = "none" /\ Commit(u)
    BY TablesFields DEF HandBackForReview
  <2> QED BY <2>1, <2>2
<1>2. WorkKept(t, {}) /\ Kept(t, {})
  BY LedgerFound
<1>3. /\ Kept(t2, {}) /\ NoMore(t, t2) /\ Ends(t, t2, {x}, {h})
      /\ t2.hold[h].state = "held" => t2.hold[h].attempt = "liability_unknown"
  BY <1>1, <1>2, ReportingKeepsLedger, ReportingEnds
<1> HIDE DEF t, t2
<1>4. WorksApproved(t, x) /\ t.lease[x].state = "live"
  BY <1>1, <1>2 DEF WorkKept, HandbackBound, Standing
<1>5. h \in Hold /\ t.hold[h].state = "held" /\ w \in Version /\ l \in Lineage
      /\ t.version[w].state = "current" /\ t.lineage[l].state # "none"
  BY <1>2, <1>4 DEF WorkKept, WorksApproved, ApprovalCurrent, HoldsApproved, VersionsWritten, Kept,
                    StopsKept, LineagesOpened
<1>6. SameApprovals(t, t2) /\ HoldsClose(t, t2, {h})
  BY <1>3 DEF Ends
<1>7. \A i \in S : i = h
  <2> SUFFICES ASSUME NEW i \in S PROVE i = h
    OBVIOUS
  <2> DEFINE z == t.hold[i].version
  <2>1. i \in Hold /\ t2.hold[i].state = "held" /\ t2.hold[i].version \in Current(t2, l)
    BY DEF HeldOn
  <2>2. t.hold[i].state = "held" /\ t2.hold[i].version = z
    BY <1>6, <2>1 DEF HoldsClose
  <2>3. z \in Version /\ t2.version[z].lineage = l /\ t2.version[z].state = "current"
    BY <2>1, <2>2 DEF Current, Versions
  <2>4. t.version[z].lineage = l /\ t.version[z].state = "current"
    BY <1>6, <2>3 DEF SameApprovals
  <2>5. OneCurrent(t)
    BY <1>2 DEF WorkKept
  <2>6. z = w
    BY <1>5, <2>3, <2>4, <2>5 DEF OneCurrent
  <2> QED BY <1>2, <1>5, <2>1, <2>2, <2>6 DEF WorkKept, OneHeld
<1>8. t2.version[v].state = "none" /\ t2.lineage[l].state # "none"
  BY <1>1, <1>5, <1>6 DEF SameApprovals
<1>9. /\ Kept(u, S) /\ NoMore(t2, u) /\ u.hold = t2.hold /\ u.version[v].maximum = m
      /\ \A z \in Version : z # v /\ t2.version[z].state = "none" => u.version[z].state = "none"
  <2>2. m \in Nat
    BY AmountsAssumption
  <2>3. PICK b \in BOOLEAN : b = TRUE
    OBVIOUS
  <2>4. PICK n \in Lineage : n = l
    BY <1>5
  <2> DEFINE p == ProposalWritten(t2, v, n, m, b)
  <2>5. t2.lineage[n].state # "none"
    BY <1>8, <2>4
  <2>6. /\ Kept(p, HeldOn(t2, Current(t2, n))) /\ NoMore(t2, p) /\ p.hold = t2.hold
        /\ p.version[v].maximum = m
        /\ \A z \in Version : z # v /\ t2.version[z].state = "none" => p.version[z].state = "none"
    <3>1. Kept(t2, {}) /\ t2.version[v].state = "none"
      BY <1>3, <1>8
    <3> HIDE DEF p
    <3> QED BY <3>1, <2>2, <2>5, ProposalUnderOpenLineage, SMTT(30) DEF p
  <2>7. p = u /\ HeldOn(t2, Current(t2, n)) = S
    BY <2>3, <2>4, Zenon
  <2> HIDE DEF p, u, S
  <2> QED BY <2>6, <2>7
<1> HIDE DEF u, S
<1>10. Kept(u, {})
  <2>1. EndedClassified(u, S) /\ MarksHold(u) /\ LeasesBound(u) /\ StopsEnd(u) /\ NewestAlone(u)
        /\ LineagesOpened(u) /\ Shaped(u) /\ VersionsWritten(u) /\ HoldsApproved(u) /\ MoneyKept(u)
    BY <1>9 DEF Kept, StopsKept
  <2>2. EndedClassified(u, {})
    BY <1>3, <1>7, <1>9, <2>1 DEF EndedClassified
  <2> QED BY <2>1, <2>2 DEF Kept, StopsKept
<1>11. NoMore(t, u)
  BY <1>2, <1>3, <1>9, <1>10, NoMoreTransitive DEF Kept, MoneyKept
<1>12. FitsCap(t, u)
  <2>1. m \in Nat /\ Typed(t) /\ Typed(u)
    BY <1>2, <1>10, AmountsAssumption DEF Kept, MoneyKept
  <2>2. \A z \in Version : z # v /\ t.version[z].state = "none" => u.version[z].state = "none"
    BY <1>6, <1>9 DEF SameApprovals
  <2> QED BY <1>1, <1>9, <1>11, <2>1, <2>2, NoMoreFits
<1>13. LedgerInv'
  BY <1>1, <1>10, <1>11, LedgerFound, CommitNoMore DEF t
<1> QED BY <1>1, <1>12, <1>13, CommitFits DEF t

(***************************************************************************)
(* Deciding a gate.                                                        *)
(***************************************************************************)
\* No money is held under a gate still pending, so deciding it moves none.
LEMMA DecidingKeepsLedger ==
    ASSUME NEW t, Kept(t, {}), NEW v \in Version, t.version[v].gate = "pending",
           t.version[v].state = "current", NEW to \in GateStates
    PROVE  LET u == GateDecided(t, v, to) IN
           /\ Kept(u, {}) /\ NoMore(t, u)
           /\ u.lineage = t.lineage /\ u.hold = t.hold /\ u.lease = t.lease
           /\ u.envelope = t.envelope
           /\ u.version[v].gate = to
           /\ \A w \in Version : /\ u.version[w].state = t.version[w].state
                                 /\ u.version[w].lineage = t.version[w].lineage
<1> DEFINE u == GateDecided(t, v, to)
           row == [t.version[v] EXCEPT !.gate = to]
<1>1. Shaped(t) /\ Typed(t) /\ VersionsWritten(t) /\ HoldsApproved(t) /\ StopsKept(t, {})
      /\ MoneyKept(t)
  BY DEF Kept, MoneyKept
<1>2. /\ u.lineage = t.lineage /\ u.hold = t.hold /\ u.lease = t.lease
      /\ u.envelope = t.envelope /\ u.call = t.call /\ DOMAIN u = DOMAIN t
      /\ u.version = [t.version EXCEPT ![v] = row]
  BY <1>1 DEF Shaped, GateDecided
<1>3. t.version[v] \in VersionRow
  BY <1>1 DEF Typed
<1>4. /\ row \in VersionRow /\ DOMAIN row = DOMAIN t.version[v]
      /\ row.state = t.version[v].state /\ row.lineage = t.version[v].lineage /\ row.gate = to
  BY <1>3 DEF VersionRow
<1> HIDE DEF u, row
<1>5. /\ u.version[v] = row /\ u.version \in [Version -> VersionRow]
      /\ \A w \in Version : w # v => u.version[w] = t.version[w]
  BY <1>1, <1>2, <1>4 DEF Typed
<1>6. \A w \in Version : /\ u.version[w].state = t.version[w].state
                         /\ u.version[w].lineage = t.version[w].lineage
                         /\ DOMAIN u.version[w] = DOMAIN t.version[w]
  BY <1>4, <1>5
<1>7. Shaped(u) /\ Typed(u)
  BY <1>1, <1>2, <1>5, <1>6 DEF Shaped, Typed
<1>8. \A h \in Hold : t.hold[h].state # "none" => t.hold[h].version # v
  BY <1>1 DEF HoldsApproved
<1>9. VersionsWritten(u)
  <2> SUFFICES ASSUME NEW w \in Version
               PROVE  /\ u.version[w].state # "none" => u.version[w].lineage \in Lineage
                      /\ u.version[w].gate = "approved" => u.version[w].state # "none"
    BY DEF VersionsWritten
  <2>1. CASE w = v
    BY <1>1, <1>6, <2>1 DEF VersionsWritten
  <2>2. CASE w # v
    BY <1>1, <1>5, <2>2 DEF VersionsWritten
  <2> QED BY <2>1, <2>2
<1>10. HoldsApproved(u)
  BY <1>1, <1>2, <1>5, <1>8 DEF HoldsApproved
<1>11. StopsKept(u, {})
  <2>1. MarksHold(u) /\ LeasesBound(u) /\ StopsEnd(u) /\ NewestAlone(u)
    <3>1. MarksHold(u) /\ LeasesBound(u) /\ StopsEnd(u)
      BY <1>1, <1>2 DEF StopsKept, MarksHold, LeasesBound, StopsEnd
    <3>2. NewestAlone(u)
      BY <1>1, <1>2 DEF StopsKept, NewestAlone
    <3> QED BY <3>1, <3>2
  <2>2. EndedClassified(u, {})
    <3> SUFFICES ASSUME NEW h \in Hold, u.hold[h].state = "held", Over(u, u.hold[h].version)
                 PROVE  u.hold[h].attempt = "liability_unknown"
      BY DEF EndedClassified
    <3>1. u.hold[h] = t.hold[h] /\ t.hold[h].version \in Version
      BY <1>1, <1>2 DEF HoldsApproved
    <3>2. Over(t, t.hold[h].version)
      BY <1>2, <1>6, <3>1 DEF Over
    <3> QED BY <1>1, <3>1, <3>2 DEF StopsKept, EndedClassified
  <2>3. LineagesOpened(u)
    BY <1>1, <1>2, <1>6 DEF StopsKept, LineagesOpened
  <2> QED BY <2>1, <2>2, <2>3 DEF StopsKept
<1>12. LineagesCurrent(u)
  <2>1. \A m \in Lineage : Current(u, m) = Current(t, m)
    BY <1>6 DEF Current, Versions
  <2> QED BY <1>1, <1>2, <2>1 DEF MoneyKept, LineagesCurrent
<1>13. MoneyKept(u) /\ NoMore(t, u)
  BY <1>1, <1>2, <1>7, <1>12, SameMoneyKept
<1> QED BY <1>2, <1>4, <1>5, <1>6, <1>7, <1>9, <1>10, <1>11, <1>13 DEF Kept, u

\* A gate sent back for changes holds nothing.
LEMMA RequestChangesKeepsLedger ==
    ASSUME RuntimeInv, NEW v \in Version, RequestChanges(v)
    PROVE  LedgerInv'
<1> DEFINE u == GateDecided(Tables, v, "changes_requested")
<1>1. Decidable(Tables, v) /\ Commit(u) /\ "changes_requested" \in GateStates
  BY DEF RequestChanges, GateStates
<1>2. Kept(u, {}) /\ NoMore(Tables, u)
  BY <1>1, LedgerFound, DecidingKeepsLedger DEF Decidable
<1> HIDE DEF u
<1> QED BY <1>1, <1>2, LedgerFound, CommitNoMore

\* A lineage ended leaves its held reservations to be classified.
LEMMA EndingLineageKeepsLedger ==
    ASSUME NEW t, Kept(t, {}), NEW l \in Lineage, t.lineage[l].state # "none",
           NEW to \in {"rejected", "cancelled"}
    PROVE  LET u == [t EXCEPT !.lineage[l].state = to] IN
           /\ Kept(u, HeldOn(t, Versions(t, l))) /\ NoMore(t, u)
           /\ u.version = t.version /\ u.hold = t.hold /\ u.lease = t.lease
<1> DEFINE u == [t EXCEPT !.lineage[l].state = to]
           row == [t.lineage[l] EXCEPT !.state = to]
           S == HeldOn(t, Versions(t, l))
<1>1. Shaped(t) /\ Typed(t) /\ VersionsWritten(t) /\ HoldsApproved(t) /\ StopsKept(t, {})
      /\ MoneyKept(t)
  BY DEF Kept, MoneyKept
<1>2. /\ u.version = t.version /\ u.hold = t.hold /\ u.lease = t.lease
      /\ u.envelope = t.envelope /\ u.call = t.call /\ DOMAIN u = DOMAIN t
      /\ u.lineage = [t.lineage EXCEPT ![l] = row]
  BY <1>1 DEF Shaped
<1>3. t.lineage[l] \in LineageRow
  BY <1>1 DEF Typed
<1>4. row \in LineageRow /\ DOMAIN row = DOMAIN t.lineage[l] /\ row.state # "none"
  BY <1>3 DEF LineageRow
<1> HIDE DEF u, row
<1>5. /\ u.lineage[l] = row /\ u.lineage \in [Lineage -> LineageRow]
      /\ \A m \in Lineage : m # l => u.lineage[m] = t.lineage[m]
  BY <1>1, <1>2, <1>4 DEF Typed
<1>6. Typed(u)
  BY <1>1, <1>2, <1>5 DEF Typed
<1>7. Shaped(u)
  <2>1. \A m \in Lineage : DOMAIN u.lineage[m] = DOMAIN t.lineage[m]
    BY <1>4, <1>5
  <2>2. DOMAIN u.lineage = Lineage
    BY <1>5
  <2> QED BY <1>1, <1>2, <2>1, <2>2 DEF Shaped
<1>8. VersionsWritten(u) /\ HoldsApproved(u)
  BY <1>1, <1>2 DEF VersionsWritten, HoldsApproved
<1>9. MarksHold(u) /\ LeasesBound(u) /\ StopsEnd(u) /\ NewestAlone(u)
  <2>1. MarksHold(u) /\ LeasesBound(u) /\ StopsEnd(u)
    BY <1>1, <1>2 DEF StopsKept, MarksHold, LeasesBound, StopsEnd
  <2>2. NewestAlone(u)
    BY <1>1, <1>2 DEF StopsKept, NewestAlone
  <2> QED BY <2>1, <2>2
<1>10. EndedClassified(u, S)
  <2> SUFFICES ASSUME NEW h \in Hold, h \notin S, u.hold[h].state = "held",
                      Over(u, u.hold[h].version)
               PROVE  u.hold[h].attempt = "liability_unknown"
    BY DEF EndedClassified
  <2> DEFINE w == t.hold[h].version
             m == t.version[w].lineage
  <2>1. u.hold[h] = t.hold[h] /\ t.hold[h].state = "held"
    BY <1>2
  <2>2. w \in Version /\ w \notin Versions(t, l) /\ m \in Lineage
    BY <1>1, <2>1 DEF HoldsApproved, VersionsWritten, HeldOn
  <2>3. m # l /\ u.version[w] = t.version[w]
    BY <1>2, <2>2 DEF Versions
  <2>4. Over(t, w)
    BY <1>5, <2>1, <2>2, <2>3 DEF Over
  <2> QED BY <1>1, <2>1, <2>4 DEF StopsKept, EndedClassified
<1>11. LineagesOpened(u)
  <2> SUFFICES ASSUME NEW w \in Version, u.version[w].state # "none"
               PROVE  u.lineage[u.version[w].lineage].state # "none"
    BY DEF LineagesOpened
  <2>1. t.version[w].lineage \in Lineage /\ t.lineage[t.version[w].lineage].state # "none"
    BY <1>1, <1>2 DEF StopsKept, LineagesOpened, VersionsWritten
  <2> QED BY <1>2, <1>4, <1>5, <2>1
<1>12. LineagesCurrent(u)
  <2>1. \A m \in Lineage : Current(u, m) = Current(t, m)
    BY <1>2 DEF Current, Versions
  <2>2. \A m \in Lineage : u.lineage[m].state # "none" => t.lineage[m].state # "none"
    BY <1>5
  <2> QED BY <1>1, <2>1, <2>2 DEF MoneyKept, LineagesCurrent
<1>13. MoneyKept(u) /\ NoMore(t, u)
  BY <1>1, <1>2, <1>6, <1>12, SameMoneyKept
<1> QED BY <1>2, <1>7, <1>8, <1>9, <1>10, <1>11, <1>13 DEF Kept, StopsKept, u, S

\* A rejection classifies every hold of its lineage.
LEMMA RejectKeepsLedger ==
    ASSUME RuntimeInv, NEW v \in Version, Reject(v)
    PROVE  LedgerInv'
<1> DEFINE t == Tables
           l == t.version[v].lineage
           g == GateDecided(t, v, "rejected")
           t1 == [g EXCEPT !.lineage[l].state = "rejected"]
           S == HeldOn(g, Versions(g, l))
           H == HeldOn(t1, Versions(t1, l))
           u == Classified(t1, H)
<1>1. Decidable(t, v) /\ Commit(u) /\ "rejected" \in GateStates
  BY TablesFields DEF Reject, GateStates
<1>2. WorkKept(t, {}) /\ Kept(t, {})
  BY LedgerFound
<1> HIDE DEF t
<1>3. /\ Kept(g, {}) /\ NoMore(t, g) /\ g.lineage = t.lineage
  BY <1>1, <1>2, DecidingKeepsLedger DEF Decidable
<1>4. l \in Lineage /\ t.lineage[l].state # "none"
  BY <1>1, <1>2 DEF WorkKept, VersionsWritten, Decidable
<1> HIDE DEF l, g
<1>5. /\ Kept(t1, S) /\ NoMore(g, t1)
      /\ t1.version = g.version /\ t1.hold = g.hold
  <2>1. PICK n \in Lineage : n = l
    BY <1>4
  <2> DEFINE w == [g EXCEPT !.lineage[n].state = "rejected"]
  <2>2. g.lineage[n].state # "none"
    BY <1>3, <1>4, <2>1
  <2>3. /\ Kept(w, HeldOn(g, Versions(g, n))) /\ NoMore(g, w)
        /\ w.version = g.version /\ w.hold = g.hold
    BY <1>3, <2>2, EndingLineageKeepsLedger
  <2>4. w = t1 /\ HeldOn(g, Versions(g, n)) = S
    BY <2>1
  <2> HIDE DEF w, t1, S
  <2> QED BY <2>3, <2>4
<1> HIDE DEF t1
<1>6. H = S
  BY <1>5 DEF HeldOn, Versions
<1>7. H \in SUBSET Hold
  BY DEF HeldOn
<1> HIDE DEF H, S
<1>8. Kept(u, {}) /\ NoMore(t1, u)
  <2>1. Kept(u, S \ H) /\ NoMore(t1, u)
    BY <1>5, <1>7, ClassifiedKeepsLedger
  <2>2. S \ H = {}
    BY <1>6
  <2> QED BY <2>1, <2>2
<1> HIDE DEF u
<1>9. NoMore(t, t1)
  BY <1>2, <1>3, <1>5, NoMoreTransitive DEF Kept, MoneyKept
<1>10. NoMore(t, u)
  BY <1>2, <1>5, <1>8, <1>9, NoMoreTransitive DEF Kept, MoneyKept
<1> QED BY <1>1, <1>8, <1>10, LedgerFound, CommitNoMore DEF t

\* A cancellation retires the work on its lineage and classifies every hold there.
LEMMA CancelKeepsLedger ==
    ASSUME RuntimeInv, NEW l \in Lineage, Cancel(l)
    PROVE  LedgerInv'
<1> DEFINE t == Tables
           V == Versions(t, l)
           S == HeldOn(t, V)
           t1 == [t EXCEPT !.lineage[l].state = "cancelled"]
           L == LiveOn(t1, V)
           t2 == Retired(t1, L, "final")
           rows == [v \in Version |->
                IF v \in V /\ t2.version[v].run \in {"planned", "claimed"}
                    THEN [t2.version[v] EXCEPT !.run = "cancelled"] ELSE t2.version[v]]
           t3 == [t2 EXCEPT !.version = rows]
           H == HeldOn(t3, V)
           u == Classified(t3, H)
<1>1. t.lineage[l].state = "live" /\ Commit(u)
  BY TablesFields DEF Cancel
<1>2. Kept(t, {}) /\ LiveUnreplaced(t)
  BY LedgerFound
<1> HIDE DEF t
<1>3. /\ Kept(t1, S) /\ NoMore(t, t1)
      /\ t1.version = t.version /\ t1.hold = t.hold /\ t1.lease = t.lease
  BY <1>1, <1>2, EndingLineageKeepsLedger
<1> HIDE DEF t1, V
<1>4. Nil \notin L /\ \A h \in Hold : t1.hold[h].lease \in L => ~ t1.hold[h].replaced
  BY <1>2, <1>3, NilAssumption DEF LiveOn, LiveUnreplaced
<1>5. "final" \in Codes
  BY DEF Codes
<1> HIDE DEF L, S
<1>6. Kept(t2, S) /\ NoMore(t1, t2) /\ Ends(t1, t2, L, {})
  BY <1>3, <1>4, <1>5, RetiredKeepsLedger
<1> HIDE DEF t2
<1>7. Shaped(t2) /\ Typed(t2)
  BY <1>6 DEF Kept, MoneyKept
<1>8. ASSUME NEW v \in Version
      PROVE  /\ rows[v] \in VersionRow
             /\ DOMAIN rows[v] = DOMAIN NoVersion
             /\ rows[v].state = t2.version[v].state
             /\ rows[v].lineage = t2.version[v].lineage
             /\ rows[v].gate = t2.version[v].gate
  <2> DEFINE r == t2.version[v]
             s == [r EXCEPT !.run = "cancelled"]
  <2>1. r \in VersionRow /\ DOMAIN r = DOMAIN NoVersion
    BY <1>7 DEF Typed, Shaped
  <2>2. rows[v] = r \/ rows[v] = s
    OBVIOUS
  <2> HIDE DEF r, rows
  <2>3. /\ s \in VersionRow /\ DOMAIN s = DOMAIN r
        /\ s.state = r.state /\ s.lineage = r.lineage /\ s.gate = r.gate
    BY <2>1 DEF VersionRow, RunStates
  <2> HIDE DEF s
  <2>4. /\ rows[v] \in VersionRow /\ DOMAIN rows[v] = DOMAIN NoVersion
        /\ rows[v].state = r.state /\ rows[v].lineage = r.lineage /\ rows[v].gate = r.gate
    BY <2>1, <2>2, <2>3
  <2> QED BY <2>4 DEF r
<1>9. rows = [v \in Version |-> rows[v]]
  OBVIOUS
<1>10. /\ t3.version = rows /\ t3.hold = t2.hold /\ t3.lease = t2.lease
       /\ t3.envelope = t2.envelope /\ t3.call = t2.call
  BY <1>7 DEF Shaped
<1> HIDE DEF rows
<1>11. rows \in [Version -> VersionRow] /\ DOMAIN rows = Version
  BY <1>8, <1>9
<1>12. Ends(t2, t3, {}, {})
  BY <1>7, <1>8, <1>11, RunsWrittenEnd
<1> HIDE DEF t3
<1>13. Kept(t3, S) /\ NoMore(t2, t3)
  BY <1>6, <1>10, <1>11, <1>12, RunsKeepLedger
<1>14. H \in SUBSET Hold /\ S \ H = {}
  <2>1. HoldsClose(t1, t2, {})
    BY <1>6 DEF Ends
  <2> QED BY <1>3, <1>10, <2>1 DEF HeldOn, HoldsClose, S
<1> HIDE DEF H
<1>15. Kept(u, {}) /\ NoMore(t3, u)
  <2>1. Kept(u, S \ H) /\ NoMore(t3, u)
    BY <1>13, <1>14, ClassifiedKeepsLedger
  <2> QED BY <1>14, <2>1
<1> HIDE DEF u
<1>16. Typed(t) /\ Typed(t1) /\ Typed(t2) /\ Typed(t3) /\ Typed(u)
  BY <1>2, <1>3, <1>6, <1>13, <1>15 DEF Kept, MoneyKept
<1>17. NoMore(t, t2)
  BY <1>3, <1>6, <1>16, NoMoreTransitive
<1>18. NoMore(t, t3)
  BY <1>13, <1>16, <1>17, NoMoreTransitive
<1>19. NoMore(t, u)
  BY <1>15, <1>16, <1>18, NoMoreTransitive
<1> QED BY <1>1, <1>15, <1>19, LedgerFound, CommitNoMore DEF t

\* The envelope an approval opens, or finds open, has room for it.
LEMMA EnvelopeOpenedKeepsLedger ==
    ASSUME NEW t, Kept(t, {}), Ceilings(t), NEW k \in Task \cup {Nil}, NEW e \in Envelope,
           NEW maximum \in Nat, Open(t, k, maximum), CapFits(t, maximum),
           IF OpenEnvelope(t, k) = {} THEN t.envelope[e].state = "none"
           ELSE e \in OpenEnvelope(t, k)
    PROVE  LET u == EnvelopeOpened(t, k, e, maximum) IN
           /\ Kept(u, {}) /\ Ceilings(u) /\ Room(u, e, maximum)
           /\ u.lineage = t.lineage /\ u.version = t.version /\ u.hold = t.hold
           /\ u.envelope[e].state # "none"
<1> DEFINE u == EnvelopeOpened(t, k, e, maximum)
           row == [state |-> "open", task |-> k, maximum |-> maximum, held |-> 0, actual |-> 0]
<1>1. Shaped(t) /\ Typed(t) /\ OneOpenEnvelope(t)
  BY DEF Kept, MoneyKept
<1>2. CASE e \in OpenEnvelope(t, k)
  <2>1. u = t
    BY <1>2 DEF EnvelopeOpened
  <2>2. PICK d \in OpenEnvelope(t, k) : EnvelopeFits(t, d, maximum)
    BY <1>2 DEF Open
  <2>3. d = e
    BY <1>1, <1>2, <2>2 DEF OpenEnvelope, OneOpenEnvelope
  <2> HIDE DEF u
  <2>4. Room(t, e, maximum) /\ t.envelope[e].state # "none"
    BY <1>2, <2>2, <2>3 DEF Room, OpenEnvelope
  <2> QED BY <2>1, <2>4 DEF u
<1>3. CASE e \notin OpenEnvelope(t, k)
  <2>1. OpenEnvelope(t, k) = {} /\ t.envelope[e].state = "none"
    BY <1>3
  <2>2. t.envelope[e].held = 0 /\ t.envelope[e].actual = 0
    BY <2>1, FreshEnvelope
  <2>3. /\ u.lineage = t.lineage /\ u.version = t.version /\ u.hold = t.hold
        /\ u.lease = t.lease /\ u.call = t.call /\ DOMAIN u = DOMAIN t
        /\ u.envelope = [t.envelope EXCEPT ![e] = row]
    BY <1>1, <1>3 DEF Shaped, EnvelopeOpened
  <2>4. /\ row \in EnvelopeRow /\ row.state = "open" /\ row.task = k
        /\ row.maximum = maximum /\ row.held = 0 /\ row.actual = 0
    BY DEF EnvelopeRow
  <2> HIDE DEF u, row
  <2>5. /\ u.envelope[e] = row /\ u.envelope \in [Envelope -> EnvelopeRow]
        /\ \A d \in Envelope : d # e => u.envelope[d] = t.envelope[d]
    BY <1>1, <2>3, <2>4 DEF Typed
  <2>6. OneOpenEnvelope(u)
    <3> SUFFICES ASSUME NEW c \in Envelope, NEW d \in Envelope, u.envelope[c].state = "open",
                        u.envelope[d].state = "open", u.envelope[c].task = u.envelope[d].task
                 PROVE  c = d
      BY DEF OneOpenEnvelope
    <3>1. \A f \in Envelope : f # e /\ u.envelope[f].state = "open" => u.envelope[f].task # k
      BY <2>1, <2>5 DEF OpenEnvelope
    <3>2. CASE c # e /\ d # e
      BY <1>1, <2>5, <3>2 DEF OneOpenEnvelope
    <3> QED BY <2>4, <2>5, <3>1, <3>2
  <2>7. \A d \in Envelope : /\ u.envelope[d].held = t.envelope[d].held
                            /\ u.envelope[d].actual = t.envelope[d].actual
                            /\ t.envelope[d].state # "none" => u.envelope[d].state # "none"
    BY <2>2, <2>4, <2>5
  <2>8. Kept(u, {}) /\ Committed(u) = Committed(t)
    BY <2>3, <2>5, <2>6, <2>7, EnvelopesWrittenKeepLedger
  <2>9. Ceilings(u)
    <3>1. ASSUME NEW d \in Envelope
          PROVE  u.envelope[d].held + u.envelope[d].actual <= u.envelope[d].maximum
      <4>1. CASE d = e
        BY <2>4, <2>5, <4>1
      <4>2. CASE d # e
        BY <2>5, <4>2 DEF Ceilings
      <4> QED BY <4>1, <4>2
    <3>2. Committed(u) <= CapLimit
      BY <2>8 DEF Ceilings
    <3> QED BY <3>1, <3>2 DEF Ceilings
  <2>10. Room(u, e, maximum)
    <3>1. EnvelopeFits(u, e, maximum)
      BY <2>4, <2>5 DEF EnvelopeFits
    <3>2. CapFits(u, maximum)
      BY <2>8 DEF CapFits
    <3> QED BY <3>1, <3>2 DEF Room
  <2> QED BY <2>3, <2>4, <2>5, <2>8, <2>9, <2>10 DEF u
<1> QED BY <1>2, <1>3

\* An approval reserves the version's maximum where there is room for it, once.
LEMMA ApproveKeepsLedger ==
    ASSUME RuntimeInv, NEW v \in Version, NEW e \in Envelope, NEW h \in Hold, Approve(v, e, h)
    PROVE  LedgerInv'
<1> DEFINE t == Tables
           k == TaskOf(t, v)
           maximum == t.version[v].maximum
           g == GateDecided(t, v, "approved")
           t1 == EnvelopeOpened(g, k, e, maximum)
           new == [n \in {h} |-> [version |-> v, envelope |-> e, amount |-> maximum]]
           u == Reserved(t1, new)
<1>1. /\ Decidable(t, v) /\ h \in FreshHolds(t) /\ "approved" \in GateStates
      /\ IF OpenEnvelope(t, k) = {} THEN t.envelope[e].state = "none" ELSE e \in OpenEnvelope(t, k)
      /\ Open(t, k, maximum) /\ CapFits(t, maximum)
      /\ Commit(u)
  BY TablesFields DEF Approve, GateStates
<1>2. WorkKept(t, {}) /\ Kept(t, {}) /\ Ceilings(t)
  BY LedgerFound
<1> HIDE DEF t
<1>3. /\ t.version[v].gate = "pending" /\ t.version[v].state = "current"
      /\ t.lineage[t.version[v].lineage].state = "live"
  BY <1>1 DEF Decidable
<1>4. k \in Task \cup {Nil} /\ maximum \in Nat
  <2>1. t.version[v].lineage \in Lineage /\ t.lineage \in [Lineage -> LineageRow]
        /\ t.version[v] \in VersionRow
    BY <1>2, <1>3 DEF WorkKept, VersionsWritten, Kept, MoneyKept, Typed
  <2>2. t.lineage[t.version[v].lineage] \in LineageRow
    BY <2>1
  <2> QED BY <2>1, <2>2 DEF TaskOf, LineageRow, VersionRow
<1> HIDE DEF k, maximum
<1>5. /\ Kept(g, {}) /\ g.lineage = t.lineage /\ g.hold = t.hold /\ g.envelope = t.envelope
      /\ g.version[v].gate = "approved" /\ g.version[v].state = "current"
      /\ g.version[v].lineage = t.version[v].lineage
  BY <1>1, <1>2, <1>3, DecidingKeepsLedger
<1> HIDE DEF g
<1>6. \A i \in Hold : t.hold[i].state # "none" => t.hold[i].version # v
  BY <1>2, <1>3 DEF Kept, HoldsApproved
<1>7. \A i \in Hold : t.hold[i].version = v => t.hold[i].end # "final"
  <2> SUFFICES ASSUME NEW i \in Hold, t.hold[i].version = v PROVE t.hold[i].end # "final"
    OBVIOUS
  <2>1. t.hold[i] = NoHold
    BY <1>2, <1>6 DEF Kept, StopsKept, NewestAlone
  <2> QED BY <2>1 DEF NoHold
<1>8. Committed(g) = Committed(t)
  BY <1>5 DEF Committed
<1>9. Ceilings(g) /\ CapFits(g, maximum)
  BY <1>1, <1>2, <1>5, <1>8 DEF Ceilings, CapFits
<1>10. OpenEnvelope(g, k) = OpenEnvelope(t, k)
  BY <1>5 DEF OpenEnvelope
<1>11. Open(g, k, maximum)
  BY <1>1, <1>5, <1>10 DEF Open, EnvelopeFits
<1>12. IF OpenEnvelope(g, k) = {} THEN g.envelope[e].state = "none" ELSE e \in OpenEnvelope(g, k)
  BY <1>1, <1>5, <1>10
<1>13. /\ Kept(t1, {}) /\ Ceilings(t1) /\ Room(t1, e, maximum)
       /\ t1.lineage = g.lineage /\ t1.version = g.version /\ t1.hold = g.hold
       /\ t1.envelope[e].state # "none"
  <2>1. PICK c \in Task \cup {Nil} : c = k
    BY <1>4
  <2>2. PICK m \in Nat : m = maximum
    BY <1>4
  <2> DEFINE w == EnvelopeOpened(g, c, e, m)
  <2>3. /\ Open(g, c, m) /\ CapFits(g, m)
        /\ IF OpenEnvelope(g, c) = {} THEN g.envelope[e].state = "none"
           ELSE e \in OpenEnvelope(g, c)
    BY <1>9, <1>11, <1>12, <2>1, <2>2
  <2>4. /\ Kept(w, {}) /\ Ceilings(w) /\ Room(w, e, m)
        /\ w.lineage = g.lineage /\ w.version = g.version /\ w.hold = g.hold
        /\ w.envelope[e].state # "none"
    BY <1>5, <1>9, <2>3, EnvelopeOpenedKeepsLedger
  <2>5. w = t1
    BY <2>1, <2>2
  <2> HIDE DEF w, t1
  <2> QED BY <2>2, <2>4, <2>5
<1> HIDE DEF t1
<1>14. DOMAIN new = {h} /\ new[h].version = v /\ new[h].envelope = e /\ new[h].amount = maximum
  OBVIOUS
<1> HIDE DEF new
<1>15. Reservable(t1, new)
  <2>1. h \in FreshHolds(t1)
    BY <1>1, <1>5, <1>13 DEF FreshHolds
  <2>2. ApprovalCurrent(t1, v)
    BY <1>3, <1>5, <1>13 DEF ApprovalCurrent
  <2>3. HeldOn(t1, {v}) = {}
    BY <1>5, <1>6, <1>13 DEF HeldOn
  <2>4. \A i \in Hold : t1.hold[i].version = v => t1.hold[i].end # "final"
    BY <1>5, <1>7, <1>13
  <2> QED BY <1>4, <1>13, <1>14, <2>1, <2>2, <2>3, <2>4 DEF Reservable
<1>16. Kept(u, {})
  BY <1>13, <1>15, ReservedKeepsLedger
<1>17. Ceilings(u)
  BY <1>13, <1>14, <1>15, ReservingOneKeepsCeilings
<1> HIDE DEF u
<1> QED BY <1>1, <1>16, <1>17, CommitKeepsLedger

(***************************************************************************)
(* The invariant.                                                          *)
(***************************************************************************)
\* With no row written yet nothing is held, spent or stopped.
LEMMA InitKeepsLedger == Init => LedgerInv
<1> SUFFICES ASSUME Init PROVE LedgerInv
  OBVIOUS
<1> DEFINE t == Tables
<1>1. WorkKept(t, {})
  BY InitKeepsWork DEF WorkInv
<1>2. /\ t.lineage = [l \in Lineage |-> NoLineage] /\ t.version = [v \in Version |-> NoVersion]
      /\ t.hold = [h \in Hold |-> NoHold] /\ t.lease = [x \in Lease |-> NoLease]
      /\ t.envelope = [e \in Envelope |-> NoEnvelope] /\ t.call = [c \in Call |-> NoCall]
  BY DEF Init, Tables
<1> HIDE DEF t
<1>3. /\ NoLineage \in LineageRow /\ NoVersion \in VersionRow /\ NoHold \in HoldRow
      /\ NoLease \in LeaseRow /\ NoEnvelope \in EnvelopeRow /\ NoCall \in CallRow
  <2>1. NoLineage \in LineageRow /\ NoEnvelope \in EnvelopeRow
    BY DEF NoLineage, LineageRow, NoEnvelope, EnvelopeRow
  <2>2. NoVersion \in VersionRow
    BY DEF NoVersion, VersionRow, GateStates, RunStates
  <2>3. NoHold \in HoldRow
    BY DEF NoHold, HoldRow, AttemptStates
  <2>4. NoLease \in LeaseRow
    BY DEF NoLease, LeaseRow
  <2>5. NoCall \in CallRow
    BY DEF NoCall, CallRow
  <2> QED BY <2>1, <2>2, <2>3, <2>4, <2>5
<1>4. Typed(t)
  BY <1>2, <1>3 DEF Typed
<1>5. /\ \A l \in Lineage : t.lineage[l].state = "none"
      /\ \A v \in Version : t.version[v].state = "none"
      /\ \A h \in Hold : /\ t.hold[h] = NoHold /\ t.hold[h].state = "none"
                         /\ t.hold[h].envelope = Nil /\ t.hold[h].lease = Nil
                         /\ t.hold[h].attempt = "none" /\ ~ t.hold[h].marked
                         /\ t.hold[h].end = "none"
      /\ \A e \in Envelope : /\ t.envelope[e].state = "none" /\ t.envelope[e].held = 0
                             /\ t.envelope[e].actual = 0 /\ t.envelope[e].maximum = 0
      /\ \A c \in Call : t.call[c].state = "none" /\ t.call[c].hold = Nil
  BY <1>2 DEF NoLineage, NoVersion, NoHold, NoEnvelope, NoCall
<1>6. MarksHold(t) /\ LeasesBound(t) /\ StopsEnd(t) /\ NewestAlone(t) /\ EndedClassified(t, {})
      /\ LineagesOpened(t)
  BY <1>5 DEF MarksHold, LeasesBound, StopsEnd, NewestAlone, EndedClassified, LineagesOpened
<1>7. LineagesCurrent(t) /\ RowsBound(t) /\ HoldsPay(t) /\ OneOpenEnvelope(t)
  BY <1>5 DEF LineagesCurrent, RowsBound, HoldsPay, OneOpenEnvelope
<1>8. Balanced(t)
  <2> SUFFICES ASSUME NEW e \in Envelope
               PROVE  LET ofE == {h \in Hold : t.hold[h].envelope = e} IN
                      /\ t.envelope[e].held =
                            SumFunctionOnSet([h \in Hold |-> t.hold[h].amount],
                                             {h \in ofE : t.hold[h].state = "held"})
                      /\ t.envelope[e].actual = SumFunctionOnSet([h \in Hold |-> t.hold[h].actual], ofE)
    BY Zenon DEF Balanced
  <2> DEFINE ofE == {h \in Hold : t.hold[h].envelope = e}
             heldOfE == {h \in ofE : t.hold[h].state = "held"}
             amounts == [h \in Hold |-> t.hold[h].amount]
             actuals == [h \in Hold |-> t.hold[h].actual]
  <2>1. ofE = {} /\ heldOfE = {}
    BY <1>5, NilAssumption
  <2> HIDE DEF amounts, actuals, ofE, heldOfE
  <2>2. SumFunctionOnSet(amounts, heldOfE) = 0 /\ SumFunctionOnSet(actuals, ofE) = 0
    BY <2>1, SumOfNothing
  <2>3. t.envelope[e].held = SumFunctionOnSet(amounts, heldOfE)
        /\ t.envelope[e].actual = SumFunctionOnSet(actuals, ofE)
    BY <1>5, <2>2
  <2> QED BY <2>3, Zenon DEF amounts, actuals, ofE, heldOfE
<1>9. Ceilings(t)
  <2> DEFINE f == [e \in Envelope |-> t.envelope[e].held + t.envelope[e].actual]
  <2>1. \A e \in Envelope : f[e] = 0
    BY <1>5
  <2> HIDE DEF f
  <2>2. SumFunctionOnSet(f, Envelope) = 0
    BY <2>1, RowsAssumption, SumOfZeroes
  <2>3. Committed(t) = 0
    BY <2>2, Zenon DEF Committed, f
  <2> QED BY <1>5, <2>3, LimitsAssumption DEF Ceilings
<1> QED BY <1>1, <1>4, <1>6, <1>7, <1>8, <1>9 DEF LedgerInv, Kept, StopsKept, MoneyKept, WorkKept, t

\* Every step keeps the ledger: one case to an action.
LEMMA NextKeepsLedger == RuntimeInv /\ [Next]_vars => LedgerInv'
<1> SUFFICES ASSUME RuntimeInv, [Next]_vars PROVE LedgerInv'
  OBVIOUS
<1>1. CASE Deciding
  BY <1>1, ProposeKeepsLedger, RestartKeepsLedger, ApproveKeepsLedger, RejectKeepsLedger,
     RequestChangesKeepsLedger DEF Deciding
<1>2. CASE Working
  BY <1>2, PickUpKeepsLedger, PickUpReplacingKeepsLedger, PickUpSpentKeepsLedger,
     DispatchKeepsLedger, HandBackKeepsLedger, HandBackForReviewKeepsLedger,
     HandBackDroppedKeepsLedger, EndRunKeepsLedger DEF Working
<1>3. CASE Calling
  BY <1>3, ReserveCallKeepsLedger, StopAtCeilingKeepsLedger, RefuseCallKeepsLedger,
     StartCallKeepsLedger, RefuseStartKeepsLedger, SettleCallKeepsLedger, ReleaseCallKeepsLedger,
     HoldCallKeepsLedger DEF Calling
<1>4. CASE Sweeping
  BY <1>4, SweepPassKeepsLedger DEF Sweeping
<1>5. CASE Replay
  BY <1>5, ReplayKeepsLedger
<1>6. CASE Ending
  BY <1>6, CancelKeepsLedger, LoseAuthorityKeepsLedger DEF Ending
<1>7. CASE Lapsing
  BY <1>7, LapseGateKeepsLedger, LapseLeaseKeepsLedger DEF Lapsing
<1>8. CASE UNCHANGED vars
  <2>1. Tables' = Tables
    BY <1>8 DEF Tables, vars
  <2>2. LedgerInv
    BY LedgerFound
  <2> QED BY <2>1, <2>2 DEF LedgerInv
<1> QED BY <1>1, <1>2, <1>3, <1>4, <1>5, <1>6, <1>7, <1>8 DEF Next

\* What every transaction of the runtime finds and leaves, in every reachable
\* state: who works on what, what is recorded of stopped attempts, and the money.
THEOREM RuntimeIsKept == Spec => []RuntimeInv
<1>1. Init => RuntimeInv
  BY InitKeepsWork, InitKeepsLedger, RuntimeIsWorkAndLedger
<1>2. RuntimeInv /\ [Next]_vars => RuntimeInv'
  <2> SUFFICES ASSUME RuntimeInv, [Next]_vars PROVE RuntimeInv'
    OBVIOUS
  <2>1. WorkInv' /\ LedgerInv'
    BY NextKeepsWork, NextKeepsLedger, RuntimeIsWorkAndLedger
  <2>2. (WorkInv /\ LedgerInv => RuntimeInv)'
    BY RuntimeIsWorkAndLedger, PTL
  <2> QED BY <2>1, <2>2
<1> QED BY <1>1, <1>2, PTL DEF Spec

\* Every row keeps its type and each envelope's running totals are the sums of its
\* reservations: no hold is released twice, charged twice or forgotten, whichever
\* transaction closes it (close-hold.ts, decide.ts reserve).
THEOREM LedgerStaysBalanced == Spec => []LedgerBalanced
<1>1. RuntimeInv => LedgerBalanced
  BY Zenon DEF RuntimeInv, MoneyInv, MoneyKept, Typed, Balanced, LedgerBalanced, TypeOK, Tables
<1> QED BY <1>1, RuntimeIsKept, PTL

\* Nothing is ever committed past an envelope's ceiling or past the business cap:
\* approvals, replacements and resumptions reserve only in the room there is
\* (decide.ts, budget-ledger.ts, pickup.ts replace, recovery/drop.ts).
THEOREM NothingIsOverspent == Spec => []CeilingsHold
<1>1. RuntimeInv => CeilingsHold
  <2>1. Tables.envelope = envelope
    BY DEF Tables
  <2> QED BY <2>1 DEF RuntimeInv, MoneyInv, Ceilings, CeilingsHold
<1> QED BY <1>1, RuntimeIsKept, PTL

\* A closed hold was charged what its calls cost and has no call in flight: no
\* late answer settles a cost against it (classifier.ts, close-hold.ts).
THEOREM ClosedHoldsPaidTheirCalls == Spec => []ClosedHoldPaidItsCalls
<1>1. RuntimeInv => ClosedHoldPaidItsCalls
  <2>1. Tables.hold = hold
    BY DEF Tables
  <2> QED BY <2>1 DEF RuntimeInv, MoneyInv, MoneyKept, HoldsPay, ClosedHoldPaidItsCalls
<1> QED BY <1>1, RuntimeIsKept, PTL

\* A step whose effect may have been sent keeps its whole hold, whichever of
\* dispatch and the sweep commits first (sweep.ts, classifier.ts).
THEOREM MarkedHoldsAreKept == Spec => []MarkedHoldIsKept
<1>1. RuntimeInv => MarkedHoldIsKept
  <2>1. Tables.hold = hold
    BY DEF Tables
  <2> QED BY <2>1 DEF RuntimeInv, StopsInv, StopsKept, MarksHold, MarkedHoldIsKept
<1> QED BY <1>1, RuntimeIsKept, PTL

\* An attempt ended for good is never replaced, by a claim or by a resumption
\* (lease-ownership.ts claimStopped, drop.ts).
THEOREM FinalStopsStand == Spec => []FinalStopIsNotReplaced
<1>1. RuntimeInv => FinalStopIsNotReplaced
  <2>1. Tables.hold = hold
    BY DEF Tables
  <2> QED BY <2>1 DEF RuntimeInv, StopsInv, StopsKept, NewestAlone, FinalStopIsNotReplaced
<1> QED BY <1>1, RuntimeIsKept, PTL

\* What is still held of an ended lineage or a superseded version is an unknown
\* liability, never work (decide.ts reject, propose.ts, cancelAndClassify).
THEOREM EndedWorkStaysClassified == Spec => []EndedWorkIsClassified
<1>1. RuntimeInv => EndedWorkIsClassified
  <2>1. Tables.hold = hold /\ Tables.version = version /\ Tables.lineage = lineage
    BY DEF Tables
  <2> QED BY <2>1 DEF RuntimeInv, StopsInv, StopsKept, EndedClassified, Over, EndedWorkIsClassified
<1> QED BY <1>1, RuntimeIsKept, PTL

(***************************************************************************)
(* A proposal fits the cap: propose, restart and a hand-back for review    *)
(* write versions, and nothing else makes one current.                     *)
(***************************************************************************)
StatesStay(t, u) ==
    Shaped(u) /\ \A v \in Version : u.version[v].state = t.version[v].state

\* Ending work, or closing holds, writes no version's state.
LEMMA EndingStays ==
    ASSUME NEW t, NEW u, NEW w, NEW L, NEW H, StatesStay(t, u), Ends(u, w, L, H)
    PROVE  StatesStay(t, w)
BY DEF StatesStay, Ends, SameApprovals

\* Nor does deciding a gate,
LEMMA GateDecidedStays ==
    ASSUME NEW t, Shaped(t), NEW v, NEW to
    PROVE  StatesStay(t, GateDecided(t, v, to))
<1> DEFINE u == GateDecided(t, v, to)
<1>1. /\ u.lineage = t.lineage /\ u.hold = t.hold /\ u.lease = t.lease
      /\ u.envelope = t.envelope /\ u.call = t.call /\ DOMAIN u = DOMAIN t
      /\ u.version = [t.version EXCEPT ![v] = [t.version[v] EXCEPT !.gate = to]]
  BY DEF Shaped, GateDecided
<1> HIDE DEF u
<1>2. DOMAIN u.version = Version
      /\ \A w \in Version : /\ DOMAIN u.version[w] = DOMAIN NoVersion
                            /\ u.version[w].state = t.version[w].state
  BY <1>1 DEF Shaped, NoVersion
<1>3. Shaped(u)
  BY <1>1, <1>2 DEF Shaped
<1> QED BY <1>2, <1>3 DEF StatesStay, u

\* ending a lineage,
LEMMA LineageEndedStays ==
    ASSUME NEW t, Shaped(t), NEW l, NEW to
    PROVE  StatesStay(t, [t EXCEPT !.lineage[l].state = to])
<1> DEFINE u == [t EXCEPT !.lineage[l].state = to]
<1>1. /\ u.version = t.version /\ u.hold = t.hold /\ u.lease = t.lease
      /\ u.envelope = t.envelope /\ u.call = t.call /\ DOMAIN u = DOMAIN t
      /\ u.lineage = [t.lineage EXCEPT ![l] = [t.lineage[l] EXCEPT !.state = to]]
  BY DEF Shaped
<1> HIDE DEF u
<1>2. DOMAIN u.lineage = Lineage
      /\ \A m \in Lineage : DOMAIN u.lineage[m] = DOMAIN NoLineage
  BY <1>1 DEF Shaped
<1>3. Shaped(u)
  BY <1>1, <1>2 DEF Shaped
<1> QED BY <1>1, <1>3 DEF StatesStay, u

\* closing a call,
LEMMA CallClosedStays ==
    ASSUME NEW t, Shaped(t), NEW c, NEW to
    PROVE  StatesStay(t, [t EXCEPT !.call[c].state = to])
<1> DEFINE u == [t EXCEPT !.call[c].state = to]
<1>1. /\ u.lineage = t.lineage /\ u.version = t.version /\ u.hold = t.hold
      /\ u.lease = t.lease /\ u.envelope = t.envelope /\ DOMAIN u = DOMAIN t
      /\ u.call = [t.call EXCEPT ![c] = [t.call[c] EXCEPT !.state = to]]
  BY DEF Shaped
<1> HIDE DEF u
<1>2. DOMAIN u.call = Call /\ \A d \in Call : DOMAIN u.call[d] = DOMAIN NoCall
  BY <1>1 DEF Shaped
<1>3. Shaped(u)
  BY <1>1, <1>2 DEF Shaped
<1> QED BY <1>1, <1>3 DEF StatesStay, u

\* reserving holds,
LEMMA ReservedStays ==
    ASSUME NEW t, NEW u, StatesStay(t, u), NEW new
    PROVE  StatesStay(t, Reserved(u, new))
<1> DEFINE w == Reserved(u, new)
           row(h) == IF h \in DOMAIN new
                THEN [state |-> "held", version |-> new[h].version, envelope |-> new[h].envelope,
                      amount |-> new[h].amount, actual |-> 0, lease |-> Nil, replaced |-> FALSE,
                      attempt |-> "reserved", marked |-> FALSE, end |-> "none"]
            ELSE [u.hold[h] EXCEPT
                      !.replaced = @ \/ \E n \in DOMAIN new : new[n].version = u.hold[h].version]
<1>1. /\ w.lineage = u.lineage /\ w.version = u.version /\ w.lease = u.lease /\ w.call = u.call
      /\ w.hold = [h \in Hold |-> row(h)]
      /\ DOMAIN w = DOMAIN u /\ DOMAIN w.envelope = Envelope
  BY DEF StatesStay, Shaped, Reserved
<1>2. ASSUME NEW h \in Hold
      PROVE  DOMAIN row(h) = DOMAIN NoHold
  <2>1. DOMAIN u.hold[h] = DOMAIN NoHold
    BY DEF StatesStay, Shaped
  <2>2. CASE h \in DOMAIN new
    BY <2>2 DEF NoHold
  <2>3. CASE h \notin DOMAIN new
    BY <2>1, <2>3
  <2> QED BY <2>2, <2>3
<1> HIDE DEF w, row
<1>3. Shaped(w)
  BY <1>1, <1>2 DEF StatesStay, Shaped
<1> QED BY <1>1, <1>3 DEF StatesStay, w

\* or taking a lease.
LEMMA LeaseTakenStays ==
    ASSUME NEW t, NEW u, StatesStay(t, u), NEW h, NEW x, NEW agent
    PROVE  StatesStay(t, LeaseTaken(u, h, x, agent))
<1> DEFINE w == LeaseTaken(u, h, x, agent)
           v == u.hold[h].version
           k == TaskOf(u, v)
           row == [state |-> "live", task |-> k, hold |-> h, fence |-> NextFence(u, k),
                   lapsed |-> FALSE, delegation |-> IF agent THEN "live" ELSE "none",
                   settled |-> 0]
<1>1. /\ w.lineage = u.lineage /\ w.call = u.call /\ w.envelope = u.envelope
      /\ w.lease = [u.lease EXCEPT ![x] = row]
      /\ w.hold = [u.hold EXCEPT ![h] = [[u.hold[h] EXCEPT !.lease = x] EXCEPT !.attempt = "dispatched"]]
      /\ w.version = [u.version EXCEPT ![v] = [u.version[v] EXCEPT !.run = "claimed"]]
      /\ DOMAIN w = DOMAIN u
  BY DEF StatesStay, Shaped, LeaseTaken
<1>2. DOMAIN row = DOMAIN NoLease
  BY DEF NoLease
<1> HIDE DEF w, row, v
<1>3. Shaped(u)
  BY DEF StatesStay
<1>4. DOMAIN w.version = Version
      /\ \A z \in Version : /\ DOMAIN w.version[z] = DOMAIN NoVersion
                            /\ w.version[z].state = u.version[z].state
  BY <1>1, <1>3 DEF Shaped, NoVersion
<1>5. DOMAIN w.hold = Hold /\ \A i \in Hold : DOMAIN w.hold[i] = DOMAIN NoHold
  BY <1>1, <1>3 DEF Shaped
<1>6. DOMAIN w.lease = Lease /\ \A y \in Lease : DOMAIN w.lease[y] = DOMAIN NoLease
  BY <1>1, <1>2, <1>3 DEF Shaped
<1>7. Shaped(w)
  BY <1>1, <1>3, <1>4, <1>5, <1>6 DEF Shaped
<1> QED BY <1>4, <1>7 DEF StatesStay, w

\* A drop stops and reserves, and writes no version's state either.
LEMMA DroppedStays ==
    ASSUME NEW t, NEW u, StatesStay(t, u), NEW H, NEW f, NEW retire \in BOOLEAN
    PROVE  StatesStay(t, Dropped(u, H, f, retire))
<1> DEFINE dropped == [u EXCEPT !.hold = [h \in Hold |->
                IF h \in Dropping(u, H) THEN [u.hold[h] EXCEPT !.attempt = "dropped"] ELSE u.hold[h]]]
           revoke(S) == IF retire THEN LeasesOf(u, S) ELSE {}
           old(n) == CHOOSE h \in DOMAIN f : f[h] = n
           spent == StoppedSpent(dropped, Exhausted(u, H), revoke(Exhausted(u, H)))
           new == [n \in {f[h] : h \in DOMAIN f} |->
                     [version |-> u.hold[old(n)].version, envelope |-> u.hold[old(n)].envelope,
                      amount |-> Left(u, old(n))]]
           again == Reserved(spent, new)
<1>1. Dropped(u, H, f, retire) = Revoked(again, revoke(DOMAIN f))
  BY DEF Dropped
<1>2. StatesStay(t, dropped)
  <2>1. /\ dropped.lineage = u.lineage /\ dropped.version = u.version /\ dropped.lease = u.lease
        /\ dropped.envelope = u.envelope /\ dropped.call = u.call
        /\ DOMAIN dropped = DOMAIN u
        /\ dropped.hold = [h \in Hold |->
              IF h \in Dropping(u, H) THEN [u.hold[h] EXCEPT !.attempt = "dropped"] ELSE u.hold[h]]
    BY DEF StatesStay, Shaped
  <2> HIDE DEF dropped
  <2>2. Shaped(dropped)
    BY <2>1 DEF StatesStay, Shaped
  <2> QED BY <2>1, <2>2 DEF StatesStay
<1> HIDE DEF dropped, revoke, old
<1>3. Ends(dropped, spent, LeasesOf(dropped, Exhausted(u, H)), {})
  BY <1>2, StoppedSpentEnds DEF StatesStay
<1> HIDE DEF spent, new
<1>4. StatesStay(t, spent)
  BY <1>2, <1>3, EndingStays
<1>5. StatesStay(t, again)
  BY <1>4, ReservedStays
<1> HIDE DEF again
<1>6. Ends(again, Revoked(again, revoke(DOMAIN f)), {}, {})
  BY <1>5, RevokedEnds DEF StatesStay
<1>7. StatesStay(t, Revoked(again, revoke(DOMAIN f)))
  BY <1>5, <1>6, EndingStays
<1> QED BY <1>1, <1>7

(***************************************************************************)
(* So the other transactions propose nothing.                              *)
(***************************************************************************)
LEMMA CommitStays ==
    ASSUME NEW STATE u, StatesStay(Tables, u), Commit(u)
    PROVE  ProposalsFit
BY DEF StatesStay, Commit, Tables, ProposalsFit

\* What every command starts from.
LEMMA StatesFound ==
    ASSUME RuntimeInv
    PROVE  StatesStay(Tables, Tables) /\ Shaped(Tables) /\ WorkKept(Tables, {})
BY LedgerFound DEF WorkKept, StatesStay

\* A step that writes no version proposes none.
LEMMA UnwrittenFits ==
    ASSUME version' = version
    PROVE  ProposalsFit
BY DEF ProposalsFit

LEMMA ApproveFits ==
    ASSUME RuntimeInv, NEW v \in Version, NEW e \in Envelope, NEW h \in Hold, Approve(v, e, h)
    PROVE  ProposalsFit
<1> DEFINE k == TaskOf(Tables, v)
           maximum == version[v].maximum
           g == GateDecided(Tables, v, "approved")
           t1 == EnvelopeOpened(g, k, e, maximum)
           new == [n \in {h} |-> [version |-> v, envelope |-> e, amount |-> maximum]]
           u == Reserved(t1, new)
<1>1. Commit(u)
  BY DEF Approve
<1>2. StatesStay(Tables, g)
  BY StatesFound, GateDecidedStays
<1> HIDE DEF g, k, maximum
<1>3. Ends(g, t1, {}, {})
  BY <1>2, EnvelopeOpenedEnds DEF StatesStay
<1> HIDE DEF t1, new
<1>4. StatesStay(Tables, u)
  BY <1>2, <1>3, EndingStays, ReservedStays
<1> HIDE DEF u
<1> QED BY <1>1, <1>4, CommitStays

LEMMA RejectFits ==
    ASSUME RuntimeInv, NEW v \in Version, Reject(v)
    PROVE  ProposalsFit
<1> DEFINE l == version[v].lineage
           g == GateDecided(Tables, v, "rejected")
           t1 == [g EXCEPT !.lineage[l].state = "rejected"]
           H == HeldOn(t1, Versions(t1, l))
           u == Classified(t1, H)
<1>1. Commit(u)
  BY DEF Reject
<1>2. StatesStay(Tables, g)
  BY StatesFound, GateDecidedStays
<1> HIDE DEF g, l
<1>3. StatesStay(g, t1)
  BY <1>2, LineageEndedStays DEF StatesStay
<1> HIDE DEF t1, H
<1>4. StatesStay(Tables, t1)
  BY <1>2, <1>3 DEF StatesStay
<1>5. Ends(t1, u, {}, H)
  BY <1>4, ClassifiedEnds DEF StatesStay
<1> HIDE DEF u
<1>6. StatesStay(Tables, u)
  BY <1>4, <1>5, EndingStays
<1> QED BY <1>1, <1>6, CommitStays

LEMMA RequestChangesFits ==
    ASSUME RuntimeInv, NEW v \in Version, RequestChanges(v)
    PROVE  ProposalsFit
<1>1. Commit(GateDecided(Tables, v, "changes_requested"))
  BY DEF RequestChanges
<1>2. StatesStay(Tables, GateDecided(Tables, v, "changes_requested"))
  BY StatesFound, GateDecidedStays
<1> QED BY <1>1, <1>2, CommitStays

LEMMA PickUpFits ==
    ASSUME RuntimeInv, NEW h \in Hold, NEW x \in Lease, NEW agent \in BOOLEAN, PickUp(h, x, agent)
    PROVE  ProposalsFit
<1> DEFINE k == TaskOf(Tables, hold[h].version)
           t1 == Fenced(Tables, k)
           u == LeaseTaken(t1, h, x, agent)
<1>1. Commit(u)
  BY DEF PickUp
<1>2. PICK L, H : Ends(Tables, t1, L, H)
  BY StatesFound, FencedEnds
<1> HIDE DEF t1
<1>3. StatesStay(Tables, u)
  BY <1>2, StatesFound, EndingStays, LeaseTakenStays
<1> HIDE DEF u
<1> QED BY <1>1, <1>3, CommitStays

LEMMA LetGoStays ==
    ASSUME NEW t, Shaped(t), NEW h \in Hold
    PROVE  StatesStay(t, LetGo(t, h))
<1>1. CASE t.hold[h].state = "held"
  BY <1>1, LetGoEnds DEF Ends, SameApprovals, StatesStay
<1>2. CASE t.hold[h].state # "held"
  BY <1>2 DEF LetGo, StatesStay
<1> QED BY <1>1, <1>2

LEMMA PickUpReplacingFits ==
    ASSUME RuntimeInv, NEW h \in Hold, NEW n \in Hold, NEW x \in Lease, NEW agent \in BOOLEAN,
           PickUpReplacing(h, n, x, agent)
    PROVE  ProposalsFit
<1> DEFINE v == hold[h].version
           k == TaskOf(Tables, v)
           t1 == LetGo(Tables, h)
           new == [m \in {n} |-> [version |-> v, envelope |-> hold[h].envelope,
                                  amount |-> ReplacementAmount(t1, h)]]
           t2 == Reserved(t1, new)
           t3 == Fenced(t2, k)
           u == LeaseTaken(t3, n, x, agent)
<1>1. Commit(u)
  BY DEF PickUpReplacing
<1>2. StatesStay(Tables, t1)
  BY StatesFound, LetGoStays
<1> HIDE DEF k, t1, new
<1>3. StatesStay(Tables, t2)
  BY <1>2, ReservedStays
<1> HIDE DEF t2
<1>4. PICK L, H : Ends(t2, t3, L, H)
  BY <1>3, FencedEnds DEF StatesStay
<1> HIDE DEF t3
<1>5. StatesStay(Tables, u)
  BY <1>3, <1>4, EndingStays, LeaseTakenStays
<1> HIDE DEF u
<1> QED BY <1>1, <1>5, CommitStays

LEMMA PickUpSpentFits ==
    ASSUME RuntimeInv, NEW h \in Hold, PickUpSpent(h)
    PROVE  ProposalsFit
<1> DEFINE k == TaskOf(Tables, hold[h].version)
           t1 == LetGo(Tables, h)
           t2 == StoppedSpent(t1, {h}, {})
           u == Fenced(t2, k)
<1>1. Commit(u)
  BY DEF PickUpSpent
<1>2. StatesStay(Tables, t1)
  BY StatesFound, LetGoStays
<1> HIDE DEF t1, k
<1>3. Ends(t1, t2, LeasesOf(t1, {h}), {})
  BY <1>2, StoppedSpentEnds DEF StatesStay
<1> HIDE DEF t2
<1>4. StatesStay(Tables, t2)
  BY <1>2, <1>3, EndingStays
<1>5. PICK L, H : Ends(t2, u, L, H)
  BY <1>4, FencedEnds DEF StatesStay
<1> HIDE DEF u
<1>6. StatesStay(Tables, u)
  BY <1>4, <1>5, EndingStays
<1> QED BY <1>1, <1>6, CommitStays

LEMMA HandBackFits ==
    ASSUME RuntimeInv, NEW x \in Lease, NEW completed \in BOOLEAN, HandBack(x, completed)
    PROVE  ProposalsFit
<1> DEFINE u == IF completed THEN Stopped(Settled(Tables, x, FALSE), {x}, "final")
                ELSE Settled(Tables, x, FALSE)
<1>1. HandbackBound(Tables, x) /\ Commit(u)
  BY DEF HandBack
<1>2. Ends(Tables, u, {x}, {Tables.lease[x].hold})
  BY <1>1, StatesFound, ReportingEnds
<1> HIDE DEF u
<1>3. StatesStay(Tables, u)
  BY <1>2, StatesFound, EndingStays
<1> QED BY <1>1, <1>3, CommitStays

LEMMA HandBackDroppedFits ==
    ASSUME RuntimeInv, NEW x \in Lease, HandbackBound(Tables, x), NEW f, HandBackDropped(x, f)
    PROVE  ProposalsFit
<1> DEFINE H == {lease[x].hold}
           t1 == Settled(Tables, x, TRUE)
           u == Dropped(t1, H, f, FALSE)
<1>1. Commit(u)
  BY DEF HandBackDropped
<1>2. Tables.lease[x].state # "none"
  BY DEF HandbackBound, Standing
<1>3. PICK b \in BOOLEAN : b = TRUE
  OBVIOUS
<1>4. Ends(Tables, Settled(Tables, x, b), {x}, {Tables.lease[x].hold})
  BY <1>2, StatesFound, SettledEnds
<1>5. Ends(Tables, t1, {x}, {Tables.lease[x].hold})
  BY <1>3, <1>4, Zenon
<1> HIDE DEF t1, H
<1>6. StatesStay(Tables, t1)
  BY <1>5, StatesFound, EndingStays
<1>7. PICK r \in BOOLEAN : r = FALSE
  OBVIOUS
<1>8. StatesStay(Tables, Dropped(t1, H, f, r))
  BY <1>6, DroppedStays
<1>9. StatesStay(Tables, u)
  BY <1>7, <1>8, Zenon
<1> HIDE DEF u
<1> QED BY <1>1, <1>9, CommitStays

LEMMA EndRunFits ==
    ASSUME RuntimeInv, NEW x \in Lease, EndRun(x) \/ RefuseCall(x)
    PROVE  ProposalsFit
<1> DEFINE u == Retired(Tables, {x}, "final")
<1>1. Commit(u)
  BY DEF EndRun, RefuseCall
<1>2. Ends(Tables, u, {x}, {})
  BY StatesFound, RetiredEnds
<1> HIDE DEF u
<1>3. StatesStay(Tables, u)
  BY <1>2, StatesFound, EndingStays
<1> QED BY <1>1, <1>3, CommitStays

LEMMA StopAtCeilingFits ==
    ASSUME RuntimeInv, NEW x \in Lease, NEW m \in Amounts, StopAtCeiling(x, m)
    PROVE  ProposalsFit
<1> DEFINE V == VersionsOf(Tables, {lease[x].hold})
           t1 == Retired(Tables, {x}, "retryable")
           u == AtBudget(t1, V)
<1>1. Commit(u)
  BY DEF StopAtCeiling
<1>2. Ends(Tables, t1, {x}, {})
  BY StatesFound, RetiredEnds
<1> HIDE DEF t1, V
<1>3. StatesStay(Tables, t1)
  BY <1>2, StatesFound, EndingStays
<1>4. Ends(t1, u, {}, {})
  BY <1>3, AtBudgetEnds DEF StatesStay
<1> HIDE DEF u
<1>5. StatesStay(Tables, u)
  BY <1>3, <1>4, EndingStays
<1> QED BY <1>1, <1>5, CommitStays

LEMMA RefuseStartFits ==
    ASSUME RuntimeInv, NEW c \in Call, RefuseStart(c)
    PROVE  ProposalsFit
<1> DEFINE L == {call[c].lease}
           t1 == [Tables EXCEPT !.call[c].state = "released"]
           u == Retired(t1, L, "final")
<1>1. Commit(t1) \/ Commit(u)
  BY DEF RefuseStart
<1>2. StatesStay(Tables, t1)
  BY StatesFound, CallClosedStays
<1> HIDE DEF t1, L
<1>3. Ends(t1, u, L, {})
  BY <1>2, RetiredEnds DEF StatesStay
<1> HIDE DEF u
<1>4. StatesStay(Tables, u)
  BY <1>2, <1>3, EndingStays
<1>5. CASE Commit(t1)
  BY <1>2, <1>5, CommitStays DEF t1
<1>6. CASE Commit(u)
  BY <1>4, <1>6, CommitStays DEF u, t1, L
<1> QED BY <1>1, <1>5, <1>6

LEMMA StoppedAtSettlementStays ==
    ASSUME NEW t, NEW u, StatesStay(t, u), NEW x
    PROVE  StatesStay(t, StoppedAtSettlement(u, x))
<1>1. Ends(u, Retired(u, {x}, "final"), {x}, {})
  BY RetiredEnds DEF StatesStay
<1>2. StatesStay(t, Retired(u, {x}, "final"))
  BY <1>1, EndingStays
<1> QED BY <1>2 DEF StoppedAtSettlement

LEMMA ReleaseCallFits ==
    ASSUME RuntimeInv, NEW c \in Call, ReleaseCall(c)
    PROVE  ProposalsFit
<1> DEFINE x == call[c].lease
           t1 == [Tables EXCEPT !.call[c].state = "released"]
           u == StoppedAtSettlement(t1, x)
<1>1. Commit(u)
  BY DEF ReleaseCall
<1>2. StatesStay(Tables, t1)
  BY StatesFound, CallClosedStays
<1> HIDE DEF t1, x
<1>3. StatesStay(Tables, u)
  BY <1>2, StoppedAtSettlementStays
<1> HIDE DEF u
<1> QED BY <1>1, <1>3, CommitStays

LEMMA HoldCallFits ==
    ASSUME RuntimeInv, NEW c \in Call, NEW drops \in BOOLEAN, HoldCall(c, drops)
    PROVE  ProposalsFit
<1> DEFINE x == call[c].lease
           H == {call[c].hold}
           t1 == HeldUnknown(Tables, c)
           t2 == StoppedAtSettlement(t1, x)
           u == Classified(t2, H)
<1>1. Commit(t2) \/ Commit(u)
  BY DEF HoldCall
<1>2. Ends(Tables, t1, {}, {})
  BY StatesFound, HeldUnknownEnds
<1> HIDE DEF t1, x
<1>3. StatesStay(Tables, t1)
  BY <1>2, StatesFound, EndingStays
<1>4. StatesStay(Tables, t2)
  BY <1>3, StoppedAtSettlementStays
<1> HIDE DEF t2, H
<1>5. Ends(t2, u, {}, H)
  BY <1>4, ClassifiedEnds DEF StatesStay
<1> HIDE DEF u
<1>6. StatesStay(Tables, u)
  BY <1>4, <1>5, EndingStays
<1>7. CASE Commit(t2)
  BY <1>4, <1>7, CommitStays DEF t2, t1, x
<1>8. CASE Commit(u)
  BY <1>6, <1>8, CommitStays DEF u, t2, t1, x, H
<1> QED BY <1>1, <1>7, <1>8

LEMMA SweepPassFits ==
    ASSUME RuntimeInv, NEW f, SweepPass(f)
    PROVE  ProposalsFit
<1> DEFINE H == Expired(Tables)
           t1 == ExpiredFenced(Tables)
           t2 == Dropped(t1, H, f, TRUE)
           u == CallsSwept(t2)
<1>1. Commit(u)
  BY DEF SweepPass, Swept
<1>2. Ends(Tables, t1, LeasesOf(Tables, H), H)
  BY StatesFound, ExpiredFencedEnds
<1> HIDE DEF t1, H
<1>3. StatesStay(Tables, t1)
  BY <1>2, StatesFound, EndingStays
<1>4. PICK r \in BOOLEAN : r = TRUE
  OBVIOUS
<1>5. StatesStay(Tables, Dropped(t1, H, f, r))
  BY <1>3, DroppedStays
<1>6. StatesStay(Tables, t2)
  BY <1>4, <1>5, Zenon
<1> HIDE DEF t2
<1>7. Ends(t2, u, {}, {})
  BY <1>6, CallsSweptEnds DEF StatesStay
<1> HIDE DEF u
<1>8. StatesStay(Tables, u)
  BY <1>6, <1>7, EndingStays
<1> QED BY <1>1, <1>8, CommitStays

LEMMA ReplayFits ==
    ASSUME RuntimeInv, Replay
    PROVE  ProposalsFit
<1> DEFINE E == {h \in Hold : Eligible(Tables, h)}
           A == {h \in E : LostAuthority(Tables, h)}
           L == LeasesOf(Tables, A)
           V == VersionsOf(Tables, A)
           t1 == Retired(Tables, L, "retryable")
           t2 == RunsReopened(t1, V)
           u == Classified(t2, E)
<1>1. Commit(u)
  BY DEF Replay, Replayed
<1> HIDE DEF E, A, L, V
<1>2. Ends(Tables, t1, L, {})
  BY StatesFound, RetiredEnds
<1> HIDE DEF t1
<1>3. StatesStay(Tables, t1)
  BY <1>2, StatesFound, EndingStays
<1>4. Ends(t1, t2, {}, {})
  BY <1>3, RunsReopenedEnds DEF StatesStay
<1> HIDE DEF t2
<1>5. StatesStay(Tables, t2)
  BY <1>3, <1>4, EndingStays
<1>6. Ends(t2, u, {}, E)
  BY <1>5, ClassifiedEnds DEF StatesStay
<1> HIDE DEF u
<1>7. StatesStay(Tables, u)
  BY <1>5, <1>6, EndingStays
<1> QED BY <1>1, <1>7, CommitStays

LEMMA CancelFits ==
    ASSUME RuntimeInv, NEW l \in Lineage, Cancel(l)
    PROVE  ProposalsFit
<1> DEFINE V == Versions(Tables, l)
           t1 == [Tables EXCEPT !.lineage[l].state = "cancelled"]
           L == LiveOn(t1, V)
           t2 == Retired(t1, L, "final")
           rows == [v \in Version |->
                IF v \in V /\ t2.version[v].run \in {"planned", "claimed"}
                    THEN [t2.version[v] EXCEPT !.run = "cancelled"] ELSE t2.version[v]]
           t3 == [t2 EXCEPT !.version = rows]
           H == HeldOn(t3, V)
           u == Classified(t3, H)
<1>1. Commit(u)
  BY DEF Cancel
<1>2. StatesStay(Tables, t1)
  BY StatesFound, LineageEndedStays
<1> HIDE DEF t1, V, L
<1>3. Ends(t1, t2, L, {})
  BY <1>2, RetiredEnds DEF StatesStay
<1> HIDE DEF t2
<1>4. StatesStay(Tables, t2)
  BY <1>2, <1>3, EndingStays
<1>5. DOMAIN rows = Version /\ \A v \in Version : /\ DOMAIN rows[v] = DOMAIN NoVersion
                              /\ rows[v].state = t2.version[v].state
                              /\ rows[v].lineage = t2.version[v].lineage
                              /\ rows[v].gate = t2.version[v].gate
  BY <1>4 DEF StatesStay, Shaped, NoVersion
<1> HIDE DEF rows
<1>6. Ends(t2, t3, {}, {})
  BY <1>4, <1>5, RunsWrittenEnd DEF StatesStay
<1> HIDE DEF t3, H
<1>7. StatesStay(Tables, t3)
  BY <1>4, <1>6, EndingStays
<1>8. Ends(t3, u, {}, H)
  BY <1>7, ClassifiedEnds DEF StatesStay
<1> HIDE DEF u
<1>9. StatesStay(Tables, u)
  BY <1>7, <1>8, EndingStays
<1> QED BY <1>1, <1>9, CommitStays

LEMMA LoseAuthorityFits ==
    ASSUME RuntimeInv, NEW L \in SUBSET Lease, LoseAuthority(L)
    PROVE  ProposalsFit
<1> DEFINE H == {h \in Hold : hold[h].state = "held" /\ hold[h].lease \in L}
           V == {hold[lease[x].hold].version : x \in L}
           t1 == Retired(Tables, L, "retryable")
           t2 == Classified(t1, H)
           u == RunsReopened(t2, V)
<1>1. Commit(u)
  BY DEF LoseAuthority
<1> HIDE DEF H, V
<1>2. Ends(Tables, t1, L, {})
  BY StatesFound, RetiredEnds
<1> HIDE DEF t1
<1>3. StatesStay(Tables, t1)
  BY <1>2, StatesFound, EndingStays
<1>4. Ends(t1, t2, {}, H)
  BY <1>3, ClassifiedEnds DEF StatesStay
<1> HIDE DEF t2
<1>5. StatesStay(Tables, t2)
  BY <1>3, <1>4, EndingStays
<1>6. Ends(t2, u, {}, {})
  BY <1>5, RunsReopenedEnds DEF StatesStay
<1> HIDE DEF u
<1>7. StatesStay(Tables, u)
  BY <1>5, <1>6, EndingStays
<1> QED BY <1>1, <1>7, CommitStays

LEMMA LapseGateFits ==
    ASSUME RuntimeInv, NEW v \in Version, LapseGate(v)
    PROVE  ProposalsFit
<1>1. \A w \in Version : DOMAIN version[w] = DOMAIN NoVersion
  BY StatesFound, TablesFields DEF Shaped
<1>2. DOMAIN version = Version
  BY StatesFound, TablesFields DEF Shaped
<1>3. \A w \in Version : version'[w].state = version[w].state
  BY <1>1, <1>2 DEF LapseGate, NoVersion
<1> QED BY <1>3 DEF ProposalsFit

\* Every step: one case to an action.
LEMMA NextFits == RuntimeInv /\ [Next]_vars => ProposalsFit
<1> SUFFICES ASSUME RuntimeInv, [Next]_vars PROVE ProposalsFit
  OBVIOUS
<1>1. CASE Deciding
  BY <1>1, ProposeKeepsLedger, RestartKeepsLedger, ApproveFits, RejectFits,
     RequestChangesFits DEF Deciding
<1>2. CASE Working
  <2>1. ASSUME NEW x \in Lease, Dispatch(x)
        PROVE  ProposalsFit
    BY <2>1, UnwrittenFits DEF Dispatch
  <2> QED BY <1>2, <2>1, PickUpFits, PickUpReplacingFits, PickUpSpentFits, HandBackFits,
             HandBackForReviewKeepsLedger, HandBackDroppedFits, EndRunFits DEF Working
<1>3. CASE Calling
  <2>1. ASSUME NEW x \in Lease, NEW c \in Call, NEW m \in Amounts, ReserveCall(x, c, m)
        PROVE  ProposalsFit
    BY <2>1, UnwrittenFits DEF ReserveCall
  <2>2. ASSUME NEW c \in Call, StartCall(c)
        PROVE  ProposalsFit
    BY <2>2, UnwrittenFits DEF StartCall
  <2>3. ASSUME NEW c \in Call, NEW cost \in Amounts \cup {0}, SettleCall(c, cost)
        PROVE  ProposalsFit
    BY <2>3, UnwrittenFits DEF SettleCall
  <2> QED BY <1>3, <2>1, <2>2, <2>3, StopAtCeilingFits, EndRunFits, RefuseStartFits,
             ReleaseCallFits, HoldCallFits DEF Calling
<1>4. CASE Sweeping
  BY <1>4, SweepPassFits DEF Sweeping
<1>5. CASE Replay
  BY <1>5, ReplayFits
<1>6. CASE Ending
  BY <1>6, CancelFits, LoseAuthorityFits DEF Ending
<1>7. CASE Lapsing
  <2>1. ASSUME NEW x \in Lease, LapseLease(x)
        PROVE  ProposalsFit
    BY <2>1, UnwrittenFits DEF LapseLease
  <2> QED BY <1>7, <2>1, LapseGateFits DEF Lapsing
<1>8. CASE UNCHANGED vars
  BY <1>8, UnwrittenFits DEF vars
<1> QED BY <1>1, <1>2, <1>3, <1>4, <1>5, <1>6, <1>7, <1>8 DEF Next

\* A proposal is written only where its maximum fits the business cap beside all
\* that stays committed: what is forecast to be given back of the version it
\* supersedes is given back in the same transaction (budget-ledger.ts, propose.ts,
\* restart.ts, handback.ts).
THEOREM ProposalsAlwaysFit == Spec => ProposalFitsCap
<1>1. RuntimeInv /\ [Next]_vars => ProposalsFit
  BY NextFits
<1> QED BY <1>1, RuntimeIsKept, PTL DEF Spec, ProposalFitsCap, ProposalsFit
=============================================================================
