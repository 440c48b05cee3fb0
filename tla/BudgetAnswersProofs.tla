------------------------ MODULE BudgetAnswersProofs ------------------------
(***************************************************************************)
(* Proofs about the budget stop and its answers: the order of the step's   *)
(* holds and leases, the money of its holds and calls, and the ceilings.   *)
(***************************************************************************)
EXTENDS BudgetRows, SumLemmas

(***************************************************************************)
(* The rows, and numbering them.                                           *)
(***************************************************************************)

\* There are finitely many holds and calls to count and to sum over.
LEMMA RowsAreFinite == IsFiniteSet(Hold) /\ IsFiniteSet(Call)
  BY SomeBounds, FS_Interval DEF Hold, Call

\* Where the holds are numbered without a gap, the next number is that of the first
\* hold nobody wrote.
LEMMA NextHoldIs ==
    ASSUME NEW t, HoldsInOrder(t)
    PROVE  /\ NextHold(t) \in Nat \ {0}
           /\ \A h \in Hold : t.hold[h].state # "none" <=> h < NextHold(t)
<1>1. Written(t) \in SUBSET (1 .. Holds) /\ Hold = 1 .. Holds /\ Holds \in Nat
  BY SomeBounds DEF Written, Hold
<1>2. \A g, h \in 1 .. Holds : g < h /\ h \in Written(t) => g \in Written(t)
  BY <1>1 DEF HoldsInOrder, Written
<1>3. /\ Cardinality(Written(t)) \in Nat
      /\ \A h \in 1 .. Holds : h \in Written(t) <=> h <= Cardinality(Written(t))
  BY <1>1, <1>2, NumberedWithoutGap
<1>4. \A h \in Hold : h \in Nat /\ (h \in Written(t) <=> h <= Cardinality(Written(t)))
  BY <1>1, <1>3
<1> DEFINE k == Cardinality(Written(t))
<1>5. k \in Nat /\ NextHold(t) = k + 1
  BY <1>3 DEF NextHold
<1>6. \A h \in Hold : t.hold[h].state # "none" <=> h <= k
  BY <1>4 DEF Written
<1>7. \A h \in Hold : h \in Nat
  BY <1>4
<1> HIDE DEF k
<1> QED BY <1>5, <1>6, <1>7

(***************************************************************************)
(* What no transaction takes back of a hold, whichever helper ends it.     *)
(***************************************************************************)

\* Following is reflexive and transitive,
LEMMA FollowsItself ==
    ASSUME NEW t, OrderKept(t)
    PROVE  Quiet(t, t)
<1>1. \A h \in Hold : t.hold[h] \in LooseRow /\ RowKept(t.hold[h])
  BY DEF OrderKept, TablesType
<1> QED BY <1>1 DEF OrderKept, Quiet, HoldsFollow, RowFollows

\* A row that follows one that follows another follows it,
LEMMA RowFollowsOn ==
    ASSUME NEW r, NEW s, NEW v, RowFollows(r, s), RowFollows(s, v)
    PROVE  RowFollows(r, v)
  BY DEF RowFollows

\* A written row that changes its amount alone follows,
LEMMA AmountFollows ==
    ASSUME NEW r \in LooseRow, NEW s \in LooseRow, RowKept(r), r.state # "none",
           s = [r EXCEPT !.amount = s.amount]
    PROVE  RowFollows(r, s)
<1>1. /\ s.state = r.state /\ s.lease = r.lease /\ s.step = r.step
      /\ s.marked = r.marked /\ s.absent = r.absent
  BY DEF LooseRow
<1>2. RowKept(s)
  BY <1>1 DEF RowKept
<1> QED BY <1>1, <1>2 DEF RowFollows

\* and so do the tables.
LEMMA FollowsOn ==
    ASSUME NEW t, NEW u, NEW v, Quiet(t, u), Quiet(u, v)
    PROVE  Quiet(t, v)
  BY RowFollowsOn DEF Quiet, HoldsFollow

\* and keeps the order of the holds.
LEMMA FollowsKeepsOrder ==
    ASSUME NEW t, NEW u, OrderKept(t), HoldsFollow(t, u)
    PROVE  /\ HoldsInOrder(u) /\ \A h \in Hold : RowKept(u.hold[h])
           /\ \A h \in Hold : t.hold[h].lease = "over" => u.hold[h].lease = "over"
           /\ \A h \in Hold : u.hold[h].lease = "live" => t.hold[h].lease = "live"
           /\ Written(u) = Written(t)
<1>1. \A h \in Hold : RowFollows(t.hold[h], u.hold[h])
  BY DEF HoldsFollow
<1>2. \A h \in Hold : RowKept(u.hold[h])
  BY <1>1 DEF RowFollows
<1>3. HoldsInOrder(u)
  <2> SUFFICES ASSUME NEW g \in Hold, NEW h \in Hold, g < h, u.hold[h].state # "none"
               PROVE  /\ u.hold[g].state # "none"
                      /\ u.hold[g].state = "held" => u.hold[g].absent
                      /\ u.hold[g].lease \in Running => u.hold[h].lease = "none"
    BY DEF HoldsInOrder
  <2>1. RowFollows(t.hold[g], u.hold[g]) /\ RowFollows(t.hold[h], u.hold[h])
    BY <1>1
  <2>2. t.hold[h].state # "none"
    BY <2>1 DEF RowFollows
  <2>3. /\ t.hold[g].state # "none"
        /\ t.hold[g].state = "held" => t.hold[g].absent
        /\ t.hold[g].lease \in Running => t.hold[h].lease = "none"
    BY <2>2 DEF OrderKept, HoldsInOrder
  <2> QED BY <2>1, <2>3 DEF RowFollows, Running
<1>4. \A h \in Hold : t.hold[h].lease = "over" => u.hold[h].lease = "over"
  BY <1>1 DEF RowFollows
<1>5. \A h \in Hold : u.hold[h].lease = "live" => t.hold[h].lease = "live"
  BY <1>1 DEF RowFollows
<1>6. Written(u) = Written(t)
  BY <1>1 DEF RowFollows, Written
<1> QED BY <1>2, <1>3, <1>4, <1>5, <1>6

\* A helper that only ends things keeps the order.
LEMMA QuietKeeps ==
    ASSUME NEW t, NEW u, OrderKept(t), Quiet(t, u)
    PROVE  OrderKept(u)
<1>1. /\ HoldsInOrder(u) /\ \A h \in Hold : RowKept(u.hold[h])
      /\ \A h \in Hold : t.hold[h].lease = "over" => u.hold[h].lease = "over"
      /\ \A h \in Hold : u.hold[h].lease = "live" => t.hold[h].lease = "live"
  BY FollowsKeepsOrder DEF Quiet
<1>2. \A i \in DOMAIN t.asks : t.asks[i].of \in Hold
  <2>1. t.asks \in Seq(AskRow)
    BY DEF OrderKept, TablesType
  <2>2. \A i \in DOMAIN t.asks : t.asks[i] \in AskRow
    BY <2>1
  <2> QED BY <2>2 DEF AskRow
<1>3. AsksAreOver(u)
  BY <1>1, <1>2 DEF OrderKept, AsksAreOver, Quiet
<1>4. WaitsAlone(u)
  BY <1>1 DEF OrderKept, WaitsAlone, Quiet
<1> QED BY <1>1, <1>3, <1>4 DEF OrderKept, Quiet, HoldsFollow

(***************************************************************************)
(* One row of the tables.                                                  *)
(***************************************************************************)

\* The tables are the record of their five parts, each of its type.
LEMMA TablesAre ==
    ASSUME NEW t \in TablesType
    PROVE  /\ t = [hold |-> t.hold, call |-> t.call, asks |-> t.asks, run |-> t.run,
                   envelope |-> t.envelope]
           /\ t.hold \in [Hold -> LooseRow] /\ t.call \in [Call -> CallRow]
           /\ t.asks \in Seq(AskRow) /\ t.run \in {"planned", "claimed", "waiting", "cancelled"}
           /\ t.envelope \in EnvelopeType
           /\ t.envelope = [held |-> t.envelope.held, actual |-> t.envelope.actual,
                            maximum |-> t.envelope.maximum]
  BY DEF TablesType, EnvelopeType

\* One row rewritten leaves the others.
LEMMA WithIs ==
    ASSUME NEW t \in TablesType, NEW h \in Hold, NEW r \in LooseRow, NEW e \in EnvelopeType
    PROVE  /\ With(t, h, r, e) \in TablesType
           /\ With(t, h, r, e).hold[h] = r
           /\ \A g \in Hold \ {h} : With(t, h, r, e).hold[g] = t.hold[g]
  BY DEF With, TablesType, EnvelopeType

\* The calls rewritten are tables still.
LEMMA WithCallsIs ==
    ASSUME NEW t \in TablesType, NEW k \in [Call -> CallRow]
    PROVE  WithCalls(t, k) \in TablesType
  BY DEF WithCalls, TablesType

\* A row that follows, put in its place, is quiet,
LEMMA WithQuiet ==
    ASSUME NEW t, OrderKept(t), NEW h \in Hold, NEW r, RowFollows(t.hold[h], r),
           NEW e \in EnvelopeType
    PROVE  Quiet(t, With(t, h, r, e))
<1> DEFINE u == With(t, h, r, e)
<1>1. t \in TablesType /\ r \in LooseRow
  BY DEF OrderKept, RowFollows
<1>2. u \in TablesType /\ u.hold[h] = r /\ \A g \in Hold \ {h} : u.hold[g] = t.hold[g]
  BY <1>1, WithIs
<1>3. \A g \in Hold : RowFollows(t.hold[g], t.hold[g])
  BY FollowsItself DEF Quiet, HoldsFollow
<1>4. u.asks = t.asks /\ u.run = t.run
  BY DEF With
<1> HIDE DEF u
<1>5. \A g \in Hold : RowFollows(t.hold[g], u.hold[g])
  BY <1>2, <1>3
<1> QED BY <1>2, <1>4, <1>5 DEF Quiet, HoldsFollow, u

\* and so are calls rewritten.
LEMMA WithCallsQuiet ==
    ASSUME NEW t, OrderKept(t), NEW k \in [Call -> CallRow]
    PROVE  Quiet(t, WithCalls(t, k))
<1>1. WithCalls(t, k) \in TablesType
  BY WithCallsIs DEF OrderKept
<1>2. \A g \in Hold : RowFollows(t.hold[g], t.hold[g])
  BY FollowsItself DEF Quiet, HoldsFollow
<1> QED BY <1>1, <1>2 DEF Quiet, HoldsFollow, WithCalls

(***************************************************************************)
(* What the helpers make of the rows.                                      *)
(***************************************************************************)

\* Calls moved to a state, as the tables with their calls rewritten.
LEMMA CallsMovedIs ==
    ASSUME NEW t \in TablesType, NEW C
    PROVE  \A state \in {"dispatched", "released"} :
               /\ CallsMoved(t, C, state) = WithCalls(t, MovedCalls(t, C, state))
               /\ MovedCalls(t, C, state) \in [Call -> CallRow]
<1> SUFFICES ASSUME NEW state \in {"dispatched", "released"}
             PROVE  /\ CallsMoved(t, C, state) = WithCalls(t, MovedCalls(t, C, state))
                    /\ MovedCalls(t, C, state) \in [Call -> CallRow]
  OBVIOUS
<1>1. MovedCalls(t, C, state) \in [Call -> CallRow]
  <2>1. \A c \in Call : t.call[c] \in CallRow
    BY TablesAre
  <2>2. \A c \in Call : [t.call[c] EXCEPT !.state = state] \in CallRow
    BY <2>1 DEF CallRow
  <2> QED BY <2>1, <2>2 DEF MovedCalls
<1>2. CallsMoved(t, C, state) = WithCalls(t, MovedCalls(t, C, state))
  <2>1. CallsMoved(t, C, state) = [t EXCEPT !.call = MovedCalls(t, C, state)]
    BY DEF CallsMoved, MovedCalls
  <2>2. t = [hold |-> t.hold, call |-> t.call, asks |-> t.asks, run |-> t.run,
             envelope |-> t.envelope]
    BY TablesAre
  <2> QED BY <2>1, <2>2 DEF WithCalls
<1> QED BY <1>1, <1>2

\* closeHold, as one row and the envelope.
LEMMA ClosedIs ==
    ASSUME NEW t \in TablesType, NEW h \in Hold, NEW charge \in Int,
           NEW step \in {"completed", "failed", "written_off", "abandoned"}
    PROVE  /\ Closed(t, h, charge, step)
                = With(t, h, ClosedRow(t.hold[h], charge, step), ClosedEnvelope(t, h, charge))
           /\ ClosedRow(t.hold[h], charge, step) \in LooseRow
           /\ ClosedEnvelope(t, h, charge) \in EnvelopeType
<1>1. t.hold[h] \in LooseRow /\ t.envelope \in EnvelopeType
  BY TablesAre
<1>2. ClosedRow(t.hold[h], charge, step) \in LooseRow
  <2> DEFINE state == IF charge > 0 THEN "actual" ELSE "abandoned"
             o == t.hold[h]
  <2>1. state \in {"actual", "abandoned"} /\ o \in LooseRow
    BY <1>1
  <2>2. ClosedRow(o, charge, step) = [o EXCEPT !.state = state, !.actual = charge, !.step = step]
    BY DEF ClosedRow
  <2> HIDE DEF state, o
  <2>3. [o EXCEPT !.state = state, !.actual = charge, !.step = step] \in LooseRow
    <3> DEFINE p == [o EXCEPT !.state = state]
               q == [p EXCEPT !.actual = charge]
    <3>1. p \in LooseRow
      BY <2>1 DEF LooseRow
    <3> HIDE DEF p
    <3>2. q \in LooseRow
      BY <3>1 DEF LooseRow
    <3> HIDE DEF q
    <3>3. [q EXCEPT !.step = step] \in LooseRow
      BY <3>2 DEF LooseRow
    <3> QED BY <3>3 DEF p, q
  <2> QED BY <2>2, <2>3 DEF o
<1>3. ClosedEnvelope(t, h, charge) \in EnvelopeType
  BY <1>1 DEF ClosedEnvelope, EnvelopeType, LooseRow
<1>4. Closed(t, h, charge, step)
        = With(t, h, ClosedRow(t.hold[h], charge, step), ClosedEnvelope(t, h, charge))
  <2> DEFINE u == Closed(t, h, charge, step)
             amount == t.hold[h].amount
             state == IF charge > 0 THEN "actual" ELSE "abandoned"
  <2>1. u = [t EXCEPT !.hold[h].state = state, !.hold[h].actual = charge, !.hold[h].step = step,
                      !.envelope.held = @ - amount, !.envelope.actual = @ + charge]
    BY DEF Closed
  <2>2. /\ t = [hold |-> t.hold, call |-> t.call, asks |-> t.asks, run |-> t.run,
                envelope |-> t.envelope]
        /\ t.envelope = [held |-> t.envelope.held, actual |-> t.envelope.actual,
                         maximum |-> t.envelope.maximum]
        /\ t.hold \in [Hold -> LooseRow]
    BY TablesAre
  <2> HIDE DEF u, amount, state
  <2>3. /\ u = [hold |-> u.hold, call |-> t.call, asks |-> t.asks, run |-> t.run,
                envelope |-> u.envelope]
        /\ u.envelope = [t.envelope EXCEPT !.held = @ - amount, !.actual = @ + charge]
        /\ u.hold = [t.hold EXCEPT ![h].state = state, ![h].actual = charge, ![h].step = step]
    BY <2>1, <2>2
  <2>4. u.hold = [t.hold EXCEPT ![h] = [@ EXCEPT !.state = state, !.actual = charge,
                                                 !.step = step]]
    BY <2>2, <2>3
  <2>5. u.envelope = [held |-> t.envelope.held - amount, actual |-> t.envelope.actual + charge,
                      maximum |-> t.envelope.maximum]
    BY <2>2, <2>3
  <2> QED BY <2>2, <2>3, <2>4, <2>5 DEF With, ClosedEnvelope, ClosedRow, u, amount, state
<1> QED BY <1>2, <1>3, <1>4

\* The holds rewritten leave the rest of the tables.
LEMMA HoldsPut ==
    ASSUME NEW t \in TablesType, NEW f
    PROVE  [t EXCEPT !.hold = f]
           = [hold |-> f, call |-> t.call, asks |-> t.asks, run |-> t.run, envelope |-> t.envelope]
<1>1. t = [hold |-> t.hold, call |-> t.call, asks |-> t.asks, run |-> t.run,
           envelope |-> t.envelope]
  BY TablesAre
<1> QED BY <1>1

\* Both totals of an envelope rewritten leave its maximum.
LEMMA EnvelopePut ==
    ASSUME NEW e \in EnvelopeType, NEW a, NEW b
    PROVE  [e EXCEPT !.actual = a, !.held = b] = [held |-> b, actual |-> a, maximum |-> e.maximum]
<1> DEFINE v == [e EXCEPT !.actual = a]
<1>1. e = [held |-> e.held, actual |-> e.actual, maximum |-> e.maximum]
  BY DEF EnvelopeType
<1>2. v = [held |-> e.held, actual |-> a, maximum |-> e.maximum]
  BY <1>1
<1> HIDE DEF v
<1>3. [v EXCEPT !.held = b] = [held |-> b, actual |-> a, maximum |-> e.maximum]
  BY <1>2
<1> QED BY <1>3 DEF v

\* giveBack, as one row and the envelope, or as nothing.
LEMMA GivenBackIs ==
    ASSUME NEW t \in TablesType, NEW c \in Call
    PROVE  /\ t.call[c].of \in Hold /\ Back(t, c) \in Nat
           /\ ~ GivesBack(t, c) => GivenBack(t, c) = t
           /\ GivesBack(t, c) =>
                LET h == t.call[c].of IN
                /\ GivenBack(t, c) = With(t, h, GivenRow(t.hold[h], Back(t, c)),
                                          GivenEnvelope(t, h, Back(t, c)))
                /\ GivenRow(t.hold[h], Back(t, c)) \in LooseRow
                /\ GivenEnvelope(t, h, Back(t, c)) \in EnvelopeType
<1> DEFINE h == t.call[c].of
           back == CallMax - t.call[c].actual
<1>1. t.call[c] \in CallRow
  BY TablesAre
<1>2. h \in Hold /\ back \in Nat
  BY <1>1, SomePrices DEF CallRow
<1>3. t.hold[h] \in LooseRow /\ t.envelope \in EnvelopeType
  BY <1>2, TablesAre
<1>4. ~ GivesBack(t, c) => GivenBack(t, c) = t
  BY DEF GivesBack, GivenBack
<1>5. GivenRow(t.hold[h], back) \in LooseRow
  <2> DEFINE o == t.hold[h]
             amount == IF o.state = "held" THEN o.amount + back ELSE o.amount
  <2>1. o \in LooseRow /\ amount \in Int
    BY <1>2, <1>3 DEF LooseRow
  <2>2. GivenRow(o, back) = [o EXCEPT !.amount = amount]
    BY DEF GivenRow
  <2> HIDE DEF o, amount
  <2>3. [o EXCEPT !.amount = amount] \in LooseRow
    BY <2>1 DEF LooseRow
  <2> QED BY <2>2, <2>3 DEF o
<1>6. GivenEnvelope(t, h, back) \in EnvelopeType
  BY <1>2, <1>3 DEF GivenEnvelope, EnvelopeType
<1>7. ASSUME GivesBack(t, c)
      PROVE  GivenBack(t, c) = With(t, h, GivenRow(t.hold[h], back), GivenEnvelope(t, h, back))
  <2>1. GivenBack(t, c) =
        [t EXCEPT
             !.hold[h].amount = IF t.hold[h].state = "held" THEN @ + back ELSE @,
             !.envelope.actual = @ - back,
             !.envelope.held = IF t.hold[h].state = "held" THEN @ + back ELSE @]
    BY <1>7 DEF GivesBack, GivenBack
  <2> DEFINE o == t.hold[h]
             amount == IF o.state = "held" THEN o.amount + back ELSE o.amount
             held == IF o.state = "held" THEN t.envelope.held + back ELSE t.envelope.held
             e == [t.envelope EXCEPT !.actual = t.envelope.actual - back, !.held = held]
             u == [t EXCEPT !.hold[h].amount = amount, !.envelope.actual = @ - back,
                            !.envelope.held = held]
  <2>2. GivenBack(t, c) = u
    BY <2>1
  <2>3. /\ GivenRow(o, back) = [o EXCEPT !.amount = amount]
        /\ GivenEnvelope(t, h, back) = [held |-> held, actual |-> t.envelope.actual - back,
                                        maximum |-> t.envelope.maximum]
    BY DEF GivenRow, GivenEnvelope
  <2> HIDE DEF h, back, amount, held, o
  <2>4. e = [held |-> held, actual |-> t.envelope.actual - back, maximum |-> t.envelope.maximum]
    <3> DEFINE a == t.envelope.actual - back
    <3> HIDE DEF a
    <3>1. [t.envelope EXCEPT !.actual = a, !.held = held]
          = [held |-> held, actual |-> a, maximum |-> t.envelope.maximum]
      BY <1>3, EnvelopePut, Zenon
    <3> QED BY <3>1 DEF a
  <2>5. u = [hold |-> [t.hold EXCEPT ![h] = [t.hold[h] EXCEPT !.amount = amount]],
             call |-> t.call, asks |-> t.asks, run |-> t.run, envelope |-> e]
    <3> DEFINE f == [t.hold EXCEPT ![h] = [t.hold[h] EXCEPT !.amount = amount]]
               v == [t EXCEPT !.hold[h].amount = amount]
               w == [v EXCEPT !.envelope.actual = @ - back]
    <3>1. v = [hold |-> f, call |-> t.call, asks |-> t.asks, run |-> t.run,
               envelope |-> t.envelope]
      <4> HIDE DEF f
      <4>1. v = [t EXCEPT !.hold = f]
        BY DEF f
      <4> QED BY <4>1, HoldsPut
    <3> HIDE DEF v, f
    <3>2. w = [hold |-> f, call |-> t.call, asks |-> t.asks, run |-> t.run,
               envelope |-> [t.envelope EXCEPT !.actual = t.envelope.actual - back]]
      BY <3>1
    <3>3. u = [w EXCEPT !.envelope.held = held]
      BY DEF v, w
    <3> HIDE DEF w, u
    <3>4. u = [hold |-> f, call |-> t.call, asks |-> t.asks, run |-> t.run, envelope |-> e]
      BY <3>2, <3>3
    <3> QED BY <3>4 DEF f
  <2> HIDE DEF u, e
  <2> QED BY <2>2, <2>3, <2>4, <2>5 DEF With, o
<1> QED BY <1>2, <1>4, <1>5, <1>6, <1>7 DEF Back

\* The end of a lease, as its calls and its row.
LEMMA RetiredIs ==
    ASSUME NEW t \in TablesType, NEW h \in Hold, NEW stop \in {"open", "final"}
    PROVE  /\ Retired(t, h, stop)
                = With(WithCalls(t, MovedCalls(t, Releasable(t, h), "released")), h,
                       RetiredRow(t.hold[h], stop), t.envelope)
           /\ RetiredRow(t.hold[h], stop) \in LooseRow
<1>1. t.hold[h] \in LooseRow
  BY TablesAre
<1>2. RetiredRow(t.hold[h], stop) \in LooseRow
  BY <1>1 DEF RetiredRow, LooseRow
<1> DEFINE k == MovedCalls(t, Releasable(t, h), "released")
           w == WithCalls(t, k)
           last == t.hold[h].stop
           now == IF last = "none" THEN stop ELSE last
<1>3. CallsMoved(t, Releasable(t, h), "released") = w
  BY CallsMovedIs
<1>4. w = [hold |-> t.hold, call |-> k, asks |-> t.asks, run |-> t.run, envelope |-> t.envelope]
  BY DEF WithCalls
<1> HIDE DEF w, k
<1>5. Retired(t, h, stop) = [w EXCEPT !.hold[h].lease = "over", !.hold[h].stop = now]
  <2>1. Retired(t, h, stop)
        = [CallsMoved(t, Releasable(t, h), "released")
              EXCEPT !.hold[h].lease = "over", !.hold[h].stop = IF @ = "none" THEN stop ELSE @]
    BY DEF Retired, Releasable
  <2>2. w.hold = t.hold
    BY <1>4
  <2>3. Retired(t, h, stop)
        = [w EXCEPT !.hold[h].lease = "over", !.hold[h].stop = IF @ = "none" THEN stop ELSE @]
    BY <1>3, <2>1
  <2>4. w.hold[h].stop = last
    BY <2>2
  <2> HIDE DEF last
  <2> QED BY <2>2, <2>3, <2>4
<1> HIDE DEF now
<1>6. [w EXCEPT !.hold[h].lease = "over", !.hold[h].stop = now]
      = [hold |-> [t.hold EXCEPT ![h] = [@ EXCEPT !.lease = "over", !.stop = now]],
         call |-> k, asks |-> t.asks, run |-> t.run, envelope |-> t.envelope]
  <2> DEFINE v == [w EXCEPT !.hold[h].lease = "over", !.hold[h].stop = now]
  <2>1. v = [w EXCEPT !.hold[h].lease = "over", !.hold[h].stop = now]
    OBVIOUS
  <2> HIDE DEF v
  <2>2. t.hold \in [Hold -> LooseRow]
    BY TablesAre
  <2>3. /\ v = [hold |-> v.hold, call |-> k, asks |-> t.asks, run |-> t.run,
                envelope |-> t.envelope]
        /\ v.hold = [t.hold EXCEPT ![h].lease = "over", ![h].stop = now]
    BY <1>4, <2>1
  <2>4. v.hold = [t.hold EXCEPT ![h] = [@ EXCEPT !.lease = "over", !.stop = now]]
    BY <2>2, <2>3
  <2> QED BY <2>3, <2>4 DEF v
<1>7. RetiredRow(t.hold[h], stop) = [t.hold[h] EXCEPT !.lease = "over", !.stop = now]
  BY DEF RetiredRow, now
<1> QED BY <1>2, <1>4, <1>5, <1>6, <1>7 DEF With, w, k

\* What the calls of a hold come to is a natural number.
LEMMA CallsCostNat ==
    ASSUME NEW t \in TablesType, NEW h \in Hold
    PROVE  /\ CallsOn(t, h) \in SUBSET Call /\ IsFiniteSet(CallsOn(t, h))
           /\ CallsCost(t, h) \in Nat /\ SpentOn(t, h) \in Nat
<1> DEFINE f == [c \in Call |-> IF t.call[c].state = "settled" THEN t.call[c].actual ELSE 0]
           g == [c \in Call |-> CallSpend(t.call[c])]
<1>1. CallsOn(t, h) \in SUBSET Call /\ IsFiniteSet(CallsOn(t, h))
  BY RowsAreFinite, FS_Subset DEF CallsOn
<1>2. \A c \in Call : t.call[c].actual \in Nat /\ CallMax \in Nat
  <2>1. \A c \in Call : t.call[c] \in CallRow
    BY TablesAre
  <2> QED BY <2>1, SomePrices DEF CallRow
<1>3. \A c \in CallsOn(t, h) : f[c] \in Nat /\ g[c] \in Nat
  BY <1>1, <1>2 DEF CallSpend
<1> HIDE DEF f, g
<1>4. SumFunctionOnSet(f, CallsOn(t, h)) \in Nat /\ SumFunctionOnSet(g, CallsOn(t, h)) \in Nat
  BY <1>1, <1>3, SumOfNaturals
<1> QED BY <1>1, <1>4 DEF CallsCost, SpentOn, f, g

\* classifyUnderLocks leaves the hold, keeps it for a person, or closes it.
LEMMA ClassifiedIs ==
    ASSUME NEW t \in TablesType, NEW h \in Hold
    PROVE  /\ t.hold[h].state # "held" => Classified(t, h) = t
           /\ t.hold[h].state = "held" /\ KeepsHold(t, h) =>
                /\ Classified(t, h) = With(t, h, UnknownRow(t.hold[h]), t.envelope)
                /\ UnknownRow(t.hold[h]) \in LooseRow
           /\ t.hold[h].state = "held" /\ ~ KeepsHold(t, h) =>
                /\ CallsCost(t, h) \in Nat
                /\ Classified(t, h) = Closed(t, h, CallsCost(t, h), "abandoned")
<1>1. t.hold[h].state # "held" => Classified(t, h) = t
  BY DEF Classified
<1>2. t.hold[h].state = "held" /\ ~ KeepsHold(t, h) =>
          Classified(t, h) = Closed(t, h, CallsCost(t, h), "abandoned")
  BY DEF Classified, KeepsHold
<1>3. CallsCost(t, h) \in Nat
  BY CallsCostNat
<1>4. UnknownRow(t.hold[h]) \in LooseRow
  <2>1. t.hold[h] \in LooseRow
    BY TablesAre
  <2> QED BY <2>1 DEF UnknownRow, LooseRow
<1>5. ASSUME t.hold[h].state = "held", KeepsHold(t, h)
      PROVE  Classified(t, h) = With(t, h, UnknownRow(t.hold[h]), t.envelope)
  <2> DEFINE now == IF t.hold[h].step = "dispatched" \/ ~ t.hold[h].marked THEN "unknown"
                    ELSE t.hold[h].step
  <2>1. Classified(t, h) = [t EXCEPT !.hold[h].step = now]
    BY <1>5 DEF Classified, KeepsHold
  <2> HIDE DEF now
  <2>2. /\ t = [hold |-> t.hold, call |-> t.call, asks |-> t.asks, run |-> t.run,
                envelope |-> t.envelope]
        /\ t.hold \in [Hold -> LooseRow]
    BY TablesAre
  <2>3. Classified(t, h) = [hold |-> [t.hold EXCEPT ![h] = [@ EXCEPT !.step = now]],
                            call |-> t.call, asks |-> t.asks, run |-> t.run,
                            envelope |-> t.envelope]
    BY <2>1, <2>2
  <2> QED BY <2>2, <2>3 DEF With, UnknownRow, now
<1> QED BY <1>1, <1>2, <1>3, <1>4, <1>5

(***************************************************************************)
(* The helpers that end things keep the order.                             *)
(***************************************************************************)

\* Two helpers that touch one hold touch it in turn.
LEMMA TouchesOn ==
    ASSUME NEW t, NEW u, NEW v, NEW h, Touches(t, u, h), Touches(u, v, h)
    PROVE  Touches(t, v, h)
  BY FollowsOn DEF Touches

\* A row rewritten touches its hold alone.
LEMMA WithTouches ==
    ASSUME NEW t, OrderKept(t), NEW h \in Hold, NEW r, RowFollows(t.hold[h], r),
           NEW e \in EnvelopeType
    PROVE  Touches(t, With(t, h, r, e), h) /\ With(t, h, r, e).hold[h] = r
<1>1. t \in TablesType /\ r \in LooseRow
  BY DEF OrderKept, RowFollows
<1> QED BY <1>1, WithQuiet, WithIs DEF Touches

\* A hold closed while its lease does not run, or over a marked effect.
LEMMA ClosedTouches ==
    ASSUME NEW t, OrderKept(t), NEW h \in Hold, t.hold[h].state # "none", NEW charge \in Int,
           NEW step \in {"completed", "failed", "written_off", "abandoned"},
           t.hold[h].lease \in Running => t.hold[h].marked
    PROVE  /\ Touches(t, Closed(t, h, charge, step), h)
           /\ Closed(t, h, charge, step).hold[h] = ClosedRow(t.hold[h], charge, step)
           /\ Closed(t, h, charge, step).call = t.call
<1> DEFINE r == t.hold[h]
           s == ClosedRow(r, charge, step)
<1>1. /\ Closed(t, h, charge, step) = With(t, h, s, ClosedEnvelope(t, h, charge))
      /\ s \in LooseRow /\ ClosedEnvelope(t, h, charge) \in EnvelopeType
  BY ClosedIs DEF OrderKept
<1>2. r \in LooseRow /\ RowKept(r)
  BY TablesAre DEF OrderKept
<1>3. /\ s.lease = r.lease /\ s.absent = r.absent /\ s.marked = r.marked /\ s.step = step
      /\ s.state \in {"actual", "abandoned"}
  BY <1>2 DEF ClosedRow, LooseRow
<1>4. RowKept(s)
  BY <1>2, <1>3 DEF RowKept
<1>5. RowFollows(r, s)
  BY <1>1, <1>3, <1>4 DEF RowFollows
<1> HIDE DEF r, s
<1>6. With(t, h, s, ClosedEnvelope(t, h, charge)).call = t.call
  BY DEF With
<1> QED BY <1>1, <1>5, <1>6, WithTouches DEF r, s

\* A lease that ran ends.
LEMMA RetiredTouches ==
    ASSUME NEW t, OrderKept(t), NEW h \in Hold, t.hold[h].lease # "none",
           NEW stop \in {"open", "final"}
    PROVE  /\ Touches(t, Retired(t, h, stop), h)
           /\ Retired(t, h, stop).hold[h] = RetiredRow(t.hold[h], stop)
           /\ RetiredRow(t.hold[h], stop).lease = "over"
<1> DEFINE r == t.hold[h]
           s == RetiredRow(r, stop)
           k == MovedCalls(t, Releasable(t, h), "released")
           w == WithCalls(t, k)
<1>1. Retired(t, h, stop) = With(w, h, s, t.envelope) /\ s \in LooseRow
  BY RetiredIs DEF OrderKept
<1>2. r \in LooseRow /\ RowKept(r) /\ t.envelope \in EnvelopeType
  BY TablesAre DEF OrderKept
<1>3. /\ s.lease = "over" /\ s.absent = r.absent /\ s.marked = r.marked /\ s.step = r.step
      /\ s.state = r.state
  BY <1>2 DEF RetiredRow, LooseRow
<1>4. r.state # "none"
  BY <1>2 DEF RowKept, NoHold
<1>5. RowFollows(r, s)
  BY <1>1, <1>2, <1>3, <1>4 DEF RowFollows, RowKept, Running
<1>6. k \in [Call -> CallRow]
  BY CallsMovedIs DEF OrderKept
<1>7. Quiet(t, w) /\ w.hold = t.hold
  BY <1>6, WithCallsQuiet DEF WithCalls
<1> HIDE DEF r, s, w
<1>8. OrderKept(w)
  BY <1>7, QuietKeeps
<1>9. Touches(w, With(w, h, s, t.envelope), h) /\ With(w, h, s, t.envelope).hold[h] = s
  BY <1>2, <1>5, <1>7, <1>8, WithTouches DEF r
<1>10. Touches(t, With(w, h, s, t.envelope), h)
  BY <1>7, <1>9, TouchesOn DEF Touches
<1> QED BY <1>1, <1>3, <1>9, <1>10 DEF r, s

\* The classifier of a hold whose lease is over.
LEMMA ClassifiedTouches ==
    ASSUME NEW t, OrderKept(t), NEW h \in Hold, t.hold[h].lease = "over"
    PROVE  /\ Touches(t, Classified(t, h), h)
           /\ Classified(t, h).hold[h].lease = "over"
           /\ Classified(t, h).hold[h].marked = t.hold[h].marked
           /\ Classified(t, h).hold[h].step \in {t.hold[h].step, "unknown", "abandoned"}
           /\ Classified(t, h).call = t.call
<1> DEFINE r == t.hold[h]
           s == UnknownRow(r)
<1>1. r \in LooseRow /\ RowKept(r) /\ t.envelope \in EnvelopeType /\ t \in TablesType
  BY TablesAre DEF OrderKept
<1>2. r.state # "none"
  BY <1>1 DEF RowKept, NoHold
<1>3. CASE r.state # "held"
  <2>1. Classified(t, h) = t
    BY <1>1, <1>3, ClassifiedIs
  <2> QED BY <2>1, FollowsItself DEF Touches
<1>4. CASE r.state = "held" /\ KeepsHold(t, h)
  <2>1. Classified(t, h) = With(t, h, s, t.envelope) /\ s \in LooseRow
    BY <1>1, <1>4, ClassifiedIs
  <2>2. /\ s.lease = r.lease /\ s.absent = r.absent /\ s.marked = r.marked
        /\ s.step \in {r.step, "unknown"} /\ s.state = r.state
    BY <1>1 DEF UnknownRow, LooseRow
  <2>3. RowFollows(r, s)
    BY <1>1, <1>2, <2>1, <2>2 DEF RowFollows, RowKept, Running
  <2> HIDE DEF r, s
  <2>4. Touches(t, With(t, h, s, t.envelope), h) /\ With(t, h, s, t.envelope).hold[h] = s
    BY <1>1, <2>3, WithTouches DEF r
  <2>5. With(t, h, s, t.envelope).call = t.call
    BY DEF With
  <2> QED BY <2>1, <2>2, <2>4, <2>5 DEF r
<1>5. CASE r.state = "held" /\ ~ KeepsHold(t, h)
  <2>1. Classified(t, h) = Closed(t, h, CallsCost(t, h), "abandoned") /\ CallsCost(t, h) \in Int
    BY <1>1, <1>5, ClassifiedIs
  <2> DEFINE n == CallsCost(t, h)
  <2>2. /\ ClosedRow(r, n, "abandoned").lease = r.lease
        /\ ClosedRow(r, n, "abandoned").marked = r.marked
        /\ ClosedRow(r, n, "abandoned").step = "abandoned"
    BY <1>1 DEF ClosedRow, LooseRow
  <2> HIDE DEF n
  <2>3. /\ Touches(t, Closed(t, h, n, "abandoned"), h)
        /\ Closed(t, h, n, "abandoned").hold[h] = ClosedRow(r, n, "abandoned")
        /\ Closed(t, h, n, "abandoned").call = t.call
    BY <1>2, <2>1, ClosedTouches DEF n, Running
  <2> QED BY <2>1, <2>2, <2>3 DEF n
<1> QED BY <1>3, <1>4, <1>5

(***************************************************************************)
(* Helpers taken one row at a time.                                        *)
(***************************************************************************)

\* What every give-back of a set keeps, the whole of them keeps.
LEMMA GivenBackInTurn ==
    ASSUME NEW t \in TablesType, NEW C \in SUBSET Call, NEW P, <<{}, t>> \in P, GivesOn(C, P)
    PROVE  <<C, AllGivenBack(t, C)>> \in P
<1> DEFINE I == CHOOSE iter : iter = [s \in SUBSET C |->
                    IF s = {} THEN t
                    ELSE GivenBack(iter[s \ {CHOOSE x \in s : TRUE}], CHOOSE x \in s : TRUE)]
           G == [p \in C \X TablesType |-> GivenBack(p[2], p[1])]
<1>1. AllGivenBack(t, C) = I[C]
  BY DEF AllGivenBack, FoldSet, MapThenFoldSet
<1>2. IsFiniteSet(C)
  BY RowsAreFinite, FS_Subset
<1>3. \A x \in C, v \in TablesType : G[<<x, v>>] = GivenBack(v, x)
  OBVIOUS
<1>4. \A v : \A s \in SUBSET C, x \in C :
          x \in s /\ <<s \ {x}, v>> \in P => v \in TablesType /\ <<s, GivenBack(v, x)>> \in P
  BY Zenon DEF GivesOn
<1> HIDE DEF G
<1>5. PICK g : Folds(G, t, C, g) /\ \A s \in SUBSET C : <<s, g[s]>> \in P
  <2>1. GoesOn(C, G, P)
    BY <1>3, <1>4 DEF GoesOn
  <2> QED BY <1>2, <2>1, FoldFollows
<1>6. g = [s \in SUBSET C |->
              IF s = {} THEN t
              ELSE GivenBack(g[s \ {CHOOSE x \in s : TRUE}], CHOOSE x \in s : TRUE)]
  <2>1. g = [s \in SUBSET C |-> IF s = {} THEN t ELSE G[<<Chosen(s), g[s \ {Chosen(s)}]>>]]
    BY <1>5, Zenon DEF Folds, Folding
  <2>2. ASSUME NEW s \in SUBSET C, s # {}
        PROVE  G[<<Chosen(s), g[s \ {Chosen(s)}]>>]
               = GivenBack(g[s \ {Chosen(s)}], Chosen(s))
    <3> DEFINE x == Chosen(s)
               v == g[s \ {Chosen(s)}]
    <3>1. x \in C /\ x \in s /\ s \ {x} \in SUBSET C
      BY <2>2 DEF Chosen
    <3>2. <<s \ {x}, v>> \in P
      BY <1>5, <3>1
    <3> HIDE DEF x, v
    <3>3. v \in TablesType
      BY <1>4, <3>1, <3>2
    <3>4. G[<<x, v>>] = GivenBack(v, x)
      BY <1>3, <3>1, <3>3
    <3> QED BY <3>4 DEF x, v
  <2>3. g = [s \in SUBSET C |-> IF s = {} THEN t
                                ELSE GivenBack(g[s \ {Chosen(s)}], Chosen(s))]
    BY <2>1, <2>2
  <2> QED BY <2>3, Zenon DEF Chosen
<1>7. I = [s \in SUBSET C |->
              IF s = {} THEN t
              ELSE GivenBack(I[s \ {CHOOSE x \in s : TRUE}], CHOOSE x \in s : TRUE)]
  BY <1>6, Zenon
<1> HIDE DEF I
<1>8. <<{}, I[{}]>> \in P
  BY <1>7
<1>9. ASSUME NEW s \in SUBSET C, s # {}, <<s \ {Chosen(s)}, I[s \ {Chosen(s)}]>> \in P
      PROVE  <<s, I[s]>> \in P
  <2> DEFINE x == Chosen(s)
             v == I[s \ {Chosen(s)}]
  <2>1. x \in C /\ x \in s
    BY <1>9 DEF Chosen
  <2>2. I[s] = GivenBack(v, x)
    BY <1>7, <1>9, Zenon DEF Chosen
  <2>3. <<s \ {x}, v>> \in P
    BY <1>9
  <2> HIDE DEF x, v
  <2>4. <<s, GivenBack(v, x)>> \in P
    BY <1>4, <2>1, <2>3
  <2> QED BY <2>2, <2>4
<1>10. <<C, I[C]>> \in P
  BY <1>2, <1>8, <1>9, FoldRelates
<1> QED BY <1>1, <1>10

\* The same of fencing the leases that ran out,
LEMMA FencedInTurn ==
    ASSUME NEW t \in TablesType, NEW C \in SUBSET Hold, NEW P, <<{}, t>> \in P, FencesOn(C, P)
    PROVE  <<C, FoldSet(LAMBDA g, u : Classified(Retired(u, g, "open"), g), t, C)>> \in P
<1> DEFINE I == CHOOSE iter : iter = [s \in SUBSET C |->
                    IF s = {} THEN t
                    ELSE Classified(Retired(iter[s \ {CHOOSE x \in s : TRUE}], CHOOSE x \in s : TRUE, "open"), CHOOSE x \in s : TRUE)]
           G == [p \in C \X TablesType |-> Classified(Retired(p[2], p[1], "open"), p[1])]
<1>1. FoldSet(LAMBDA g, u : Classified(Retired(u, g, "open"), g), t, C) = I[C]
  BY DEF FoldSet, MapThenFoldSet
<1>2. IsFiniteSet(C)
  BY RowsAreFinite, FS_Subset
<1>3. \A x \in C, v \in TablesType : G[<<x, v>>] = Classified(Retired(v, x, "open"), x)
  OBVIOUS
<1>4. \A v : \A s \in SUBSET C, x \in C :
          x \in s /\ <<s \ {x}, v>> \in P => v \in TablesType /\ <<s, Classified(Retired(v, x, "open"), x)>> \in P
  BY Zenon DEF FencesOn
<1> HIDE DEF G
<1>5. PICK g : Folds(G, t, C, g) /\ \A s \in SUBSET C : <<s, g[s]>> \in P
  <2>1. GoesOn(C, G, P)
    BY <1>3, <1>4 DEF GoesOn
  <2> QED BY <1>2, <2>1, FoldFollows
<1>6. g = [s \in SUBSET C |->
              IF s = {} THEN t
              ELSE Classified(Retired(g[s \ {CHOOSE x \in s : TRUE}], CHOOSE x \in s : TRUE, "open"), CHOOSE x \in s : TRUE)]
  <2>1. g = [s \in SUBSET C |-> IF s = {} THEN t ELSE G[<<Chosen(s), g[s \ {Chosen(s)}]>>]]
    BY <1>5, Zenon DEF Folds, Folding
  <2>2. ASSUME NEW s \in SUBSET C, s # {}
        PROVE  G[<<Chosen(s), g[s \ {Chosen(s)}]>>]
               = Classified(Retired(g[s \ {Chosen(s)}], Chosen(s), "open"), Chosen(s))
    <3> DEFINE x == Chosen(s)
               v == g[s \ {Chosen(s)}]
    <3>1. x \in C /\ x \in s /\ s \ {x} \in SUBSET C
      BY <2>2 DEF Chosen
    <3>2. <<s \ {x}, v>> \in P
      BY <1>5, <3>1
    <3> HIDE DEF x, v
    <3>3. v \in TablesType
      BY <1>4, <3>1, <3>2
    <3>4. G[<<x, v>>] = Classified(Retired(v, x, "open"), x)
      BY <1>3, <3>1, <3>3
    <3> QED BY <3>4 DEF x, v
  <2>3. g = [s \in SUBSET C |-> IF s = {} THEN t
                                ELSE Classified(Retired(g[s \ {Chosen(s)}], Chosen(s), "open"), Chosen(s))]
    BY <2>1, <2>2
  <2> QED BY <2>3, Zenon DEF Chosen
<1>7. I = [s \in SUBSET C |->
              IF s = {} THEN t
              ELSE Classified(Retired(I[s \ {CHOOSE x \in s : TRUE}], CHOOSE x \in s : TRUE, "open"), CHOOSE x \in s : TRUE)]
  BY <1>6, Zenon
<1> HIDE DEF I
<1>8. <<{}, I[{}]>> \in P
  BY <1>7
<1>9. ASSUME NEW s \in SUBSET C, s # {}, <<s \ {Chosen(s)}, I[s \ {Chosen(s)}]>> \in P
      PROVE  <<s, I[s]>> \in P
  <2> DEFINE x == Chosen(s)
             v == I[s \ {Chosen(s)}]
  <2>1. x \in C /\ x \in s
    BY <1>9 DEF Chosen
  <2>2. I[s] = Classified(Retired(v, x, "open"), x)
    BY <1>7, <1>9, Zenon DEF Chosen
  <2>3. <<s \ {x}, v>> \in P
    BY <1>9
  <2> HIDE DEF x, v
  <2>4. <<s, Classified(Retired(v, x, "open"), x)>> \in P
    BY <1>4, <2>1, <2>3
  <2> QED BY <2>2, <2>4
<1>10. <<C, I[C]>> \in P
  BY <1>2, <1>8, <1>9, FoldRelates
<1> QED BY <1>1, <1>10

\* of stopping the replacements of a step,
LEMMA StoppedInTurn ==
    ASSUME NEW t \in TablesType, NEW C \in SUBSET Hold, NEW P, <<{}, t>> \in P, StopsOn(C, P)
    PROVE  <<C, StoppedBeside(t, C)>> \in P
<1> DEFINE I == CHOOSE iter : iter = [s \in SUBSET C |->
                    IF s = {} THEN t
                    ELSE ReplacementStopped(iter[s \ {CHOOSE x \in s : TRUE}], CHOOSE x \in s : TRUE)]
           G == [p \in C \X TablesType |-> ReplacementStopped(p[2], p[1])]
<1>1. StoppedBeside(t, C) = I[C]
  BY DEF StoppedBeside, FoldSet, MapThenFoldSet
<1>2. IsFiniteSet(C)
  BY RowsAreFinite, FS_Subset
<1>3. \A x \in C, v \in TablesType : G[<<x, v>>] = ReplacementStopped(v, x)
  OBVIOUS
<1>4. \A v : \A s \in SUBSET C, x \in C :
          x \in s /\ <<s \ {x}, v>> \in P => v \in TablesType /\ <<s, ReplacementStopped(v, x)>> \in P
  BY Zenon DEF StopsOn
<1> HIDE DEF G
<1>5. PICK g : Folds(G, t, C, g) /\ \A s \in SUBSET C : <<s, g[s]>> \in P
  <2>1. GoesOn(C, G, P)
    BY <1>3, <1>4 DEF GoesOn
  <2> QED BY <1>2, <2>1, FoldFollows
<1>6. g = [s \in SUBSET C |->
              IF s = {} THEN t
              ELSE ReplacementStopped(g[s \ {CHOOSE x \in s : TRUE}], CHOOSE x \in s : TRUE)]
  <2>1. g = [s \in SUBSET C |-> IF s = {} THEN t ELSE G[<<Chosen(s), g[s \ {Chosen(s)}]>>]]
    BY <1>5, Zenon DEF Folds, Folding
  <2>2. ASSUME NEW s \in SUBSET C, s # {}
        PROVE  G[<<Chosen(s), g[s \ {Chosen(s)}]>>]
               = ReplacementStopped(g[s \ {Chosen(s)}], Chosen(s))
    <3> DEFINE x == Chosen(s)
               v == g[s \ {Chosen(s)}]
    <3>1. x \in C /\ x \in s /\ s \ {x} \in SUBSET C
      BY <2>2 DEF Chosen
    <3>2. <<s \ {x}, v>> \in P
      BY <1>5, <3>1
    <3> HIDE DEF x, v
    <3>3. v \in TablesType
      BY <1>4, <3>1, <3>2
    <3>4. G[<<x, v>>] = ReplacementStopped(v, x)
      BY <1>3, <3>1, <3>3
    <3> QED BY <3>4 DEF x, v
  <2>3. g = [s \in SUBSET C |-> IF s = {} THEN t
                                ELSE ReplacementStopped(g[s \ {Chosen(s)}], Chosen(s))]
    BY <2>1, <2>2
  <2> QED BY <2>3, Zenon DEF Chosen
<1>7. I = [s \in SUBSET C |->
              IF s = {} THEN t
              ELSE ReplacementStopped(I[s \ {CHOOSE x \in s : TRUE}], CHOOSE x \in s : TRUE)]
  BY <1>6, Zenon
<1> HIDE DEF I
<1>8. <<{}, I[{}]>> \in P
  BY <1>7
<1>9. ASSUME NEW s \in SUBSET C, s # {}, <<s \ {Chosen(s)}, I[s \ {Chosen(s)}]>> \in P
      PROVE  <<s, I[s]>> \in P
  <2> DEFINE x == Chosen(s)
             v == I[s \ {Chosen(s)}]
  <2>1. x \in C /\ x \in s
    BY <1>9 DEF Chosen
  <2>2. I[s] = ReplacementStopped(v, x)
    BY <1>7, <1>9, Zenon DEF Chosen
  <2>3. <<s \ {x}, v>> \in P
    BY <1>9
  <2> HIDE DEF x, v
  <2>4. <<s, ReplacementStopped(v, x)>> \in P
    BY <1>4, <2>1, <2>3
  <2> QED BY <2>2, <2>4
<1>10. <<C, I[C]>> \in P
  BY <1>2, <1>8, <1>9, FoldRelates
<1> QED BY <1>1, <1>10

\* and of ending the holds that nothing started.
LEMMA UnstartedInTurn ==
    ASSUME NEW t \in TablesType, NEW C \in SUBSET Hold, NEW P, <<{}, t>> \in P, EndsOn(C, P)
    PROVE  <<C, FoldSet(LAMBDA g, u : [Closed(u, g, 0, "abandoned") EXCEPT !.hold[g].ended = TRUE], t, C)>> \in P
<1> DEFINE I == CHOOSE iter : iter = [s \in SUBSET C |->
                    IF s = {} THEN t
                    ELSE [Closed(iter[s \ {CHOOSE x \in s : TRUE}], CHOOSE x \in s : TRUE, 0, "abandoned") EXCEPT !.hold[CHOOSE x \in s : TRUE].ended = TRUE]]
           G == [p \in C \X TablesType |-> [Closed(p[2], p[1], 0, "abandoned") EXCEPT !.hold[p[1]].ended = TRUE]]
<1>1. FoldSet(LAMBDA g, u : [Closed(u, g, 0, "abandoned") EXCEPT !.hold[g].ended = TRUE], t, C) = I[C]
  BY DEF FoldSet, MapThenFoldSet
<1>2. IsFiniteSet(C)
  BY RowsAreFinite, FS_Subset
<1>3. \A x \in C, v \in TablesType : G[<<x, v>>] = [Closed(v, x, 0, "abandoned") EXCEPT !.hold[x].ended = TRUE]
  OBVIOUS
<1>4. \A v : \A s \in SUBSET C, x \in C :
          x \in s /\ <<s \ {x}, v>> \in P => v \in TablesType /\ <<s, [Closed(v, x, 0, "abandoned") EXCEPT !.hold[x].ended = TRUE]>> \in P
  BY Zenon DEF EndsOn
<1> HIDE DEF G
<1>5. PICK g : Folds(G, t, C, g) /\ \A s \in SUBSET C : <<s, g[s]>> \in P
  <2>1. GoesOn(C, G, P)
    <3> SUFFICES ASSUME NEW v, NEW s \in SUBSET C, NEW x \in C, x \in s, <<s \ {x}, v>> \in P
                 PROVE  <<s, G[<<x, v>>]>> \in P
      BY DEF GoesOn
    <3> DEFINE u == [Closed(v, x, 0, "abandoned") EXCEPT !.hold[x].ended = TRUE]
    <3>1. v \in TablesType /\ <<s, u>> \in P
      BY <1>4
    <3>2. G[<<x, v>>] = u
      BY <1>3, <3>1
    <3> QED BY <3>1, <3>2
  <2> QED BY <1>2, <2>1, FoldFollows
<1>6. g = [s \in SUBSET C |->
              IF s = {} THEN t
              ELSE [Closed(g[s \ {CHOOSE x \in s : TRUE}], CHOOSE x \in s : TRUE, 0, "abandoned") EXCEPT !.hold[CHOOSE x \in s : TRUE].ended = TRUE]]
  <2>1. g = [s \in SUBSET C |-> IF s = {} THEN t ELSE G[<<Chosen(s), g[s \ {Chosen(s)}]>>]]
    BY <1>5, Zenon DEF Folds, Folding
  <2>2. ASSUME NEW s \in SUBSET C, s # {}
        PROVE  G[<<Chosen(s), g[s \ {Chosen(s)}]>>]
               = [Closed(g[s \ {Chosen(s)}], Chosen(s), 0, "abandoned") EXCEPT !.hold[Chosen(s)].ended = TRUE]
    <3> DEFINE x == Chosen(s)
               v == g[s \ {Chosen(s)}]
    <3>1. x \in C /\ x \in s /\ s \ {x} \in SUBSET C
      BY <2>2 DEF Chosen
    <3>2. <<s \ {x}, v>> \in P
      BY <1>5, <3>1
    <3> HIDE DEF x, v
    <3>3. v \in TablesType
      BY <1>4, <3>1, <3>2
    <3>4. G[<<x, v>>] = [Closed(v, x, 0, "abandoned") EXCEPT !.hold[x].ended = TRUE]
      BY <1>3, <3>1, <3>3
    <3> QED BY <3>4 DEF x, v
  <2>3. g = [s \in SUBSET C |-> IF s = {} THEN t
                                ELSE [Closed(g[s \ {Chosen(s)}], Chosen(s), 0, "abandoned") EXCEPT !.hold[Chosen(s)].ended = TRUE]]
    BY <2>1, <2>2
  <2> QED BY <2>3, Zenon DEF Chosen
<1>7. I = [s \in SUBSET C |->
              IF s = {} THEN t
              ELSE [Closed(I[s \ {CHOOSE x \in s : TRUE}], CHOOSE x \in s : TRUE, 0, "abandoned") EXCEPT !.hold[CHOOSE x \in s : TRUE].ended = TRUE]]
  BY <1>6, Zenon
<1> HIDE DEF I
<1>8. <<{}, I[{}]>> \in P
  BY <1>7
<1>9. ASSUME NEW s \in SUBSET C, s # {}, <<s \ {Chosen(s)}, I[s \ {Chosen(s)}]>> \in P
      PROVE  <<s, I[s]>> \in P
  <2> DEFINE x == Chosen(s)
             v == I[s \ {Chosen(s)}]
  <2>1. x \in C /\ x \in s
    BY <1>9 DEF Chosen
  <2>2. I[s] = [Closed(v, x, 0, "abandoned") EXCEPT !.hold[x].ended = TRUE]
    BY <1>7, <1>9, Zenon DEF Chosen
  <2>3. <<s \ {x}, v>> \in P
    BY <1>9
  <2> HIDE DEF x, v
  <2>4. <<s, [Closed(v, x, 0, "abandoned") EXCEPT !.hold[x].ended = TRUE]>> \in P
    BY <1>4, <2>1, <2>3
  <2> QED BY <2>2, <2>4
<1>10. <<C, I[C]>> \in P
  BY <1>2, <1>8, <1>9, FoldRelates
<1> QED BY <1>1, <1>10

(***************************************************************************)
(* The folds and the order.                                                *)
(***************************************************************************)

\* A give-back changes one amount, and ends nothing.
LEMMA GivenBackQuiet ==
    ASSUME NEW t, OrderKept(t), NEW c \in Call
    PROVE  Quiet(t, GivenBack(t, c)) /\ OnlyAmounts(t, GivenBack(t, c))
<1>1. t \in TablesType /\ t.hold \in [Hold -> LooseRow]
  BY TablesAre DEF OrderKept
<1>2. \A h \in Hold : t.hold[h] = [t.hold[h] EXCEPT !.amount = t.hold[h].amount]
  <2>1. \A h \in Hold : t.hold[h] \in LooseRow
    BY <1>1
  <2> QED BY <2>1 DEF LooseRow
<1>3. CASE ~ GivesBack(t, c)
  <2>1. GivenBack(t, c) = t
    BY <1>1, <1>3, GivenBackIs
  <2> QED BY <1>2, <2>1, FollowsItself DEF OnlyAmounts
<1>4. CASE GivesBack(t, c)
  <2> DEFINE h == t.call[c].of
             r == t.hold[h]
             s == GivenRow(r, Back(t, c))
             e == GivenEnvelope(t, h, Back(t, c))
  <2>1. GivenBack(t, c) = With(t, h, s, e) /\ s \in LooseRow /\ e \in EnvelopeType /\ h \in Hold
    BY <1>1, <1>4, GivenBackIs
  <2>2. r \in LooseRow /\ RowKept(r)
    BY <1>1, <2>1 DEF OrderKept
  <2>3. s = [r EXCEPT !.amount = s.amount]
    BY <2>2 DEF GivenRow, LooseRow
  <2>4. r.state # "none"
    <3>1. Counted(t, h)
      BY <1>4 DEF GivesBack
    <3>2. r.ended \/ r.lease = "over"
      BY <3>1 DEF Counted, ToppedUp, OrderKept, AsksAreOver
    <3>3. ~ NoHold.ended /\ NoHold.lease = "none"
      BY DEF NoHold
    <3> HIDE DEF r
    <3> QED BY <2>2, <3>2, <3>3 DEF RowKept
  <2>5. RowFollows(r, s)
    <3> HIDE DEF r, s
    <3> QED BY <2>1, <2>2, <2>3, <2>4, AmountFollows
  <2> HIDE DEF h, r, s, e
  <2>6. With(t, h, s, e).call = t.call
    BY DEF With
  <2>7. Touches(t, With(t, h, s, e), h) /\ With(t, h, s, e).hold[h] = s
    BY <2>1, <2>5, WithTouches DEF r
  <2>8. \A g \in Hold : With(t, h, s, e).hold[g]
                        = [t.hold[g] EXCEPT !.amount = With(t, h, s, e).hold[g].amount]
    BY <1>2, <2>3, <2>7 DEF Touches, r
  <2> QED BY <2>1, <2>6, <2>7, <2>8 DEF Touches, OnlyAmounts
<1> QED BY <1>3, <1>4

\* So do as many as there are.
LEMMA AllGivenBackQuiet ==
    ASSUME NEW t, OrderKept(t), NEW C \in SUBSET Call
    PROVE  Quiet(t, AllGivenBack(t, C)) /\ OnlyAmounts(t, AllGivenBack(t, C))
<1> DEFINE P == {p \in (SUBSET C) \X TablesType : Quiet(t, p[2]) /\ OnlyAmounts(t, p[2])}
<1>1. t \in TablesType /\ \A h \in Hold : t.hold[h] \in LooseRow
  BY TablesAre DEF OrderKept
<1>2. <<{}, t>> \in P
  <2>1. \A h \in Hold : t.hold[h] = [t.hold[h] EXCEPT !.amount = t.hold[h].amount]
    BY <1>1 DEF LooseRow
  <2> QED BY <1>1, <2>1, FollowsItself DEF OnlyAmounts
<1>3. GivesOn(C, P)
  <2> SUFFICES ASSUME NEW v, NEW s \in SUBSET C, NEW x \in C, x \in s, <<s \ {x}, v>> \in P
               PROVE  v \in TablesType /\ <<s, GivenBack(v, x)>> \in P
    BY DEF GivesOn
  <2> DEFINE u == GivenBack(v, x)
  <2>1. v \in TablesType /\ Quiet(t, v) /\ OnlyAmounts(t, v)
    OBVIOUS
  <2>2. OrderKept(v) /\ x \in Call
    BY <2>1, QuietKeeps
  <2>3. Quiet(v, u) /\ OnlyAmounts(v, u)
    BY <2>2, GivenBackQuiet
  <2> HIDE DEF u
  <2>4. Quiet(t, u) /\ u \in TablesType
    BY <2>1, <2>3, FollowsOn DEF Quiet, HoldsFollow
  <2>5. OnlyAmounts(t, u)
    <3>1. ASSUME NEW h \in Hold
          PROVE  u.hold[h] = [t.hold[h] EXCEPT !.amount = u.hold[h].amount]
      <4>1. /\ v.hold[h] = [t.hold[h] EXCEPT !.amount = v.hold[h].amount]
            /\ u.hold[h] = [v.hold[h] EXCEPT !.amount = u.hold[h].amount]
        BY <2>1, <2>3 DEF OnlyAmounts
      <4>2. t.hold[h] \in LooseRow
        BY <1>1
      <4> QED BY <4>1, <4>2 DEF LooseRow
    <3> QED BY <2>1, <2>3, <3>1 DEF OnlyAmounts
  <2> QED BY <2>1, <2>4, <2>5 DEF u
<1> HIDE DEF P
<1>4. <<C, AllGivenBack(t, C)>> \in P
  BY <1>1, <1>2, <1>3, GivenBackInTurn
<1> QED BY <1>4 DEF P

\* Fencing ends every other lapsed lease and touches no other hold.
LEMMA FencedQuiet ==
    ASSUME NEW t, OrderKept(t), NEW h \in Hold
    PROVE  /\ Quiet(t, Fenced(t, h))
           /\ \A g \in Hold : IF g # h /\ t.hold[g].lease = "lapsed"
                              THEN Fenced(t, h).hold[g].lease = "over"
                              ELSE Fenced(t, h).hold[g] = t.hold[g]
<1> DEFINE C == {g \in Hold \ {h} : t.hold[g].lease = "lapsed"}
           P == {p \in (SUBSET C) \X TablesType :
                    /\ Quiet(t, p[2])
                    /\ \A g \in Hold : IF g \in p[1] THEN p[2].hold[g].lease = "over"
                                       ELSE p[2].hold[g] = t.hold[g]}
<1>1. t \in TablesType
  BY DEF OrderKept
<1>2. <<{}, t>> \in P
  BY <1>1, FollowsItself
<1>3. FencesOn(C, P)
  <2> SUFFICES ASSUME NEW v, NEW s \in SUBSET C, NEW x \in C, x \in s, <<s \ {x}, v>> \in P
               PROVE  v \in TablesType /\ <<s, Classified(Retired(v, x, "open"), x)>> \in P
    BY DEF FencesOn
  <2> DEFINE w == Retired(v, x, "open")
             u == Classified(w, x)
  <2>1. /\ v \in TablesType /\ Quiet(t, v) /\ x \in Hold /\ s \in SUBSET C
        /\ \A g \in Hold : IF g \in s \ {x} THEN v.hold[g].lease = "over"
                           ELSE v.hold[g] = t.hold[g]
    OBVIOUS
  <2>2. OrderKept(v) /\ v.hold[x].lease # "none"
    BY <2>1, QuietKeeps
  <2>3. Touches(v, w, x) /\ w.hold[x].lease = "over"
    BY <2>1, <2>2, RetiredTouches
  <2> HIDE DEF w
  <2>4. OrderKept(w)
    BY <2>2, <2>3, QuietKeeps DEF Touches
  <2>5. Touches(w, u, x) /\ u.hold[x].lease = "over"
    BY <2>1, <2>3, <2>4, ClassifiedTouches
  <2> HIDE DEF u
  <2>6. Touches(v, u, x)
    BY <2>3, <2>5, TouchesOn
  <2>7. Quiet(t, u) /\ u \in TablesType
    BY <2>1, <2>6, FollowsOn DEF Touches, Quiet, HoldsFollow
  <2>8. \A g \in Hold : IF g \in s THEN u.hold[g].lease = "over" ELSE u.hold[g] = t.hold[g]
    BY <2>1, <2>5, <2>6 DEF Touches
  <2> HIDE DEF C
  <2>9. <<s, u>> \in P
    BY <2>1, <2>7, <2>8
  <2> QED BY <2>1, <2>9 DEF u, w
<1>4. C \in SUBSET Hold
  OBVIOUS
<1>5. Fenced(t, h) = FoldSet(LAMBDA g, u : Classified(Retired(u, g, "open"), g), t, C)
  BY DEF Fenced
<1> HIDE DEF P, C
<1>6. <<C, FoldSet(LAMBDA g, u : Classified(Retired(u, g, "open"), g), t, C)>> \in P
  BY <1>1, <1>2, <1>3, <1>4, FencedInTurn
<1>7. <<C, Fenced(t, h)>> \in P
  BY <1>5, <1>6, Zenon
<1> QED BY <1>7 DEF P, C

\* stopReplacement, as one row and the envelope, or as nothing.
LEMMA ReplacementStoppedIs ==
    ASSUME NEW t \in TablesType, NEW g \in Hold
    PROVE  /\ CallOut(t, g) => ReplacementStopped(t, g) = t
           /\ ~ CallOut(t, g) =>
                /\ CallsCost(t, g) \in Nat
                /\ ReplacementStopped(t, g)
                     = With(t, g, StoppedRow(t.hold[g], CallsCost(t, g)),
                            ClosedEnvelope(t, g, CallsCost(t, g)))
                /\ StoppedRow(t.hold[g], CallsCost(t, g)) \in LooseRow
                /\ ClosedEnvelope(t, g, CallsCost(t, g)) \in EnvelopeType
<1> DEFINE n == CallsCost(t, g)
           s == ClosedRow(t.hold[g], n, "abandoned")
           e == ClosedEnvelope(t, g, n)
           w == Closed(t, g, n, "abandoned")
           now == IF t.hold[g].lease = "none" THEN "none" ELSE "over"
<1>1. n \in Nat
  BY CallsCostNat
<1>2. w = With(t, g, s, e) /\ s \in LooseRow /\ e \in EnvelopeType
  <2>1. n \in Int
    BY <1>1
  <2> HIDE DEF n
  <2> QED BY <2>1, ClosedIs
<1>3. CallOut(t, g) => ReplacementStopped(t, g) = t
  BY DEF ReplacementStopped
<1>4. t.hold[g] \in LooseRow /\ t.hold \in [Hold -> LooseRow]
  BY TablesAre
<1>5. s.lease = t.hold[g].lease
  BY <1>4 DEF ClosedRow, LooseRow
<1>6. StoppedRow(t.hold[g], n) \in LooseRow
  BY <1>2 DEF StoppedRow, LooseRow
<1>7. StoppedRow(t.hold[g], n) = [s EXCEPT !.lease = now]
  BY DEF StoppedRow
<1>8. ~ CallOut(t, g) => ReplacementStopped(t, g)
                         = [w EXCEPT !.hold[g].lease = IF @ = "none" THEN "none" ELSE "over"]
  BY DEF ReplacementStopped
<1> HIDE DEF s, w, n, e
<1>9. w = [hold |-> [t.hold EXCEPT ![g] = s], call |-> t.call, asks |-> t.asks, run |-> t.run,
           envelope |-> e]
  BY <1>2 DEF With
<1>10. [w EXCEPT !.hold[g].lease = IF @ = "none" THEN "none" ELSE "over"]
       = [w EXCEPT !.hold[g].lease = now]
  <2>1. w.hold[g].lease = t.hold[g].lease
    BY <1>4, <1>5, <1>9
  <2> QED BY <2>1
<1> HIDE DEF now
<1>11. [w EXCEPT !.hold[g].lease = now]
       = [hold |-> [t.hold EXCEPT ![g] = [s EXCEPT !.lease = now]], call |-> t.call,
          asks |-> t.asks, run |-> t.run, envelope |-> e]
  BY <1>4, <1>9
<1>12. With(t, g, [s EXCEPT !.lease = now], e)
       = [hold |-> [t.hold EXCEPT ![g] = [s EXCEPT !.lease = now]], call |-> t.call,
          asks |-> t.asks, run |-> t.run, envelope |-> e]
  BY DEF With
<1>13. ~ CallOut(t, g) => ReplacementStopped(t, g) = With(t, g, StoppedRow(t.hold[g], n), e)
  BY <1>7, <1>8, <1>10, <1>11, <1>12
<1> QED BY <1>1, <1>2, <1>3, <1>6, <1>13 DEF n, e

\* It touches that hold alone.
LEMMA ReplacementStoppedTouches ==
    ASSUME NEW t, OrderKept(t), NEW g \in Hold, t.hold[g].state # "none"
    PROVE  /\ Touches(t, ReplacementStopped(t, g), g) /\ ReplacementStopped(t, g).call = t.call
           /\ ReplacementStopped(t, g).hold[g].marked = t.hold[g].marked
<1> DEFINE n == CallsCost(t, g)
           r == t.hold[g]
           s == StoppedRow(r, n)
           e == ClosedEnvelope(t, g, n)
<1>1. t \in TablesType /\ r \in LooseRow /\ RowKept(r)
  BY TablesAre DEF OrderKept
<1>2. CASE CallOut(t, g)
  <2>1. ReplacementStopped(t, g) = t
    BY <1>1, <1>2, ReplacementStoppedIs
  <2> QED BY <2>1, FollowsItself DEF Touches
<1>3. CASE ~ CallOut(t, g)
  <2>1. /\ ReplacementStopped(t, g) = With(t, g, s, e)
        /\ s \in LooseRow /\ e \in EnvelopeType
    BY <1>1, <1>3, ReplacementStoppedIs
  <2>2. /\ s.lease = (IF r.lease = "none" THEN "none" ELSE "over") /\ s.absent = r.absent
        /\ s.marked = r.marked /\ s.step = "abandoned" /\ s.state \in {"actual", "abandoned"}
    BY <1>1 DEF StoppedRow, ClosedRow, LooseRow
  <2>3. RowFollows(r, s)
    BY <1>1, <2>1, <2>2 DEF RowFollows, RowKept, Running
  <2> HIDE DEF s, e, r
  <2>4. Touches(t, With(t, g, s, e), g) /\ With(t, g, s, e).hold[g] = s
    BY <2>1, <2>3, WithTouches DEF r
  <2>5. With(t, g, s, e).call = t.call
    BY DEF With
  <2> QED BY <2>1, <2>2, <2>4, <2>5 DEF r
<1> QED BY <1>2, <1>3

\* Stopping the attempts beside one another touches no other hold.
LEMMA StoppedBesideQuiet ==
    ASSUME NEW t, OrderKept(t), NEW C \in SUBSET Hold, \A g \in C : t.hold[g].state # "none"
    PROVE  /\ Quiet(t, StoppedBeside(t, C)) /\ StoppedBeside(t, C).call = t.call
           /\ \A g \in Hold \ C : StoppedBeside(t, C).hold[g] = t.hold[g]
<1> DEFINE P == {p \in (SUBSET C) \X TablesType :
                    /\ Quiet(t, p[2]) /\ p[2].call = t.call
                    /\ \A g \in Hold \ C : p[2].hold[g] = t.hold[g]}
<1>1. t \in TablesType
  BY DEF OrderKept
<1>2. <<{}, t>> \in P
  BY <1>1, FollowsItself
<1>3. StopsOn(C, P)
  <2> SUFFICES ASSUME NEW v, NEW s \in SUBSET C, NEW x \in C, x \in s, <<s \ {x}, v>> \in P
               PROVE  v \in TablesType /\ <<s, ReplacementStopped(v, x)>> \in P
    BY DEF StopsOn
  <2> DEFINE u == ReplacementStopped(v, x)
  <2>1. /\ v \in TablesType /\ Quiet(t, v) /\ v.call = t.call
        /\ \A g \in Hold \ C : v.hold[g] = t.hold[g]
    OBVIOUS
  <2>2. OrderKept(v) /\ v.hold[x].state # "none"
    BY <2>1, QuietKeeps DEF Quiet, HoldsFollow, RowFollows
  <2>3. Touches(v, u, x) /\ u.call = v.call
    BY <2>2, ReplacementStoppedTouches
  <2> HIDE DEF u
  <2>4. Quiet(t, u) /\ u \in TablesType
    BY <2>1, <2>3, FollowsOn DEF Touches, Quiet, HoldsFollow
  <2>5. \A g \in Hold \ C : u.hold[g] = t.hold[g]
    BY <2>1, <2>3 DEF Touches
  <2> QED BY <2>1, <2>3, <2>4, <2>5 DEF u
<1> HIDE DEF P
<1>4. <<C, StoppedBeside(t, C)>> \in P
  BY <1>1, <1>2, <1>3, StoppedInTurn
<1> QED BY <1>4 DEF P

\* A hold that nothing started, closed and ended, as one row and the envelope.
LEMMA UnstartedOneIs ==
    ASSUME NEW t \in TablesType, NEW g \in Hold
    PROVE  /\ [Closed(t, g, 0, "abandoned") EXCEPT !.hold[g].ended = TRUE]
                = With(t, g, EndedRow(t.hold[g]), ClosedEnvelope(t, g, 0))
           /\ EndedRow(t.hold[g]) \in LooseRow /\ ClosedEnvelope(t, g, 0) \in EnvelopeType
<1> DEFINE s == ClosedRow(t.hold[g], 0, "abandoned")
           e == ClosedEnvelope(t, g, 0)
           w == Closed(t, g, 0, "abandoned")
<1>1. w = With(t, g, s, e) /\ s \in LooseRow /\ e \in EnvelopeType
  BY ClosedIs
<1>2. EndedRow(t.hold[g]) = [s EXCEPT !.ended = TRUE] /\ EndedRow(t.hold[g]) \in LooseRow
  BY <1>1 DEF EndedRow, LooseRow
<1>3. t.hold \in [Hold -> LooseRow]
  BY TablesAre
<1> HIDE DEF s, w, e
<1>4. w = [hold |-> [t.hold EXCEPT ![g] = s], call |-> t.call, asks |-> t.asks, run |-> t.run,
           envelope |-> e]
  BY <1>1 DEF With
<1>5. [w EXCEPT !.hold[g].ended = TRUE]
      = [hold |-> [t.hold EXCEPT ![g] = [s EXCEPT !.ended = TRUE]], call |-> t.call,
         asks |-> t.asks, run |-> t.run, envelope |-> e]
  <2> DEFINE v == [w EXCEPT !.hold[g].ended = TRUE]
             k == [t.hold EXCEPT ![g] = s]
  <2>1. v = [w EXCEPT !.hold[g].ended = TRUE]
    OBVIOUS
  <2> HIDE DEF v, k
  <2>2. w = [hold |-> k, call |-> t.call, asks |-> t.asks, run |-> t.run, envelope |-> e]
    BY <1>4 DEF k
  <2>3. /\ v = [hold |-> v.hold, call |-> t.call, asks |-> t.asks, run |-> t.run, envelope |-> e]
        /\ v.hold = [k EXCEPT ![g].ended = TRUE]
    BY <2>1, <2>2
  <2>4. v.hold = [t.hold EXCEPT ![g] = [s EXCEPT !.ended = TRUE]]
    BY <1>3, <2>3 DEF k
  <2> QED BY <2>3, <2>4 DEF v
<1>6. With(t, g, [s EXCEPT !.ended = TRUE], e)
      = [hold |-> [t.hold EXCEPT ![g] = [s EXCEPT !.ended = TRUE]], call |-> t.call,
         asks |-> t.asks, run |-> t.run, envelope |-> e]
  BY DEF With
<1> QED BY <1>1, <1>2, <1>5, <1>6 DEF w, e

\* It touches that hold alone.
LEMMA UnstartedOneTouches ==
    ASSUME NEW t, OrderKept(t), NEW g \in Hold, t.hold[g].state # "none", t.hold[g].lease = "none"
    PROVE  LET u == [Closed(t, g, 0, "abandoned") EXCEPT !.hold[g].ended = TRUE] IN
           Touches(t, u, g) /\ u.call = t.call
<1> DEFINE r == t.hold[g]
           s == EndedRow(r)
           e == ClosedEnvelope(t, g, 0)
           u == [Closed(t, g, 0, "abandoned") EXCEPT !.hold[g].ended = TRUE]
<1>1. t \in TablesType /\ r \in LooseRow /\ RowKept(r)
  BY TablesAre DEF OrderKept
<1>2. u = With(t, g, s, e) /\ s \in LooseRow /\ e \in EnvelopeType
  BY <1>1, UnstartedOneIs
<1>3. /\ s.lease = r.lease /\ s.absent = r.absent /\ s.marked = r.marked /\ s.step = "abandoned"
      /\ s.state = "abandoned"
  BY <1>1 DEF EndedRow, ClosedRow, LooseRow
<1>4. RowFollows(r, s)
  BY <1>1, <1>2, <1>3 DEF RowFollows, RowKept, Running
<1> HIDE DEF s, e, r, u
<1>5. Touches(t, With(t, g, s, e), g)
  BY <1>2, <1>4, WithTouches DEF r
<1>6. With(t, g, s, e).call = t.call
  BY DEF With
<1> QED BY <1>2, <1>5, <1>6 DEF u

\* releaseUnstarted ends only what nothing started.
LEMMA UnstartedQuiet ==
    ASSUME NEW t, OrderKept(t), NEW h \in Hold
    PROVE  /\ Quiet(t, Unstarted(t, h)) /\ Unstarted(t, h).call = t.call
           /\ \A g \in Hold \ Others(t, h) : Unstarted(t, h).hold[g] = t.hold[g]
<1> DEFINE C == Others(t, h)
           P == {p \in (SUBSET C) \X TablesType :
                    /\ Quiet(t, p[2]) /\ p[2].call = t.call
                    /\ \A g \in Hold \ p[1] : p[2].hold[g] = t.hold[g]}
<1>1. t \in TablesType /\ C \in SUBSET Hold
  BY DEF OrderKept, Others, HeldIn
<1>2. <<{}, t>> \in P
  BY <1>1, FollowsItself
<1>3. EndsOn(C, P)
  <2> SUFFICES ASSUME NEW v, NEW s \in SUBSET C, NEW x \in C, x \in s, <<s \ {x}, v>> \in P
               PROVE  /\ v \in TablesType
                      /\ <<s, [Closed(v, x, 0, "abandoned") EXCEPT !.hold[x].ended = TRUE]>> \in P
    BY DEF EndsOn
  <2> DEFINE u == [Closed(v, x, 0, "abandoned") EXCEPT !.hold[x].ended = TRUE]
  <2>1. /\ v \in TablesType /\ Quiet(t, v) /\ v.call = t.call /\ s \in SUBSET C
        /\ \A g \in Hold \ (s \ {x}) : v.hold[g] = t.hold[g]
    OBVIOUS
  <2>2. x \in Hold /\ t.hold[x].state # "none" /\ t.hold[x].lease = "none"
    BY DEF Others, HeldIn
  <2>3. OrderKept(v) /\ v.hold[x] = t.hold[x]
    BY <2>1, <2>2, QuietKeeps
  <2>4. Touches(v, u, x) /\ u.call = v.call
    BY <2>2, <2>3, UnstartedOneTouches
  <2> HIDE DEF u, C
  <2>5. Quiet(t, u) /\ u \in TablesType
    BY <2>1, <2>4, FollowsOn DEF Touches, Quiet, HoldsFollow
  <2>6. \A g \in Hold \ s : u.hold[g] = t.hold[g]
    BY <2>1, <2>4 DEF Touches
  <2> QED BY <2>1, <2>4, <2>5, <2>6 DEF u
<1>4. Unstarted(t, h)
      = FoldSet(LAMBDA g, u : [Closed(u, g, 0, "abandoned") EXCEPT !.hold[g].ended = TRUE], t, C)
  BY DEF Unstarted, Others
<1> HIDE DEF P, C
<1>5. <<C, FoldSet(LAMBDA g, u : [Closed(u, g, 0, "abandoned") EXCEPT !.hold[g].ended = TRUE],
                   t, C)>> \in P
  BY <1>1, <1>2, <1>3, UnstartedInTurn
<1>6. <<C, Unstarted(t, h)>> \in P
  BY <1>4, <1>5, Zenon
<1> QED BY <1>6 DEF P, C

\* holdLostCalls, as the calls, the marked row and what is given back.
LEMMA CallsLostIs ==
    ASSUME NEW t \in TablesType, NEW h \in Hold
    PROVE  /\ CallsLost(t, h) = AllGivenBack(CallsMoved(HeldLost(t, h), Unsent(t, h), "released"),
                                             Unsent(t, h))
           /\ HeldCalls(t, h) \in [Call -> CallRow] /\ LostRow(t, h) \in LooseRow
           /\ HeldLost(t, h) \in TablesType
<1>1. t.hold \in [Hold -> LooseRow] /\ t.hold[h] \in LooseRow /\ \A c \in Call : t.call[c] \in CallRow
  BY TablesAre
<1>2. \A c \in Call : [t.call[c] EXCEPT !.state = "unknown", !.lost = TRUE] \in CallRow
  BY <1>1 DEF CallRow
<1>3. HeldCalls(t, h) \in [Call -> CallRow]
  BY <1>1, <1>2 DEF HeldCalls
<1>4. LostRow(t, h) \in LooseRow
  BY <1>1 DEF LostRow, LooseRow
<1>5. WithCalls(t, HeldCalls(t, h)) \in TablesType /\ t.envelope \in EnvelopeType
  BY <1>3, WithCallsIs, TablesAre
<1>6. HeldLost(t, h) \in TablesType
  BY <1>4, <1>5, WithIs DEF HeldLost
<1> DEFINE k == HeldCalls(t, h)
           now == t.hold[h].marked \/ (Started(t, h) # {} /\ t.hold[h].step = "dispatched")
           w == [t EXCEPT !.call = k, !.hold[h].marked = now]
<1>7. CallsLost(t, h) = AllGivenBack(CallsMoved(w, Unsent(t, h), "released"), Unsent(t, h))
  BY DEF CallsLost, Started, HeldCalls
<1>8. LostRow(t, h) = [t.hold[h] EXCEPT !.marked = now]
  BY DEF LostRow
<1>9. w = [t EXCEPT !.call = k, !.hold[h].marked = now]
  OBVIOUS
<1> HIDE DEF k, now, w
<1>10. t = [hold |-> t.hold, call |-> t.call, asks |-> t.asks, run |-> t.run,
            envelope |-> t.envelope]
  BY TablesAre
<1>11. w = [hold |-> [t.hold EXCEPT ![h] = [@ EXCEPT !.marked = now]], call |-> k,
            asks |-> t.asks, run |-> t.run, envelope |-> t.envelope]
  BY <1>1, <1>9, <1>10
<1>12. HeldLost(t, h) = w
  BY <1>1, <1>8, <1>11 DEF HeldLost, With, WithCalls, k
<1> QED BY <1>3, <1>4, <1>6, <1>7, <1>12

\* It leaves the leases, and what is held.
LEMMA CallsLostTouches ==
    ASSUME NEW t, OrderKept(t), NEW h \in Hold, t.hold[h].lease # "none"
    PROVE  /\ Quiet(t, CallsLost(t, h))
           /\ CallsLost(t, h).hold[h].lease = t.hold[h].lease
           /\ CallsLost(t, h).hold[h].state = t.hold[h].state
<1> DEFINE r == t.hold[h]
           s == LostRow(t, h)
           k == HeldCalls(t, h)
           w == WithCalls(t, k)
           v == With(w, h, s, t.envelope)
           x == CallsMoved(v, Unsent(t, h), "released")
           u == AllGivenBack(x, Unsent(t, h))
<1>1. /\ t \in TablesType /\ r \in LooseRow /\ RowKept(r) /\ t.envelope \in EnvelopeType
  BY TablesAre DEF OrderKept
<1>2. CallsLost(t, h) = u /\ k \in [Call -> CallRow] /\ s \in LooseRow /\ v \in TablesType
  BY <1>1, CallsLostIs DEF HeldLost
<1>3. s.lease = r.lease /\ s.absent = r.absent /\ s.step = r.step /\ s.state = r.state
  BY <1>1 DEF LostRow, LooseRow
<1>4. r.state # "none"
  BY <1>1 DEF RowKept, NoHold
<1>5. RowFollows(r, s)
  <2>1. (r.marked => s.marked) /\ (s.marked => r.marked \/ r.step = "dispatched")
    BY <1>1 DEF LostRow, LooseRow
  <2>2. RowKept(s)
    BY <1>1, <1>3, <1>4, <2>1 DEF RowKept
  <2> QED BY <1>2, <1>3, <2>2 DEF RowFollows
<1>6. Quiet(t, w) /\ w.hold = t.hold
  BY <1>2, WithCallsQuiet DEF WithCalls
<1> HIDE DEF r, s, k, w
<1>7. OrderKept(w)
  BY <1>6, QuietKeeps
<1>8. Touches(w, v, h) /\ v.hold[h] = s
  BY <1>1, <1>5, <1>6, <1>7, WithTouches DEF r
<1>9. Quiet(t, v)
  BY <1>6, <1>8, FollowsOn DEF Touches
<1> HIDE DEF v
<1>10. OrderKept(v) /\ Unsent(t, h) \in SUBSET Call
  BY <1>9, QuietKeeps DEF Unsent, CallsOn
<1>11. Quiet(v, x) /\ x.hold = v.hold
  <2>1. /\ x = WithCalls(v, MovedCalls(v, Unsent(t, h), "released"))
        /\ MovedCalls(v, Unsent(t, h), "released") \in [Call -> CallRow]
    BY <1>2, CallsMovedIs
  <2> QED BY <1>10, <2>1, WithCallsQuiet DEF WithCalls
<1> HIDE DEF x
<1>12. OrderKept(x) /\ Quiet(t, x)
  BY <1>9, <1>10, <1>11, QuietKeeps, FollowsOn
<1>13. Quiet(x, u) /\ OnlyAmounts(x, u)
  BY <1>10, <1>12, AllGivenBackQuiet
<1> HIDE DEF u
<1>14. Quiet(t, u)
  BY <1>12, <1>13, FollowsOn
<1>15. u.hold[h].lease = s.lease /\ u.hold[h].state = s.state
  <2>1. x.hold[h] = s /\ u.hold[h] = [x.hold[h] EXCEPT !.amount = u.hold[h].amount]
    BY <1>8, <1>11, <1>13 DEF OnlyAmounts
  <2> QED BY <1>2, <2>1 DEF LooseRow
<1>16. s.lease = r.lease /\ s.state = r.state
  BY <1>3
<1>17. CallsLost(t, h) = u
  BY <1>2
<1> QED BY <1>14, <1>15, <1>16, <1>17 DEF r

\* resolveHeldCalls, as the calls and what is given back.
LEMMA CallsResolvedIs ==
    ASSUME NEW t \in TablesType, NEW h \in Hold,
           NEW word \in {"nothing", "happened", "differently", "written_off"}
    PROVE  /\ CallsResolved(t, h, word)
                = AllGivenBack(WithCalls(t, ResolvedCalls(t, h, word)), Unknowns(t, h))
           /\ ResolvedCalls(t, h, word) \in [Call -> CallRow]
           /\ Unknowns(t, h) \in SUBSET Call
<1>1. \A c \in Call : t.call[c] \in CallRow
  BY TablesAre
<1>2. CallMax \in 0 .. CallMax
  BY SomePrices
<1>3. \A c \in Call :
          /\ [t.call[c] EXCEPT !.state = "released"] \in CallRow
          /\ [t.call[c] EXCEPT !.writtenOff = TRUE] \in CallRow
          /\ [t.call[c] EXCEPT !.state = "settled", !.actual = CallMax] \in CallRow
  BY <1>1, <1>2 DEF CallRow
<1>4. ResolvedCalls(t, h, word) \in [Call -> CallRow]
  BY <1>1, <1>3 DEF ResolvedCalls
<1>5. Unknowns(t, h) \in SUBSET Call
  BY DEF Unknowns, CallsOn
<1> DEFINE k == [c \in Call |->
            IF c \notin Unknowns(t, h) THEN t.call[c]
            ELSE CASE word = "nothing" -> [t.call[c] EXCEPT !.state = "released"]
                   [] word = "written_off" -> [t.call[c] EXCEPT !.writtenOff = TRUE]
                   [] OTHER -> [t.call[c] EXCEPT !.state = "settled", !.actual = CallMax]]
<1>6. CallsResolved(t, h, word) = AllGivenBack([t EXCEPT !.call = k], Unknowns(t, h))
  BY DEF CallsResolved, Unknowns
<1>7. k = ResolvedCalls(t, h, word)
  BY DEF ResolvedCalls
<1> HIDE DEF k
<1>8. [t EXCEPT !.call = k] = WithCalls(t, k)
  <2>1. t = [hold |-> t.hold, call |-> t.call, asks |-> t.asks, run |-> t.run,
             envelope |-> t.envelope]
    BY TablesAre
  <2> QED BY <2>1 DEF WithCalls
<1> QED BY <1>4, <1>5, <1>6, <1>7, <1>8

\* It changes the amounts and the calls alone.
LEMMA CallsResolvedQuiet ==
    ASSUME NEW t, OrderKept(t), NEW h \in Hold,
           NEW word \in {"nothing", "happened", "differently", "written_off"}
    PROVE  /\ Quiet(t, CallsResolved(t, h, word))
           /\ \A g \in Hold : CallsResolved(t, h, word).hold[g]
                 = [t.hold[g] EXCEPT !.amount = CallsResolved(t, h, word).hold[g].amount]
           /\ CallsResolved(t, h, word).call = ResolvedCalls(t, h, word)
<1> DEFINE w == WithCalls(t, ResolvedCalls(t, h, word))
           u == AllGivenBack(w, Unknowns(t, h))
<1>1. /\ CallsResolved(t, h, word) = u /\ Unknowns(t, h) \in SUBSET Call
      /\ ResolvedCalls(t, h, word) \in [Call -> CallRow]
  BY CallsResolvedIs DEF OrderKept
<1>2. Quiet(t, w) /\ w.hold = t.hold /\ w.call = ResolvedCalls(t, h, word)
  BY <1>1, WithCallsQuiet DEF WithCalls
<1> HIDE DEF w
<1>3. OrderKept(w)
  BY <1>2, QuietKeeps
<1>4. Quiet(w, u) /\ OnlyAmounts(w, u)
  BY <1>1, <1>3, AllGivenBackQuiet
<1> HIDE DEF u
<1>5. Quiet(t, u)
  BY <1>2, <1>4, FollowsOn
<1> QED BY <1>1, <1>2, <1>4, <1>5 DEF OnlyAmounts

(***************************************************************************)
(* Stops, new holds and claims.                                            *)
(***************************************************************************)

\* Holds that follow, follow on, whatever becomes of the run.
LEMMA HoldsFollowOn ==
    ASSUME NEW t, NEW u, NEW v, HoldsFollow(t, u), HoldsFollow(u, v)
    PROVE  HoldsFollow(t, v)
  BY RowFollowsOn DEF HoldsFollow

\* A run that moves keeps the order, unless it waits on work.
LEMMA WithRunKeeps ==
    ASSUME NEW t, OrderKept(t), NEW a \in Seq(AskRow), NEW now \in Runs,
           \A i \in DOMAIN a : t.hold[a[i].of].lease = "over",
           now = "waiting" => \A h \in Hold : t.hold[h].lease # "live"
    PROVE  OrderKept(WithRun(t, a, now)) /\ HoldsFollow(t, WithRun(t, a, now))
<1> DEFINE u == WithRun(t, a, now)
<1>1. u \in TablesType
  BY DEF WithRun, OrderKept, TablesType, Runs
<1>2. u.hold = t.hold /\ u.asks = a /\ u.run = now
  BY DEF WithRun
<1> HIDE DEF u
<1>3. HoldsFollow(t, u)
  BY <1>1, <1>2, FollowsItself DEF Quiet, HoldsFollow
<1>4. OrderKept(u)
  BY <1>1, <1>2 DEF OrderKept, HoldsInOrder, AsksAreOver, WaitsAlone
<1> QED BY <1>3, <1>4 DEF u

\* stopAtBudget, as the end of the lease, the ask and the run.
LEMMA AtBudgetIs ==
    ASSUME NEW t \in TablesType, NEW h \in Hold
    PROVE  LET w == Retired(t, h, "open") IN
           /\ w \in TablesType /\ w.asks = t.asks /\ w.run = t.run
           /\ IF Len(t.asks) < MaxAsks
              THEN AtBudget(t, h) = WithRun(w, Append(t.asks, NewAsk(h)),
                                            IF t.run = "claimed" THEN "waiting" ELSE t.run)
              ELSE AtBudget(t, h) = WithRun(w, t.asks, "cancelled")
<1> DEFINE w == Retired(t, h, "open")
           v == WithCalls(t, MovedCalls(t, Releasable(t, h), "released"))
           r == RetiredRow(t.hold[h], "open")
<1>1. w = With(v, h, r, t.envelope) /\ r \in LooseRow
  BY RetiredIs
<1>2. v \in TablesType /\ t.envelope \in EnvelopeType
  BY CallsMovedIs, WithCallsIs, TablesAre
<1>3. v.asks = t.asks /\ v.run = t.run
  BY DEF WithCalls
<1> HIDE DEF v, r
<1>4. w \in TablesType
  BY <1>1, <1>2, WithIs
<1>5. w.asks = t.asks /\ w.run = t.run
  BY <1>1, <1>3 DEF With
<1>6. CASE Len(t.asks) < MaxAsks
  <2> DEFINE a == Append(t.asks, NewAsk(h))
             now == IF t.run = "claimed" THEN "waiting" ELSE t.run
  <2>1. AtBudget(t, h) = [w EXCEPT !.asks = Append(w.asks, NewAsk(h)),
                                   !.run = IF w.run = "claimed" THEN "waiting" ELSE w.run]
    BY <1>6 DEF AtBudget, NewAsk
  <2>2. AtBudget(t, h) = [w EXCEPT !.asks = a, !.run = now]
    BY <1>5, <2>1
  <2> HIDE DEF w, a, now
  <2>3. w = [hold |-> w.hold, call |-> w.call, asks |-> w.asks, run |-> w.run,
             envelope |-> w.envelope]
    BY <1>4, TablesAre
  <2>4. AtBudget(t, h) = WithRun(w, a, now)
    BY <2>2, <2>3 DEF WithRun
  <2> QED BY <1>4, <1>5, <1>6, <2>4 DEF w, a, now
<1>7. CASE ~ (Len(t.asks) < MaxAsks)
  <2>1. AtBudget(t, h) = [w EXCEPT !.run = "cancelled"]
    BY <1>7 DEF AtBudget
  <2> HIDE DEF w
  <2>2. w = [hold |-> w.hold, call |-> w.call, asks |-> w.asks, run |-> w.run,
             envelope |-> w.envelope]
    BY <1>4, TablesAre
  <2>3. AtBudget(t, h) = WithRun(w, t.asks, "cancelled")
    BY <1>5, <2>1, <2>2 DEF WithRun
  <2> QED BY <1>4, <1>5, <1>7, <2>3 DEF w
<1> QED BY <1>6, <1>7

\* A run stops at its budget where no other lease is live.
LEMMA AtBudgetKeeps ==
    ASSUME NEW t, OrderKept(t), NEW h \in Hold, t.hold[h].lease # "none",
           \A g \in Hold \ {h} : t.hold[g].lease # "live"
    PROVE  OrderKept(AtBudget(t, h)) /\ HoldsFollow(t, AtBudget(t, h))
<1> DEFINE w == Retired(t, h, "open")
           u == AtBudget(t, h)
           more == Append(t.asks, NewAsk(h))
<1>1. Touches(t, w, h) /\ w.hold[h].lease = "over"
  BY RetiredTouches
<1>2. t \in TablesType
  BY DEF OrderKept
<1>3. \/ u = WithRun(w, more, IF t.run = "claimed" THEN "waiting" ELSE t.run)
      \/ u = WithRun(w, t.asks, "cancelled")
  BY <1>2, AtBudgetIs
<1> HIDE DEF w, u, more
<1>4. OrderKept(w)
  BY <1>1, QuietKeeps DEF Touches
<1>5. \A g \in Hold : w.hold[g].lease # "live"
  BY <1>1 DEF Touches
<1>6. t.asks \in Seq(AskRow) /\ w.asks = t.asks /\ t.run \in Runs
  BY <1>1, <1>2, TablesAre DEF Touches, Quiet, Runs
<1>7. \A i \in DOMAIN t.asks : w.hold[t.asks[i].of].lease = "over"
  BY <1>4, <1>6 DEF OrderKept, AsksAreOver
<1>8. CASE u = WithRun(w, t.asks, "cancelled")
  <2>1. OrderKept(u) /\ HoldsFollow(w, u)
    BY <1>4, <1>6, <1>7, <1>8, WithRunKeeps DEF Runs
  <2> QED BY <1>1, <2>1, HoldsFollowOn DEF Touches, Quiet, u
<1>9. CASE u = WithRun(w, more, IF t.run = "claimed" THEN "waiting" ELSE t.run)
  <2>1. more \in Seq(AskRow)
    BY <1>6 DEF more, NewAsk, AskRow
  <2>2. \A i \in DOMAIN more : w.hold[more[i].of].lease = "over"
    <3> SUFFICES ASSUME NEW i \in DOMAIN more PROVE w.hold[more[i].of].lease = "over"
      OBVIOUS
    <3>1. \/ i \in DOMAIN t.asks /\ more[i] = t.asks[i]
          \/ more[i] = NewAsk(h)
      BY <1>6 DEF more
    <3> QED BY <1>1, <1>7, <3>1 DEF NewAsk
  <2> DEFINE now == IF t.run = "claimed" THEN "waiting" ELSE t.run
  <2>3. now \in Runs
    BY <1>6 DEF Runs
  <2> HIDE DEF now
  <2>4. OrderKept(WithRun(w, more, now)) /\ HoldsFollow(w, WithRun(w, more, now))
    BY <1>4, <1>5, <2>1, <2>2, <2>3, WithRunKeeps
  <2>5. u = WithRun(w, more, now)
    BY <1>9 DEF now
  <2> QED BY <1>1, <2>4, <2>5, HoldsFollowOn DEF Touches, Quiet, u
<1> QED BY <1>3, <1>8, <1>9

\* A planned run claimed for the stop.
LEMMA UnplannedIs ==
    ASSUME NEW t \in TablesType
    PROVE  Unplanned(t) = WithRun(t, t.asks, IF t.run = "planned" THEN "claimed" ELSE t.run)
<1>1. t = [hold |-> t.hold, call |-> t.call, asks |-> t.asks, run |-> t.run,
           envelope |-> t.envelope]
  BY TablesAre
<1> QED BY <1>1 DEF Unplanned, WithRun

\* So it does on a closed hold.
LEMMA AtSpentHoldKeeps ==
    ASSUME NEW t, OrderKept(t), NEW h \in Hold, t.hold[h].lease # "none",
           \A g \in Hold \ {h} : t.hold[g].lease # "live"
    PROVE  OrderKept(AtSpentHold(t, h)) /\ HoldsFollow(t, AtSpentHold(t, h))
<1> DEFINE now == IF t.run = "planned" THEN "claimed" ELSE t.run
           w == WithRun(t, t.asks, now)
<1>1. AtSpentHold(t, h) = AtBudget(w, h)
  <2>1. Unplanned(t) = w
    BY UnplannedIs DEF OrderKept
  <2> QED BY <2>1 DEF AtSpentHold, Unplanned
<1>2. now \in Runs /\ (now = "waiting" => t.run = "waiting") /\ t.asks \in Seq(AskRow)
  BY TablesAre DEF OrderKept, Runs
<1> HIDE DEF now
<1>3. OrderKept(w) /\ HoldsFollow(t, w)
  BY <1>2, WithRunKeeps DEF OrderKept, AsksAreOver, WaitsAlone
<1>4. w.hold = t.hold
  BY DEF WithRun
<1> HIDE DEF w
<1>5. OrderKept(AtBudget(w, h)) /\ HoldsFollow(w, AtBudget(w, h))
  BY <1>3, <1>4, AtBudgetKeeps
<1> QED BY <1>1, <1>3, <1>5, HoldsFollowOn

\* reserve, as one row and the envelope.
LEMMA ReservedIs ==
    ASSUME NEW t \in TablesType, NEW amount \in Int
    PROVE  /\ Reserved(t, amount)
                = With(t, NextHold(t), FreshHold(amount), ReservedEnvelope(t, amount))
           /\ FreshHold(amount) \in LooseRow /\ RowKept(FreshHold(amount))
           /\ ReservedEnvelope(t, amount) \in EnvelopeType
<1> DEFINE n == NextHold(t)
           r == FreshHold(amount)
<1>1. FreshHold(amount) \in LooseRow
  <2>1. NoHold \in LooseRow
    BY DEF NoHold, LooseRow
  <2> QED BY <2>1 DEF FreshHold, LooseRow
<1>2. RowKept(FreshHold(amount))
  BY DEF FreshHold, NoHold, RowKept, Running
<1>3. ReservedEnvelope(t, amount) \in EnvelopeType
  <2>1. t.envelope \in EnvelopeType
    BY TablesAre
  <2> QED BY <2>1 DEF ReservedEnvelope, EnvelopeType
<1>4. Reserved(t, amount) = [t EXCEPT !.hold[n] = r, !.envelope.held = @ + amount]
  BY DEF Reserved, FreshHold
<1> HIDE DEF n, r
<1>5. /\ t = [hold |-> t.hold, call |-> t.call, asks |-> t.asks, run |-> t.run,
              envelope |-> t.envelope]
      /\ t.envelope = [held |-> t.envelope.held, actual |-> t.envelope.actual,
                       maximum |-> t.envelope.maximum]
  BY TablesAre
<1>6. Reserved(t, amount) = With(t, n, r, ReservedEnvelope(t, amount))
  BY <1>4, <1>5 DEF With, ReservedEnvelope
<1> QED BY <1>1, <1>2, <1>3, <1>6 DEF n, r

\* Two holds that are held and not proved absent are one.
LEMMA ActiveAreOne ==
    ASSUME NEW u, OneActive(u), NEW g \in Hold, NEW h \in Hold,
           u.hold[g].state = "held", ~ u.hold[g].absent,
           u.hold[h].state = "held", ~ u.hold[h].absent
    PROVE  g = h
<1> DEFINE S == {x \in HeldIn(u) : ~ u.hold[x].absent}
<1> SUFFICES ASSUME g # h PROVE FALSE
  OBVIOUS
<1>1. Cardinality(S) <= 1
  BY DEF OneActive
<1>2. S \in SUBSET Hold /\ {g, h} \subseteq S
  BY DEF HeldIn
<1> HIDE DEF S
<1>3. IsFiniteSet(S)
  BY <1>2, RowsAreFinite, FS_Subset
<1>4. Cardinality({g, h}) = 2
  <2>1. IsFiniteSet({g}) /\ Cardinality({g}) = 1
    BY FS_Singleton
  <2>2. Cardinality({g} \cup {h}) = Cardinality({g}) + 1
    BY <2>1, FS_AddElement
  <2>3. {g} \cup {h} = {g, h}
    OBVIOUS
  <2> QED BY <2>1, <2>2, <2>3
<1>5. Cardinality({g, h}) <= Cardinality(S) /\ Cardinality(S) \in Nat
  BY <1>2, <1>3, FS_Subset, FS_CardinalityType
<1> QED BY <1>1, <1>4, <1>5

\* A new hold is the step's next, beside none that is held and not proved absent.
LEMMA ReservedKeeps ==
    ASSUME NEW t, OrderKept(t), NEW amount \in Int, NextHold(t) \in Hold,
           OneActive(Reserved(t, amount))
    PROVE  /\ OrderKept(Reserved(t, amount))
           /\ Reserved(t, amount).hold[NextHold(t)] = FreshHold(amount)
           /\ \A g \in Hold \ {NextHold(t)} : Reserved(t, amount).hold[g] = t.hold[g]
           /\ t.hold[NextHold(t)] = NoHold
           /\ \A g \in Hold : g > NextHold(t) => t.hold[g] = NoHold
           /\ Reserved(t, amount).run = t.run
<1> DEFINE n == NextHold(t)
           r == FreshHold(amount)
           u == Reserved(t, amount)
<1>1. /\ t \in TablesType /\ HoldsInOrder(t)
      /\ \A h \in Hold : t.hold[h].state = "none" => t.hold[h] = NoHold
  BY DEF OrderKept, RowKept
<1>2. /\ u = With(t, n, r, ReservedEnvelope(t, amount))
      /\ r \in LooseRow /\ RowKept(r) /\ ReservedEnvelope(t, amount) \in EnvelopeType
  BY <1>1, ReservedIs
<1>3. n \in Nat \ {0} /\ \A h \in Hold : t.hold[h].state # "none" <=> h < n
  BY <1>1, NextHoldIs
<1>4. u.asks = t.asks /\ u.run = t.run
  BY <1>2 DEF With
<1>5. r.state = "held" /\ ~ r.absent /\ r.lease = "none"
  BY DEF FreshHold, NoHold
<1> HIDE DEF n, r, u
<1>6. u \in TablesType /\ u.hold[n] = r /\ \A g \in Hold \ {n} : u.hold[g] = t.hold[g]
  BY <1>1, <1>2, WithIs DEF n
<1>7. t.hold[n] = NoHold /\ \A g \in Hold : g > n => t.hold[g] = NoHold
  <2>1. \A g \in Hold : g >= n => ~ (g < n)
    BY <1>3 DEF Hold
  <2>2. \A g \in Hold : g >= n => t.hold[g] = NoHold
    BY <1>1, <1>3, <2>1
  <2>3. n \in Hold /\ n >= n /\ \A g \in Hold : g > n => g >= n
    BY <1>3 DEF n, Hold
  <2> QED BY <2>2, <2>3
<1>8. \A h \in Hold : RowKept(u.hold[h])
  BY <1>2, <1>6 DEF OrderKept
<1>9. HoldsInOrder(u)
  <2> SUFFICES ASSUME NEW g \in Hold, NEW h \in Hold, g < h, u.hold[h].state # "none"
               PROVE  /\ u.hold[g].state # "none"
                      /\ u.hold[g].state = "held" => u.hold[g].absent
                      /\ u.hold[g].lease \in Running => u.hold[h].lease = "none"
    BY DEF HoldsInOrder
  <2>1. CASE h = n
    <3>1. g # n /\ t.hold[g].state # "none" /\ u.hold[g] = t.hold[g]
      BY <1>3, <1>6, <2>1 DEF Hold
    <3>2. u.hold[g].state = "held" => u.hold[g].absent
      <4>1. OneActive(u)
        BY DEF u
      <4> QED BY <1>5, <1>6, <2>1, <3>1, <4>1, ActiveAreOne
    <3> QED BY <1>5, <1>6, <2>1, <3>1, <3>2
  <2>2. CASE h # n
    <3>1. u.hold[h] = t.hold[h] /\ h < n
      BY <1>3, <1>6, <2>2
    <3>2. g # n
      BY <1>3, <3>1 DEF Hold
    <3> QED BY <1>1, <1>6, <3>1, <3>2 DEF HoldsInOrder
  <2> QED BY <2>1, <2>2
<1>10. AsksAreOver(u)
  <2>1. t.hold[n].lease # "over"
    BY <1>7 DEF NoHold
  <2>2. \A i \in DOMAIN t.asks : t.hold[t.asks[i].of].lease = "over" /\ t.asks[i].of \in Hold
    <3>1. t.asks \in Seq(AskRow)
      BY <1>1, TablesAre
    <3>2. \A i \in DOMAIN t.asks : t.asks[i] \in AskRow
      BY <3>1
    <3> QED BY <3>2 DEF OrderKept, AsksAreOver, AskRow
  <2> QED BY <1>4, <1>6, <2>1, <2>2 DEF AsksAreOver
<1>11. WaitsAlone(u)
  BY <1>4, <1>5, <1>6 DEF OrderKept, WaitsAlone
<1>12. OrderKept(u)
  BY <1>6, <1>8, <1>9, <1>10, <1>11 DEF OrderKept
<1> QED BY <1>4, <1>6, <1>7, <1>12 DEF n, r, u

\* A claim, as one row and the run.
LEMMA ClaimedIs ==
    ASSUME NEW t \in TablesType, NEW h \in Hold
    PROVE  /\ Claimed(t, h) = WithRun(With(t, h, ClaimedRow(t.hold[h]), t.envelope),
                                      t.asks, "claimed")
           /\ ClaimedRow(t.hold[h]) \in LooseRow
<1>1. t.hold \in [Hold -> LooseRow] /\ t.hold[h] \in LooseRow
  BY TablesAre
<1>2. ClaimedRow(t.hold[h]) \in LooseRow
  BY <1>1 DEF ClaimedRow, LooseRow
<1> DEFINE u == Claimed(t, h)
<1>3. t = [hold |-> t.hold, call |-> t.call, asks |-> t.asks, run |-> t.run,
           envelope |-> t.envelope]
  BY TablesAre
<1>4. u = [t EXCEPT !.hold[h].lease = "live", !.hold[h].step = "dispatched", !.run = "claimed"]
  BY DEF Claimed
<1> HIDE DEF u
<1>5. /\ u = [hold |-> u.hold, call |-> t.call, asks |-> t.asks, run |-> "claimed",
              envelope |-> t.envelope]
      /\ u.hold = [t.hold EXCEPT ![h].lease = "live", ![h].step = "dispatched"]
  BY <1>3, <1>4
<1>6. u.hold = [t.hold EXCEPT ![h] = [@ EXCEPT !.lease = "live", !.step = "dispatched"]]
  BY <1>1, <1>5
<1>7. u = WithRun(With(t, h, ClaimedRow(t.hold[h]), t.envelope), t.asks, "claimed")
  BY <1>1, <1>5, <1>6 DEF WithRun, With, ClaimedRow
<1> QED BY <1>2, <1>7 DEF u

\* A claim takes the newest hold, where no other lease runs.
LEMMA ClaimedKeeps ==
    ASSUME NEW t, OrderKept(t), NEW h \in Hold, t.hold[h].state = "held",
           t.hold[h].lease = "none",
           \A g \in Hold : t.hold[g].lease \notin Running,
           \A g \in Hold : g > h => t.hold[g].state = "none"
    PROVE  OrderKept(Claimed(t, h))
<1> DEFINE r == ClaimedRow(t.hold[h])
           w == With(t, h, r, t.envelope)
           u == Claimed(t, h)
<1>1. /\ t \in TablesType /\ t.hold[h] \in LooseRow /\ RowKept(t.hold[h])
      /\ t.envelope \in EnvelopeType /\ t.asks \in Seq(AskRow)
  BY TablesAre DEF OrderKept
<1>2. u = WithRun(w, t.asks, "claimed") /\ r \in LooseRow
  BY <1>1, ClaimedIs
<1>3. r.lease = "live" /\ r.step = "dispatched" /\ r.state = "held" /\ r.absent = t.hold[h].absent
  BY <1>1 DEF ClaimedRow, LooseRow
<1>4. w \in TablesType /\ w.hold[h] = r /\ \A g \in Hold \ {h} : w.hold[g] = t.hold[g]
  BY <1>1, <1>2, WithIs
<1>5. u.hold = w.hold /\ u.asks = t.asks /\ u.run = "claimed"
  BY <1>2 DEF WithRun
<1> HIDE DEF r, u, w
<1>6. u \in TablesType
  BY <1>1, <1>2, <1>4, TablesAre DEF WithRun, TablesType
<1>7. \A g \in Hold : RowKept(u.hold[g])
  <2>1. RowKept(r)
    BY <1>3 DEF RowKept
  <2> QED BY <1>4, <1>5, <2>1 DEF OrderKept
<1>8. HoldsInOrder(u)
  <2> SUFFICES ASSUME NEW g \in Hold, NEW k \in Hold, g < k, u.hold[k].state # "none"
               PROVE  /\ u.hold[g].state # "none"
                      /\ u.hold[g].state = "held" => u.hold[g].absent
                      /\ u.hold[g].lease \in Running => u.hold[k].lease = "none"
    BY DEF HoldsInOrder
  <2>1. t.hold[k].state # "none"
    BY <1>4, <1>5
  <2>2. g # h
    BY <2>1 DEF Hold
  <2>3. u.hold[g] = t.hold[g]
    BY <1>4, <1>5, <2>2
  <2> QED BY <2>1, <2>3 DEF OrderKept, HoldsInOrder
<1>9. AsksAreOver(u)
  <2>1. \A i \in DOMAIN t.asks : t.asks[i] \in AskRow
    BY <1>1
  <2>2. \A i \in DOMAIN t.asks : t.hold[t.asks[i].of].lease = "over" /\ t.asks[i].of \in Hold
    BY <2>1 DEF OrderKept, AsksAreOver, AskRow
  <2> QED BY <1>4, <1>5, <2>2 DEF AsksAreOver
<1>10. WaitsAlone(u)
  BY <1>5 DEF WaitsAlone
<1> QED BY <1>6, <1>7, <1>8, <1>9, <1>10 DEF OrderKept, u

(***************************************************************************)
(* Which lease runs alone, and rewriting one field of a hold's row.        *)
(***************************************************************************)

\* No lease runs beside a running one,
LEMMA RunningAlone ==
    ASSUME NEW t, OrderKept(t), NEW h \in Hold, t.hold[h].lease \in Running
    PROVE  \A g \in Hold \ {h} : t.hold[g].lease \notin Running
<1> SUFFICES ASSUME NEW g \in Hold \ {h}, t.hold[g].lease \in Running PROVE FALSE
  OBVIOUS
<1>1. t.hold[g].state # "none" /\ t.hold[h].state # "none"
  BY DEF OrderKept, RowKept, NoHold, Running
<1>2. g < h \/ h < g
  BY DEF Hold
<1> QED BY <1>1, <1>2 DEF OrderKept, HoldsInOrder, Running

\* nor beside the newest hold once it was claimed.
LEMMA NewestAlone ==
    ASSUME NEW t, OrderKept(t), NEW h \in Hold, t.hold[h].state = "held", ~ t.hold[h].absent,
           t.hold[h].lease # "none"
    PROVE  \A g \in Hold \ {h} : t.hold[g].lease \notin Running
<1> SUFFICES ASSUME NEW g \in Hold \ {h}, t.hold[g].lease \in Running PROVE FALSE
  OBVIOUS
<1>1. t.hold[g].state # "none"
  BY DEF OrderKept, RowKept, NoHold, Running
<1>2. g < h \/ h < g
  BY DEF Hold
<1> QED BY <1>1, <1>2 DEF OrderKept, HoldsInOrder

\* One field of a hold's row.
LEMMA MarkedIs ==
    ASSUME NEW t \in TablesType, NEW h \in Hold, NEW v \in BOOLEAN
    PROVE  /\ [t EXCEPT !.hold[h].marked = v]
                = With(t, h, [t.hold[h] EXCEPT !.marked = v], t.envelope)
           /\ [t.hold[h] EXCEPT !.marked = v] \in LooseRow
<1> DEFINE f == [t.hold EXCEPT ![h].marked = v]
<1>1. t.hold \in [Hold -> LooseRow] /\ t.hold[h] \in LooseRow
  BY TablesAre
<1>2. [t EXCEPT !.hold[h].marked = v]
      = [hold |-> f, call |-> t.call, asks |-> t.asks, run |-> t.run, envelope |-> t.envelope]
  BY HoldsPut
<1> QED BY <1>1, <1>2 DEF With, LooseRow

\* Its observed.
LEMMA ObservedIs ==
    ASSUME NEW t \in TablesType, NEW h \in Hold, NEW v \in BOOLEAN
    PROVE  /\ [t EXCEPT !.hold[h].observed = v]
                = With(t, h, [t.hold[h] EXCEPT !.observed = v], t.envelope)
           /\ [t.hold[h] EXCEPT !.observed = v] \in LooseRow
<1> DEFINE f == [t.hold EXCEPT ![h].observed = v]
<1>1. t.hold \in [Hold -> LooseRow] /\ t.hold[h] \in LooseRow
  BY TablesAre
<1>2. [t EXCEPT !.hold[h].observed = v]
      = [hold |-> f, call |-> t.call, asks |-> t.asks, run |-> t.run, envelope |-> t.envelope]
  BY HoldsPut
<1> QED BY <1>1, <1>2 DEF With, LooseRow

\* Its absent.
LEMMA AbsentIs ==
    ASSUME NEW t \in TablesType, NEW h \in Hold, NEW v \in BOOLEAN
    PROVE  /\ [t EXCEPT !.hold[h].absent = v]
                = With(t, h, [t.hold[h] EXCEPT !.absent = v], t.envelope)
           /\ [t.hold[h] EXCEPT !.absent = v] \in LooseRow
<1> DEFINE f == [t.hold EXCEPT ![h].absent = v]
<1>1. t.hold \in [Hold -> LooseRow] /\ t.hold[h] \in LooseRow
  BY TablesAre
<1>2. [t EXCEPT !.hold[h].absent = v]
      = [hold |-> f, call |-> t.call, asks |-> t.asks, run |-> t.run, envelope |-> t.envelope]
  BY HoldsPut
<1> QED BY <1>1, <1>2 DEF With, LooseRow

\* Its step.
LEMMA StepIs ==
    ASSUME NEW t \in TablesType, NEW h \in Hold, NEW v \in {"unknown", "dropped"}
    PROVE  /\ [t EXCEPT !.hold[h].step = v]
                = With(t, h, [t.hold[h] EXCEPT !.step = v], t.envelope)
           /\ [t.hold[h] EXCEPT !.step = v] \in LooseRow
<1> DEFINE f == [t.hold EXCEPT ![h].step = v]
<1>1. t.hold \in [Hold -> LooseRow] /\ t.hold[h] \in LooseRow
  BY TablesAre
<1>2. [t EXCEPT !.hold[h].step = v]
      = [hold |-> f, call |-> t.call, asks |-> t.asks, run |-> t.run, envelope |-> t.envelope]
  BY HoldsPut
<1> QED BY <1>1, <1>2 DEF With, LooseRow

\* Its word.
LEMMA WordIs ==
    ASSUME NEW t \in TablesType, NEW h \in Hold, NEW v \in {"nothing", "happened", "differently"}
    PROVE  /\ [t EXCEPT !.hold[h].word = v]
                = With(t, h, [t.hold[h] EXCEPT !.word = v], t.envelope)
           /\ [t.hold[h] EXCEPT !.word = v] \in LooseRow
<1> DEFINE f == [t.hold EXCEPT ![h].word = v]
<1>1. t.hold \in [Hold -> LooseRow] /\ t.hold[h] \in LooseRow
  BY TablesAre
<1>2. [t EXCEPT !.hold[h].word = v]
      = [hold |-> f, call |-> t.call, asks |-> t.asks, run |-> t.run, envelope |-> t.envelope]
  BY HoldsPut
<1> QED BY <1>1, <1>2 DEF With, LooseRow

\* Its lease.
LEMMA LeaseIs ==
    ASSUME NEW t \in TablesType, NEW h \in Hold, NEW v \in {"lapsed"}
    PROVE  /\ [t EXCEPT !.hold[h].lease = v]
                = With(t, h, [t.hold[h] EXCEPT !.lease = v], t.envelope)
           /\ [t.hold[h] EXCEPT !.lease = v] \in LooseRow
<1> DEFINE f == [t.hold EXCEPT ![h].lease = v]
<1>1. t.hold \in [Hold -> LooseRow] /\ t.hold[h] \in LooseRow
  BY TablesAre
<1>2. [t EXCEPT !.hold[h].lease = v]
      = [hold |-> f, call |-> t.call, asks |-> t.asks, run |-> t.run, envelope |-> t.envelope]
  BY HoldsPut
<1> QED BY <1>1, <1>2 DEF With, LooseRow

\* Each leaves the other holds, and keeps the order where it is written.
LEMMA MarkedTouches ==
    ASSUME NEW t, OrderKept(t), NEW h \in Hold, NEW v \in BOOLEAN,
           t.hold[h].marked => v, v => t.hold[h].lease # "none"
    PROVE  /\ Touches(t, [t EXCEPT !.hold[h].marked = v], h)
           /\ [t EXCEPT !.hold[h].marked = v].hold[h] = [t.hold[h] EXCEPT !.marked = v]
<1> DEFINE r == [t.hold[h] EXCEPT !.marked = v]
<1>1. t \in TablesType /\ t.hold[h] \in LooseRow /\ RowKept(t.hold[h]) /\ t.envelope \in EnvelopeType
  BY TablesAre DEF OrderKept
<1>2. [t EXCEPT !.hold[h].marked = v] = With(t, h, r, t.envelope) /\ r \in LooseRow
  BY <1>1, MarkedIs
<1>3. RowFollows(t.hold[h], r)
  BY <1>1, <1>2 DEF RowFollows, RowKept, NoHold, LooseRow, Running
<1> HIDE DEF r
<1>4. Touches(t, With(t, h, r, t.envelope), h) /\ With(t, h, r, t.envelope).hold[h] = r
  BY <1>1, <1>3, WithTouches
<1> QED BY <1>2, <1>4 DEF r

\* A hold observed keeps the order,
LEMMA ObservedTouches ==
    ASSUME NEW t, OrderKept(t), NEW h \in Hold, NEW v \in BOOLEAN, t.hold[h].state # "none"
    PROVE  /\ Touches(t, [t EXCEPT !.hold[h].observed = v], h)
           /\ [t EXCEPT !.hold[h].observed = v].hold[h] = [t.hold[h] EXCEPT !.observed = v]
<1> DEFINE r == [t.hold[h] EXCEPT !.observed = v]
<1>1. t \in TablesType /\ t.hold[h] \in LooseRow /\ RowKept(t.hold[h]) /\ t.envelope \in EnvelopeType
  BY TablesAre DEF OrderKept
<1>2. [t EXCEPT !.hold[h].observed = v] = With(t, h, r, t.envelope) /\ r \in LooseRow
  BY <1>1, ObservedIs
<1>3. RowFollows(t.hold[h], r)
  BY <1>1, <1>2 DEF RowFollows, RowKept, NoHold, LooseRow, Running
<1> HIDE DEF r
<1>4. Touches(t, With(t, h, r, t.envelope), h) /\ With(t, h, r, t.envelope).hold[h] = r
  BY <1>1, <1>3, WithTouches
<1> QED BY <1>2, <1>4 DEF r

\* one proved absent, if it was claimed,
LEMMA AbsentTouches ==
    ASSUME NEW t, OrderKept(t), NEW h \in Hold, NEW v \in BOOLEAN,
           t.hold[h].absent => v, v => t.hold[h].lease # "none"
    PROVE  /\ Touches(t, [t EXCEPT !.hold[h].absent = v], h)
           /\ [t EXCEPT !.hold[h].absent = v].hold[h] = [t.hold[h] EXCEPT !.absent = v]
<1> DEFINE r == [t.hold[h] EXCEPT !.absent = v]
<1>1. t \in TablesType /\ t.hold[h] \in LooseRow /\ RowKept(t.hold[h]) /\ t.envelope \in EnvelopeType
  BY TablesAre DEF OrderKept
<1>2. [t EXCEPT !.hold[h].absent = v] = With(t, h, r, t.envelope) /\ r \in LooseRow
  BY <1>1, AbsentIs
<1>3. RowFollows(t.hold[h], r)
  BY <1>1, <1>2 DEF RowFollows, RowKept, NoHold, LooseRow, Running
<1> HIDE DEF r
<1>4. Touches(t, With(t, h, r, t.envelope), h) /\ With(t, h, r, t.envelope).hold[h] = r
  BY <1>1, <1>3, WithTouches
<1> QED BY <1>2, <1>4 DEF r

\* one whose step is unknown or dropped,
LEMMA StepTouches ==
    ASSUME NEW t, OrderKept(t), NEW h \in Hold, NEW v \in {"unknown", "dropped"},
           t.hold[h].lease # "none", t.hold[h].lease \in Running => t.hold[h].marked
    PROVE  /\ Touches(t, [t EXCEPT !.hold[h].step = v], h)
           /\ [t EXCEPT !.hold[h].step = v].hold[h] = [t.hold[h] EXCEPT !.step = v]
<1> DEFINE r == [t.hold[h] EXCEPT !.step = v]
<1>1. t \in TablesType /\ t.hold[h] \in LooseRow /\ RowKept(t.hold[h]) /\ t.envelope \in EnvelopeType
  BY TablesAre DEF OrderKept
<1>2. [t EXCEPT !.hold[h].step = v] = With(t, h, r, t.envelope) /\ r \in LooseRow
  BY <1>1, StepIs
<1>3. RowFollows(t.hold[h], r)
  BY <1>1, <1>2 DEF RowFollows, RowKept, NoHold, LooseRow, Running
<1> HIDE DEF r
<1>4. Touches(t, With(t, h, r, t.envelope), h) /\ With(t, h, r, t.envelope).hold[h] = r
  BY <1>1, <1>3, WithTouches
<1> QED BY <1>2, <1>4 DEF r

\* one a person gave a word on,
LEMMA WordTouches ==
    ASSUME NEW t, OrderKept(t), NEW h \in Hold, NEW v \in {"nothing", "happened", "differently"},
           t.hold[h].state # "none"
    PROVE  /\ Touches(t, Worded(t, h, v), h)
           /\ Worded(t, h, v).hold[h] = WordedRow(t.hold[h], v)
           /\ Worded(t, h, v) = With(t, h, WordedRow(t.hold[h], v), t.envelope)
<1> DEFINE r == WordedRow(t.hold[h], v)
<1>1. t \in TablesType /\ t.hold[h] \in LooseRow /\ RowKept(t.hold[h]) /\ t.envelope \in EnvelopeType
  BY TablesAre DEF OrderKept
<1>2. Worded(t, h, v) = With(t, h, r, t.envelope) /\ r \in LooseRow
  <2>1. /\ [t EXCEPT !.hold[h].word = v]
             = With(t, h, [t.hold[h] EXCEPT !.word = v], t.envelope)
        /\ [t.hold[h] EXCEPT !.word = v] \in LooseRow
    BY <1>1, WordIs
  <2> QED BY <2>1 DEF Worded, WordedRow
<1>3. RowFollows(t.hold[h], r)
  BY <1>1, <1>2 DEF RowFollows, RowKept, NoHold, LooseRow, Running, WordedRow
<1> HIDE DEF r
<1>4. Touches(t, With(t, h, r, t.envelope), h) /\ With(t, h, r, t.envelope).hold[h] = r
  BY <1>1, <1>3, WithTouches
<1> QED BY <1>2, <1>4 DEF r

\* and one whose lease runs out.
LEMMA LapseTouches ==
    ASSUME NEW t, OrderKept(t), NEW h \in Hold, t.hold[h].lease = "live"
    PROVE  /\ Touches(t, [t EXCEPT !.hold[h].lease = "lapsed"], h)
           /\ [t EXCEPT !.hold[h].lease = "lapsed"].hold[h] = [t.hold[h] EXCEPT !.lease = "lapsed"]
           /\ [t EXCEPT !.hold[h].lease = "lapsed"]
                = With(t, h, [t.hold[h] EXCEPT !.lease = "lapsed"], t.envelope)
<1> DEFINE r == [t.hold[h] EXCEPT !.lease = "lapsed"]
<1>1. t \in TablesType /\ t.hold[h] \in LooseRow /\ RowKept(t.hold[h]) /\ t.envelope \in EnvelopeType
  BY TablesAre DEF OrderKept
<1>2. [t EXCEPT !.hold[h].lease = "lapsed"] = With(t, h, r, t.envelope) /\ r \in LooseRow
  BY <1>1, LeaseIs
<1>3. RowFollows(t.hold[h], r)
  BY <1>1, <1>2 DEF RowFollows, RowKept, NoHold, LooseRow, Running
<1> HIDE DEF r
<1>4. Touches(t, With(t, h, r, t.envelope), h) /\ With(t, h, r, t.envelope).hold[h] = r
  BY <1>1, <1>3, WithTouches
<1> QED BY <1>2, <1>4 DEF r

(***************************************************************************)
(* Amounts: what a top-up adds, what a version has room for.               *)
(***************************************************************************)

\* The asks are finitely many rows.
LEMMA AsksAre ==
    ASSUME NEW t \in TablesType
    PROVE  /\ DOMAIN t.asks = 1 .. Len(t.asks) /\ Len(t.asks) \in Nat
           /\ IsFiniteSet(DOMAIN t.asks)
           /\ \A i \in DOMAIN t.asks : t.asks[i] \in AskRow
<1>1. t.asks \in Seq(AskRow)
  BY TablesAre
<1>2. DOMAIN t.asks = 1 .. Len(t.asks) /\ Len(t.asks) \in Nat
  BY <1>1
<1>3. \A i \in DOMAIN t.asks : t.asks[i] \in AskRow
  BY <1>1
<1>4. IsFiniteSet(1 .. Len(t.asks))
  BY <1>2, FS_Interval
<1> QED BY <1>2, <1>3, <1>4

\* The top-ups, as one sum over the asks.
LEMMA TopUpsAre ==
    ASSUME NEW t \in TablesType
    PROVE  /\ TopUpsOf(t) = SumFunctionOnSet([i \in DOMAIN t.asks |-> TopUpOf(t.asks[i])],
                                             DOMAIN t.asks)
           /\ TopUpsOf(t) \in Nat
<1> DEFINE f == [i \in DOMAIN t.asks |-> TopUpOf(t.asks[i])]
<1>1. TopUpsOf(t) = SumFunctionOnSet(f, DOMAIN t.asks)
  BY DEF TopUpsOf, TopUpOf
<1>2. \A i \in DOMAIN t.asks : f[i] \in Nat
  BY AsksAre DEF TopUpOf, AskRow
<1> HIDE DEF f
<1>3. SumFunctionOnSet(f, DOMAIN t.asks) \in Nat
  BY <1>2, AsksAre, SumOfNaturals
<1> QED BY <1>1, <1>3 DEF f

\* The amounts of a hold are numbers.
LEMMA AmountsAre ==
    ASSUME NEW t \in TablesType, NEW h \in Hold
    PROVE  t.hold[h].amount \in Int /\ t.hold[h].actual \in Int /\ Left(t, h) \in Int
<1>1. t.hold[h] \in LooseRow
  BY TablesAre
<1> QED BY <1>1 DEF LooseRow, Left

\* So is what a hold commits of its version,
LEMMA CommittedIs ==
    ASSUME NEW t \in TablesType, NEW h \in Hold
    PROVE  CommittedBy(t, h) \in Int
<1>1. t.hold[h].amount \in Int /\ t.hold[h].actual \in Int
  BY AmountsAre
<1>2. SpentOn(t, h) \in Int
  BY CallsCostNat
<1>3. Max({t.hold[h].actual, SpentOn(t, h)}) \in Int
  BY <1>1, <1>2, OfTwo
<1> QED BY <1>1, <1>2, <1>3 DEF CommittedBy

\* and what its version has room for.
LEMMA RoomIs ==
    ASSUME NEW t \in TablesType
    PROVE  VersionRoom(t) \in Int
<1> DEFINE f == [h \in Hold |-> CommittedBy(t, h)]
<1>1. \A h \in Hold : f[h] \in Int
  BY CommittedIs
<1>2. Written(t) \in SUBSET Hold /\ IsFiniteSet(Written(t))
  BY RowsAreFinite, FS_Subset DEF Written
<1>3. VersionRoom(t) = Approved + TopUpsOf(t) - SumFunctionOnSet(f, Written(t))
  BY DEF VersionRoom
<1> HIDE DEF f
<1>4. SumFunctionOnSet(f, Written(t)) \in Int
  BY <1>1, <1>2, SumType
<1>5. TopUpsOf(t) \in Int /\ Approved \in Int
  <2>1. TopUpsOf(t) \in Nat
    BY TopUpsAre
  <2>2. Approved \in Nat
    BY SomePrices
  <2> QED BY <2>1, <2>2
<1> QED BY <1>3, <1>4, <1>5

(***************************************************************************)
(* The step that comes back, and the answers to a stop.                    *)
(***************************************************************************)

\* resume keeps the order where nothing else works for the step.
LEMMA ResumedKeeps ==
    ASSUME NEW t, OrderKept(t), NEW h \in Hold, t.hold[h].lease # "none",
           \A g \in Hold \ {h} : t.hold[g].lease # "live",
           NEW left \in Int, NEW keep \in BOOLEAN, OneActive(Resumed(t, h, left, keep))
    PROVE  OrderKept(Resumed(t, h, left, keep))
<1> DEFINE v == t.hold[h].absent \/ keep
           kept == [t EXCEPT !.hold[h].absent = v]
<1>1. /\ t \in TablesType /\ t.hold[h].absent \in BOOLEAN
      /\ Resumed(t, h, left, keep)
          = IF WrittenOff(t) THEN t
            ELSE IF left <= 0 THEN AtSpentHold(t, h)
            ELSE IF Reservable(t, left) THEN Reserved(kept, left)
            ELSE t
  <2>1. t.hold \in [Hold -> LooseRow] /\ t \in TablesType
    BY TablesAre DEF OrderKept
  <2>2. t.hold[h].absent \in BOOLEAN
    BY <2>1 DEF LooseRow
  <2>3. [t EXCEPT !.hold[h].absent = @ \/ keep] = kept
    BY <2>1 DEF TablesType
  <2> QED BY <2>1, <2>2, <2>3 DEF Resumed
<1>2. v \in BOOLEAN /\ (t.hold[h].absent => v)
  BY <1>1
<1> HIDE DEF v
<1>3. Touches(t, kept, h)
  BY <1>2, AbsentTouches
<1> HIDE DEF kept
<1>4. OrderKept(kept) /\ Written(kept) = Written(t)
  BY <1>3, QuietKeeps, FollowsKeepsOrder DEF Touches, Quiet
<1>5. OrderKept(AtSpentHold(t, h))
  BY AtSpentHoldKeeps
<1>6. CASE ~ WrittenOff(t) /\ ~ (left <= 0) /\ Reservable(t, left)
  <2>1. Resumed(t, h, left, keep) = Reserved(kept, left)
    BY <1>1, <1>6
  <2>2. NextHold(kept) \in Hold
    BY <1>4, <1>6 DEF Reservable, NextHold
  <2> QED BY <1>4, <2>1, <2>2, ReservedKeeps
<1> QED BY <1>1, <1>5, <1>6

\* The latest ask answered.
LEMMA AnsweredIs ==
    ASSUME NEW t \in TablesType, t.asks # <<>>, NEW kind \in {"top_up", "end"},
           NEW amount \in Nat, NEW found \in {"none", "held", "closed"}
    PROVE  /\ Answered(t, kind, amount, found)
                = WithRun(t, AnsweredAsks(t, kind, amount, found), t.run)
           /\ AnsweredAsks(t, kind, amount, found) \in Seq(AskRow)
           /\ Len(t.asks) \in DOMAIN t.asks
           /\ DOMAIN AnsweredAsks(t, kind, amount, found) = DOMAIN t.asks
           /\ Len(AnsweredAsks(t, kind, amount, found)) = Len(t.asks)
           /\ \A i \in DOMAIN t.asks :
                AnsweredAsks(t, kind, amount, found)[i]
                    = IF i = Len(t.asks)
                      THEN [of |-> t.asks[i].of, answer |-> kind, amount |-> amount,
                            found |-> found]
                      ELSE t.asks[i]
<1> DEFINE n == Len(t.asks)
           r == [of |-> t.asks[n].of, answer |-> kind, amount |-> amount, found |-> found]
           a == AnsweredAsks(t, kind, amount, found)
           u == Answered(t, kind, amount, found)
<1>1. /\ t.asks \in Seq(AskRow) /\ n \in Nat /\ DOMAIN t.asks = 1 .. n
      /\ \A i \in DOMAIN t.asks : t.asks[i] \in AskRow
  BY TablesAre, AsksAre
<1>2. n \in DOMAIN t.asks
  BY <1>1
<1>3. t.asks[n] \in AskRow
  BY <1>1, <1>2
<1>4. r \in AskRow
  BY <1>3 DEF AskRow
<1>5. a = [t.asks EXCEPT ![n] = r]
  BY DEF AnsweredAsks
<1>6. t = [hold |-> t.hold, call |-> t.call, asks |-> t.asks, run |-> t.run,
           envelope |-> t.envelope]
  BY TablesAre
<1>7. u = [t EXCEPT !.asks[n].answer = kind, !.asks[n].amount = amount, !.asks[n].found = found]
  BY DEF Answered
<1> HIDE DEF u, n
<1>8. /\ u = [hold |-> t.hold, call |-> t.call, asks |-> u.asks, run |-> t.run,
              envelope |-> t.envelope]
      /\ u.asks = [t.asks EXCEPT ![n].answer = kind, ![n].amount = amount, ![n].found = found]
  BY <1>6, <1>7
<1>9. u.asks = [t.asks EXCEPT ![n] = [@ EXCEPT !.answer = kind, !.amount = amount, !.found = found]]
  BY <1>1, <1>2, <1>8
<1>10. [t.asks[n] EXCEPT !.answer = kind, !.amount = amount, !.found = found] = r
  <2>1. t.asks[n] = [of |-> t.asks[n].of, answer |-> t.asks[n].answer,
                     amount |-> t.asks[n].amount, found |-> t.asks[n].found]
    BY <1>3 DEF AskRow
  <2> DEFINE q == t.asks[n]
  <2> HIDE DEF q
  <2>2. q = [of |-> q.of, answer |-> q.answer, amount |-> q.amount, found |-> q.found]
    BY <2>1 DEF q
  <2> DEFINE w == [q EXCEPT !.answer = kind, !.amount = amount, !.found = found]
  <2>3. w = [q EXCEPT !.answer = kind, !.amount = amount, !.found = found]
    OBVIOUS
  <2> HIDE DEF w
  <2>4. w = [of |-> q.of, answer |-> kind, amount |-> amount, found |-> found]
    BY <2>2, <2>3
  <2> QED BY <2>4 DEF q, w
<1>11. u.asks = a
  BY <1>5, <1>9, <1>10
<1> HIDE DEF r, a
<1>12. /\ a \in Seq(AskRow) /\ DOMAIN a = DOMAIN t.asks /\ Len(a) = n
       /\ \A i \in DOMAIN t.asks : a[i] = IF i = n THEN r ELSE t.asks[i]
  BY <1>1, <1>2, <1>4, <1>5
<1>13. u = WithRun(t, a, t.run)
  BY <1>8, <1>11 DEF WithRun
<1> QED BY <1>2, <1>12, <1>13 DEF u, a, n, r

\* An answer keeps the order: the ask is still of the same hold.
LEMMA AnsweredKeeps ==
    ASSUME NEW t, OrderKept(t), t.asks # <<>>, NEW kind \in {"top_up", "end"},
           NEW amount \in Nat, NEW found \in {"none", "held", "closed"}
    PROVE  /\ OrderKept(Answered(t, kind, amount, found))
           /\ HoldsFollow(t, Answered(t, kind, amount, found))
           /\ Answered(t, kind, amount, found).hold = t.hold
           /\ Answered(t, kind, amount, found).call = t.call
           /\ Answered(t, kind, amount, found).asks # <<>>
<1> DEFINE a == AnsweredAsks(t, kind, amount, found)
<1>1. t \in TablesType
  BY DEF OrderKept
<1>2. /\ Answered(t, kind, amount, found) = WithRun(t, a, t.run)
      /\ a \in Seq(AskRow) /\ DOMAIN a = DOMAIN t.asks
      /\ \A i \in DOMAIN t.asks : a[i].of = t.asks[i].of
      /\ Len(t.asks) \in DOMAIN a
  <2>1. /\ Answered(t, kind, amount, found) = WithRun(t, a, t.run)
        /\ a \in Seq(AskRow) /\ DOMAIN a = DOMAIN t.asks /\ Len(t.asks) \in DOMAIN t.asks
    BY <1>1, AnsweredIs
  <2>2. \A i \in DOMAIN t.asks :
            a[i] = IF i = Len(t.asks)
                   THEN [of |-> t.asks[i].of, answer |-> kind, amount |-> amount,
                         found |-> found]
                   ELSE t.asks[i]
    BY <1>1, AnsweredIs
  <2> HIDE DEF a
  <2>3. \A i \in DOMAIN t.asks : a[i].of = t.asks[i].of
    <3> SUFFICES ASSUME NEW i \in DOMAIN t.asks PROVE a[i].of = t.asks[i].of
      OBVIOUS
    <3>1. CASE i = Len(t.asks)
      <4>1. a[i] = [of |-> t.asks[i].of, answer |-> kind, amount |-> amount, found |-> found]
        BY <2>2, <3>1
      <4> QED BY <4>1
    <3>2. CASE i # Len(t.asks)
      <4>1. a[i] = t.asks[i]
        BY <2>2, <3>2
      <4> QED BY <4>1
    <3> QED BY <3>1, <3>2
  <2> QED BY <2>1, <2>3
<1> HIDE DEF a
<1>3. t.run \in Runs
  BY <1>1, TablesAre DEF Runs
<1>4. \A i \in DOMAIN a : t.hold[a[i].of].lease = "over"
  BY <1>2 DEF OrderKept, AsksAreOver
<1>5. OrderKept(WithRun(t, a, t.run)) /\ HoldsFollow(t, WithRun(t, a, t.run))
  BY <1>2, <1>3, <1>4, WithRunKeeps DEF OrderKept, WaitsAlone
<1> QED BY <1>2, <1>5 DEF WithRun

\* A count's fields are of their types.
LEMMA CountIs ==
    ASSUME CountType
    PROVE  CountTyped
  BY DEF CountType, CountTyped

\* raiseHold, as a row, an envelope and a run.
LEMMA RaisedIs ==
    ASSUME NEW t \in TablesType, CountTyped
    PROVE  /\ Raised(t) = WithRun(With(t, count.of, RaisedRow(t.hold[count.of]),
                                       RaisedEnvelope(t.envelope)), t.asks, "planned")
           /\ RaisedRow(t.hold[count.of]) \in LooseRow
           /\ RaisedEnvelope(t.envelope) \in EnvelopeType
<1> DEFINE h == count.of
           u == Raised(t)
           e == t.envelope
<1>1. /\ h \in Hold /\ count.amount \in Int /\ count.spent \in Int
      /\ t.hold \in [Hold -> LooseRow] /\ t.hold[h] \in LooseRow /\ e \in EnvelopeType
  <2>1. t.hold \in [Hold -> LooseRow] /\ e \in EnvelopeType
    BY TablesAre
  <2> QED BY <2>1 DEF CountTyped
<1>2. RaisedRow(t.hold[h]) \in LooseRow
  BY <1>1 DEF RaisedRow, LooseRow
<1>3. RaisedEnvelope(e) \in EnvelopeType
  BY <1>1 DEF RaisedEnvelope, EnvelopeType
<1>4. /\ t = [hold |-> t.hold, call |-> t.call, asks |-> t.asks, run |-> t.run,
              envelope |-> t.envelope]
      /\ e = [held |-> e.held, actual |-> e.actual, maximum |-> e.maximum]
  BY TablesAre
<1>5. u = [t EXCEPT !.hold[h].amount = @ + count.amount - count.spent,
                    !.envelope.maximum = @ + count.amount,
                    !.envelope.held = @ + count.amount - count.spent,
                    !.envelope.actual = @ + count.spent,
                    !.run = "planned"]
  BY DEF Raised
<1> HIDE DEF u
<1>6. /\ u = [hold |-> u.hold, call |-> t.call, asks |-> t.asks, run |-> "planned",
              envelope |-> u.envelope]
      /\ u.hold = [t.hold EXCEPT ![h].amount = @ + count.amount - count.spent]
      /\ u.envelope = [e EXCEPT !.maximum = @ + count.amount,
                                !.held = @ + count.amount - count.spent,
                                !.actual = @ + count.spent]
  BY <1>4, <1>5
<1>7. u.envelope = RaisedEnvelope(e)
  BY <1>4, <1>6 DEF RaisedEnvelope
<1>8. u.hold = [t.hold EXCEPT ![h] = RaisedRow(t.hold[h])]
  BY <1>1, <1>6 DEF RaisedRow
<1>9. u = WithRun(With(t, h, RaisedRow(t.hold[h]), RaisedEnvelope(e)), t.asks, "planned")
  BY <1>6, <1>7, <1>8 DEF WithRun, With
<1> QED BY <1>2, <1>3, <1>9 DEF u

\* raiseHold keeps the order: its hold was written.
LEMMA RaisedKeeps ==
    ASSUME NEW t, OrderKept(t), CountTyped, t.hold[count.of].state # "none"
    PROVE  OrderKept(Raised(t)) /\ HoldsFollow(t, Raised(t))
<1> DEFINE h == count.of
           r == RaisedRow(t.hold[h])
           e == RaisedEnvelope(t.envelope)
           w == With(t, h, r, e)
<1>1. h \in Hold /\ t \in TablesType /\ RowKept(t.hold[h]) /\ t.hold[h] \in LooseRow
  BY TablesAre DEF CountTyped, OrderKept
<1>2. /\ Raised(t) = WithRun(w, t.asks, "planned") /\ r \in LooseRow /\ e \in EnvelopeType
  BY <1>1, RaisedIs
<1>3. RowFollows(t.hold[h], r)
  <2> DEFINE o == t.hold[h]
  <2>1. r = [o EXCEPT !.amount = r.amount] /\ o \in LooseRow /\ RowKept(o) /\ o.state # "none"
    BY <1>1 DEF RaisedRow, LooseRow
  <2> HIDE DEF o, r
  <2>2. RowFollows(o, r)
    BY <1>2, <2>1, AmountFollows
  <2> QED BY <2>2 DEF o
<1> HIDE DEF r, e, h
<1>4. Quiet(t, w)
  BY <1>1, <1>2, <1>3, WithQuiet
<1> HIDE DEF w
<1>5. OrderKept(w) /\ w.asks = t.asks
  BY <1>4, QuietKeeps DEF Quiet
<1>6. t.asks \in Seq(AskRow)
  BY <1>1, TablesAre
<1>7. OrderKept(WithRun(w, t.asks, "planned")) /\ HoldsFollow(w, WithRun(w, t.asks, "planned"))
  BY <1>5, <1>6, WithRunKeeps DEF OrderKept, AsksAreOver, Runs
<1> QED BY <1>2, <1>4, <1>7, HoldsFollowOn DEF Quiet

\* endHeld, as a row and an envelope.
LEMMA EndedIs ==
    ASSUME NEW t \in TablesType, CountTyped
    PROVE  /\ Ended(t) = With(t, count.of, CountedRow(t.hold[count.of]),
                              CountedEnvelope(t, count.of))
           /\ CountedRow(t.hold[count.of]) \in LooseRow
           /\ CountedEnvelope(t, count.of) \in EnvelopeType
<1> DEFINE h == count.of
           u == Ended(t)
           e == t.envelope
<1>1. /\ h \in Hold /\ count.spent \in Int
      /\ t.hold \in [Hold -> LooseRow] /\ t.hold[h] \in LooseRow /\ e \in EnvelopeType
  BY TablesAre DEF CountTyped
<1>2. CountedRow(t.hold[h]) \in LooseRow
  BY <1>1 DEF CountedRow, LooseRow
<1>3. CountedEnvelope(t, h) \in EnvelopeType
  BY <1>1 DEF CountedEnvelope, EnvelopeType, LooseRow
<1>4. /\ t = [hold |-> t.hold, call |-> t.call, asks |-> t.asks, run |-> t.run,
              envelope |-> t.envelope]
      /\ e = [held |-> e.held, actual |-> e.actual, maximum |-> e.maximum]
  BY TablesAre
<1>5. u = [t EXCEPT !.hold[h].state = "abandoned", !.hold[h].ended = TRUE,
                    !.envelope.held = @ - t.hold[h].amount,
                    !.envelope.actual = @ + count.spent]
  BY DEF Ended
<1> HIDE DEF u
<1>6. /\ u = [hold |-> u.hold, call |-> t.call, asks |-> t.asks, run |-> t.run,
              envelope |-> u.envelope]
      /\ u.hold = [t.hold EXCEPT ![h].state = "abandoned", ![h].ended = TRUE]
      /\ u.envelope = [e EXCEPT !.held = @ - t.hold[h].amount, !.actual = @ + count.spent]
  BY <1>4, <1>5
<1>7. u.envelope = CountedEnvelope(t, h)
  BY <1>4, <1>6 DEF CountedEnvelope
<1>8. u.hold = [t.hold EXCEPT ![h] = CountedRow(t.hold[h])]
  BY <1>1, <1>6 DEF CountedRow
<1>9. u = With(t, h, CountedRow(t.hold[h]), CountedEnvelope(t, h))
  BY <1>6, <1>7, <1>8 DEF With
<1> QED BY <1>2, <1>3, <1>9 DEF u

\* endHeld keeps the order: the lease of its hold is over.
LEMMA EndedKeeps ==
    ASSUME NEW t, OrderKept(t), CountTyped, t.hold[count.of].state # "none",
           t.hold[count.of].lease \notin Running
    PROVE  Quiet(t, Ended(t))
<1> DEFINE h == count.of
           r == CountedRow(t.hold[h])
           e == CountedEnvelope(t, h)
<1>1. h \in Hold /\ t \in TablesType /\ RowKept(t.hold[h]) /\ t.hold[h] \in LooseRow
  BY TablesAre DEF CountTyped, OrderKept
<1>2. /\ Ended(t) = With(t, h, r, e) /\ r \in LooseRow /\ e \in EnvelopeType
  BY <1>1, EndedIs
<1>3. RowFollows(t.hold[h], r)
  BY <1>1, <1>2 DEF RowFollows, CountedRow, RowKept, NoHold, LooseRow
<1> HIDE DEF r, e, h
<1> QED BY <1>1, <1>2, <1>3, WithQuiet

\* releaseUnstarted and the end of the run.
LEMMA RunEndedIs ==
    ASSUME NEW t, OrderKept(t), t.asks # <<>>, NEW h \in Hold
    PROVE  LET a == Answered(t, "end", 0, "none") IN
           /\ OrderKept(a) /\ HoldsFollow(t, a)
           /\ Quiet(a, Unstarted(a, h)) /\ OrderKept(Unstarted(a, h))
           /\ RunEnded(t, h) = WithRun(Unstarted(a, h), a.asks, "cancelled")
<1> DEFINE a == Answered(t, "end", 0, "none")
           w == Unstarted(a, h)
<1>1. OrderKept(a) /\ HoldsFollow(t, a)
  BY AnsweredKeeps
<1>2. RunEnded(t, h) = [w EXCEPT !.run = "cancelled"]
  BY DEF RunEnded
<1> HIDE DEF a
<1>3. Quiet(a, w)
  BY <1>1, UnstartedQuiet
<1> HIDE DEF w
<1>4. OrderKept(w) /\ w.asks = a.asks
  BY <1>1, <1>3, QuietKeeps DEF Quiet
<1>5. w = [hold |-> w.hold, call |-> w.call, asks |-> w.asks, run |-> w.run,
           envelope |-> w.envelope]
  BY <1>4, TablesAre DEF OrderKept
<1>6. RunEnded(t, h) = WithRun(w, a.asks, "cancelled")
  BY <1>2, <1>4, <1>5 DEF WithRun
<1> QED BY <1>1, <1>3, <1>4, <1>6 DEF a, w

\* So does the end of the run.
LEMMA RunEndedKeeps ==
    ASSUME NEW t, OrderKept(t), t.asks # <<>>, NEW h \in Hold
    PROVE  OrderKept(RunEnded(t, h)) /\ HoldsFollow(t, RunEnded(t, h))
<1> DEFINE a == Answered(t, "end", 0, "none")
           w == Unstarted(a, h)
<1>1. /\ OrderKept(a) /\ HoldsFollow(t, a) /\ Quiet(a, w) /\ OrderKept(w)
      /\ RunEnded(t, h) = WithRun(w, a.asks, "cancelled")
  BY RunEndedIs
<1> HIDE DEF a, w
<1>2. a.asks \in Seq(AskRow) /\ w.asks = a.asks
  BY <1>1, TablesAre DEF OrderKept, Quiet
<1>3. /\ OrderKept(WithRun(w, a.asks, "cancelled"))
      /\ HoldsFollow(w, WithRun(w, a.asks, "cancelled"))
  <2>1. \A i \in DOMAIN a.asks : w.hold[a.asks[i].of].lease = "over"
    BY <1>1, <1>2 DEF OrderKept, AsksAreOver
  <2>2. "cancelled" \in Runs
    BY DEF Runs
  <2> QED BY <1>1, <1>2, <2>1, <2>2, WithRunKeeps
<1> QED BY <1>1, <1>3, HoldsFollowOn DEF Quiet

(***************************************************************************)
(* Rewriting a call, and a hold's marks with it.                           *)
(***************************************************************************)

\* A call settled at its cost.
LEMMA PricedIs ==
    ASSUME NEW t \in TablesType, NEW c \in Call, NEW cost \in 0 .. CallMax
    PROVE  /\ [t EXCEPT !.call[c].state = "settled", !.call[c].actual = cost]
                = WithCalls(t, PricedCalls(t, c, cost))
           /\ PricedCalls(t, c, cost) \in [Call -> CallRow]
<1> DEFINE u == [t EXCEPT !.call[c].state = "settled", !.call[c].actual = cost]
<1>1. t.call \in [Call -> CallRow] /\ t.call[c] \in CallRow
  BY TablesAre
<1>2. t = [hold |-> t.hold, call |-> t.call, asks |-> t.asks, run |-> t.run,
           envelope |-> t.envelope]
  BY TablesAre
<1>3. u = [t EXCEPT !.call[c].state = "settled", !.call[c].actual = cost]
  OBVIOUS
<1> HIDE DEF u
<1>4. /\ u = [hold |-> t.hold, call |-> u.call, asks |-> t.asks, run |-> t.run,
              envelope |-> t.envelope]
      /\ u.call = [t.call EXCEPT ![c].state = "settled", ![c].actual = cost]
  BY <1>2, <1>3
<1>5. u.call = PricedCalls(t, c, cost)
  BY <1>1, <1>4 DEF PricedCalls
<1>6. [t.call[c] EXCEPT !.state = "settled", !.actual = cost] \in CallRow
  BY <1>1 DEF CallRow
<1>7. PricedCalls(t, c, cost) \in [Call -> CallRow]
  BY <1>1, <1>6 DEF PricedCalls
<1> QED BY <1>4, <1>5, <1>7 DEF WithCalls, u

\* A call reserved.
LEMMA NewCallIs ==
    ASSUME NEW t \in TablesType, NEW n \in Call, NEW h \in Hold
    PROVE  /\ [t EXCEPT !.call[n] = [NoCall EXCEPT !.state = "reserved", !.of = h]]
                = WithCalls(t, NewCalls(t, n, h))
           /\ NewCalls(t, n, h) \in [Call -> CallRow]
<1>1. t.call \in [Call -> CallRow]
  BY TablesAre
<1>2. t = [hold |-> t.hold, call |-> t.call, asks |-> t.asks, run |-> t.run,
           envelope |-> t.envelope]
  BY TablesAre
<1>3. [NoCall EXCEPT !.state = "reserved", !.of = h] \in CallRow
  <2>1. 0 \in 0 .. CallMax /\ 1 \in Hold
    BY SomeBounds, SomePrices DEF Hold
  <2>2. NoCall \in CallRow
    BY <2>1 DEF NoCall, CallRow
  <2> QED BY <2>2 DEF CallRow
<1>4. NewCalls(t, n, h) \in [Call -> CallRow]
  BY <1>1, <1>3 DEF NewCalls
<1> QED BY <1>2, <1>4 DEF WithCalls, NewCalls

\* A call with no answer, its step marked.
LEMMA UnansweredIs ==
    ASSUME NEW t \in TablesType, NEW c \in Call, NEW h \in Hold, NEW m \in BOOLEAN
    PROVE  /\ Unanswered(t, c, h, m)
                = With(WithCalls(t, UnansweredCalls(t, c)), h,
                       [t.hold[h] EXCEPT !.marked = t.hold[h].marked \/ m], t.envelope)
           /\ UnansweredCalls(t, c) \in [Call -> CallRow]
           /\ [t.hold[h] EXCEPT !.marked = t.hold[h].marked \/ m] \in LooseRow
           /\ t.hold[h].marked \in BOOLEAN
<1> DEFINE u == Unanswered(t, c, h, m)
           r == [t.hold[h] EXCEPT !.marked = t.hold[h].marked \/ m]
<1>1. /\ t.call \in [Call -> CallRow] /\ t.call[c] \in CallRow
      /\ t.hold \in [Hold -> LooseRow] /\ t.hold[h] \in LooseRow
  BY TablesAre
<1>2. t = [hold |-> t.hold, call |-> t.call, asks |-> t.asks, run |-> t.run,
           envelope |-> t.envelope]
  BY TablesAre
<1>3. t.hold[h].marked \in BOOLEAN
  BY <1>1 DEF LooseRow
<1>4. t.hold[h].marked \/ m \in BOOLEAN
  BY <1>3
<1>5. r \in LooseRow
  BY <1>1, <1>4 DEF LooseRow
<1>6. u = [t EXCEPT !.call[c].state = "unknown", !.call[c].lost = TRUE,
                    !.hold[h].marked = @ \/ m]
  BY DEF Unanswered
<1> HIDE DEF u
<1>7. /\ u = [hold |-> u.hold, call |-> u.call, asks |-> t.asks, run |-> t.run,
              envelope |-> t.envelope]
      /\ u.call = [t.call EXCEPT ![c].state = "unknown", ![c].lost = TRUE]
      /\ u.hold = [t.hold EXCEPT ![h].marked = @ \/ m]
  BY <1>2, <1>6
<1>8. u.call = UnansweredCalls(t, c)
  BY <1>1, <1>7 DEF UnansweredCalls
<1>9. u.hold = [t.hold EXCEPT ![h] = r]
  BY <1>1, <1>7
<1>10. [t.call[c] EXCEPT !.state = "unknown", !.lost = TRUE] \in CallRow
  BY <1>1 DEF CallRow
<1>11. UnansweredCalls(t, c) \in [Call -> CallRow]
  BY <1>1, <1>10 DEF UnansweredCalls
<1> HIDE DEF r
<1>12. u = With(WithCalls(t, UnansweredCalls(t, c)), h, r, t.envelope)
  BY <1>7, <1>8, <1>9 DEF With, WithCalls
<1> QED BY <1>3, <1>5, <1>11, <1>12 DEF u, r

\* A step claimed or not dispatched is marked without disturbing the order.
LEMMA UnansweredTouches ==
    ASSUME NEW t, OrderKept(t), NEW c \in Call, NEW h \in Hold, NEW m \in BOOLEAN,
           m => t.hold[h].lease # "none"
    PROVE  /\ Touches(t, Unanswered(t, c, h, m), h)
           /\ Unanswered(t, c, h, m).hold[h]
                = [t.hold[h] EXCEPT !.marked = t.hold[h].marked \/ m]
           /\ Unanswered(t, c, h, m).call = UnansweredCalls(t, c)
<1> DEFINE r == [t.hold[h] EXCEPT !.marked = t.hold[h].marked \/ m]
           v == WithCalls(t, UnansweredCalls(t, c))
<1>1. t \in TablesType /\ t.hold[h] \in LooseRow /\ RowKept(t.hold[h]) /\ t.envelope \in EnvelopeType
  BY TablesAre DEF OrderKept
<1>2. /\ Unanswered(t, c, h, m) = With(v, h, r, t.envelope) /\ r \in LooseRow
      /\ UnansweredCalls(t, c) \in [Call -> CallRow]
  BY <1>1, UnansweredIs
<1>3. RowFollows(t.hold[h], r)
  BY <1>1, <1>2 DEF RowFollows, RowKept, NoHold, LooseRow, Running
<1>4. Quiet(t, v) /\ v.hold = t.hold /\ v.call = UnansweredCalls(t, c)
  BY <1>2, WithCallsQuiet DEF WithCalls
<1> HIDE DEF r, v
<1>5. OrderKept(v) /\ RowFollows(v.hold[h], r)
  BY <1>3, <1>4, QuietKeeps
<1>6. /\ Touches(v, With(v, h, r, t.envelope), h)
      /\ With(v, h, r, t.envelope).hold[h] = r
  BY <1>1, <1>5, WithTouches
<1>7. Touches(t, v, h)
  BY <1>4 DEF Touches
<1>8. With(v, h, r, t.envelope).call = UnansweredCalls(t, c)
  BY <1>4 DEF With
<1>9. Touches(t, With(v, h, r, t.envelope), h)
  BY <1>6, <1>7, TouchesOn
<1> QED BY <1>2, <1>6, <1>8, <1>9 DEF r

(***************************************************************************)
(* The order is kept by every action.                                      *)
(***************************************************************************)

\* What a transaction commits are the tables it passed on.
LEMMA CommitIs ==
    ASSUME NEW t \in TablesType, Commit(t)
    PROVE  Tables' = t /\ OneActive(t) /\ WaitHolds(t)
<1>1. t = [hold |-> t.hold, call |-> t.call, asks |-> t.asks, run |-> t.run,
           envelope |-> t.envelope]
  BY TablesAre
<1> QED BY <1>1 DEF Commit, Tables, Admitted

\* A transaction under the lock leaves no count and no sweep to disturb.
LEMMA AlterKeepsOrder ==
    ASSUME OrderInv, NEW t, Alter(t), OrderKept(t)
    PROVE  OrderInv'
<1>1. Tables' = t
  BY CommitIs DEF OrderKept, Alter
<1>2. OrderKept(Tables)'
  BY <1>1
<1>3. count = Uncounting /\ count' = count /\ sweep' = sweep
  BY DEF Alter, Alone
<1>4. CountType'
  BY <1>3 DEF OrderInv, CountType
<1>5. CountStands'
  BY <1>3 DEF CountStands, Uncounting
<1> QED BY <1>2, <1>4, <1>5 DEF OrderInv

\* Tables as a value, and the rows in it.
LEMMA OrderIs ==
    ASSUME OrderInv
    PROVE  /\ OrderKept(Tables) /\ Tables \in TablesType
           /\ Tables.hold = hold /\ Tables.call = call /\ Tables.asks = asks
           /\ Tables.run = run /\ Tables.envelope = envelope
  BY DEF OrderInv, OrderKept, Tables

\* A pickup claims the newest hold, with every other lease fenced.
LEMMA PickUpOrder ==
    ASSUME OrderInv, NEW h \in Hold, PickUp(h)
    PROVE  OrderInv'
<1> DEFINE t == Tables
           f == Fenced(t, h)
<1>1. OrderKept(t) /\ t.hold = hold
  BY OrderIs
<1>2. /\ hold[h].state = "held" /\ hold[h].lease = "none"
      /\ \A g \in Hold \ {h} : hold[g].lease # "live"
      /\ Alter(Claimed(f, h))
  BY DEF PickUp, TaskFree
<1> HIDE DEF t
<1>3. /\ Quiet(t, f)
      /\ \A g \in Hold : IF g # h /\ t.hold[g].lease = "lapsed" THEN f.hold[g].lease = "over"
                         ELSE f.hold[g] = t.hold[g]
  BY <1>1, FencedQuiet
<1> HIDE DEF f
<1>4. OrderKept(f)
  BY <1>1, <1>3, QuietKeeps
<1>5. f.hold[h].state = "held" /\ f.hold[h].lease = "none"
  BY <1>1, <1>2, <1>3
<1>6. \A g \in Hold : f.hold[g].lease \notin Running
  BY <1>1, <1>2, <1>3 DEF Running
<1>7. \A g \in Hold : g > h => f.hold[g].state = "none"
  <2> SUFFICES ASSUME NEW g \in Hold, g > h, f.hold[g].state # "none" PROVE FALSE
    OBVIOUS
  <2>1. f.hold[h].absent
    <3>1. h < g
      BY DEF Hold
    <3> QED BY <1>4, <1>5, <3>1 DEF OrderKept, HoldsInOrder
  <2> QED BY <1>4, <1>5, <2>1 DEF OrderKept, RowKept
<1>8. OrderKept(Claimed(f, h))
  BY <1>4, <1>5, <1>6, <1>7, ClaimedKeeps
<1> QED BY <1>2, <1>8, AlterKeepsOrder

\* A claim changes neither what is held nor what is proved absent.
LEMMA ClaimedActive ==
    ASSUME NEW t \in TablesType, NEW h \in Hold, OneActive(Claimed(t, h))
    PROVE  OneActive(t)
<1> DEFINE u == Claimed(t, h)
           r == ClaimedRow(t.hold[h])
<1>1. t \in TablesType /\ t.hold[h] \in LooseRow /\ t.envelope \in EnvelopeType
  BY TablesAre DEF OrderKept
<1>2. u = WithRun(With(t, h, r, t.envelope), t.asks, "claimed") /\ r \in LooseRow
  BY <1>1, ClaimedIs
<1>3. r.state = t.hold[h].state /\ r.absent = t.hold[h].absent
  BY <1>1 DEF ClaimedRow, LooseRow
<1> HIDE DEF r, u
<1>4. u.hold = With(t, h, r, t.envelope).hold
  BY <1>2 DEF WithRun
<1>5. \A g \in Hold : u.hold[g].state = t.hold[g].state /\ u.hold[g].absent = t.hold[g].absent
  BY <1>1, <1>2, <1>3, <1>4, WithIs
<1>6. {g \in HeldIn(u) : ~ u.hold[g].absent} = {g \in HeldIn(t) : ~ t.hold[g].absent}
  BY <1>5 DEF HeldIn
<1> QED BY <1>6 DEF OneActive, u

\* A replacing pickup, of a hold whose lease is over: its own hold first.
LEMMA OwnClosed ==
    ASSUME OrderInv, NEW h \in Hold, PickUpReplacing(h)
    PROVE  LET own == IF hold[h].state # "held" THEN Tables
                      ELSE Classified(IF hold[h].lease = "lapsed" THEN Retired(Tables, h, "open")
                                      ELSE Tables, h)
           IN /\ Touches(Tables, own, h)
              /\ own.hold[h].lease \notin Running
              /\ own.hold[h].lease = "none" => hold[h].lease = "none"
              /\ hold[h].lease = "none" => own.hold[h].lease = "none"
<1> DEFINE t == Tables
           w == IF hold[h].lease = "lapsed" THEN Retired(t, h, "open") ELSE t
           own == IF hold[h].state # "held" THEN t ELSE Classified(w, h)
<1>1. OrderKept(t) /\ t.hold = hold
  BY OrderIs
<1>2. /\ ~ hold[h].marked
      /\ hold[h].state = "held" => hold[h].lease \in {"lapsed", "over"}
  BY DEF PickUpReplacing, Claimable, Replaceable
<1> HIDE DEF t
<1>3. Touches(t, t, h)
  BY <1>1, FollowsItself DEF Touches
<1>4. CASE hold[h].state # "held"
  <2>1. hold[h].lease \notin Running
    BY <1>1, <1>2, <1>4 DEF OrderKept, RowKept
  <2> QED BY <1>1, <1>3, <1>4, <2>1 DEF t
<1>5. CASE hold[h].state = "held"
  <2>1. Touches(t, w, h) /\ w.hold[h].lease = "over"
    <3>1. CASE hold[h].lease = "lapsed"
      <4>1. t.hold[h].lease # "none"
        BY <1>1, <3>1
      <4>2. /\ Touches(t, Retired(t, h, "open"), h)
            /\ Retired(t, h, "open").hold[h].lease = "over"
        BY <1>1, <4>1, RetiredTouches
      <4> QED BY <3>1, <4>2
    <3>2. CASE hold[h].lease = "over"
      BY <1>1, <1>3, <3>2
    <3> QED BY <1>2, <1>5, <3>1, <3>2
  <2> HIDE DEF w
  <2>2. OrderKept(w)
    BY <1>1, <2>1, QuietKeeps DEF Touches
  <2>3. Touches(w, Classified(w, h), h) /\ Classified(w, h).hold[h].lease = "over"
    BY <2>1, <2>2, ClassifiedTouches
  <2>4. Touches(t, Classified(w, h), h)
    BY <2>1, <2>3, TouchesOn
  <2>5. own = Classified(w, h)
    BY <1>5
  <2> HIDE DEF own
  <2>6. Touches(t, own, h) /\ own.hold[h].lease = "over"
    BY <2>3, <2>4, <2>5
  <2> QED BY <1>2, <1>5, <2>6 DEF own, w, t, Running
<1> QED BY <1>4, <1>5

\* A replacing pickup reserves the next, and claims that one.
LEMMA PickUpReplacingOrder ==
    ASSUME OrderInv, NEW h \in Hold, PickUpReplacing(h)
    PROVE  OrderInv'
<1> DEFINE t == Tables
           own == IF hold[h].state # "held" THEN t
                  ELSE Classified(IF hold[h].lease = "lapsed" THEN Retired(t, h, "open")
                                  ELSE t, h)
           f == Fenced(own, h)
           left == Left(own, h)
           size == Min({left, VersionRoom(own)})
<1>1. OrderKept(t) /\ t.hold = hold
  BY OrderIs
<1>2. /\ Touches(t, own, h) /\ own.hold[h].lease \notin Running
      /\ own.hold[h].lease = "none" => hold[h].lease = "none"
  BY OwnClosed
<1>3. /\ \A g \in Hold \ {h} : hold[g].lease # "live"
      /\ IF size <= 0 THEN hold[h].lease # "none" /\ Alter(AtSpentHold(f, h))
         ELSE Reservable(own, size) /\ Alter(Claimed(Reserved(f, size), NextHold(f)))
  BY DEF PickUpReplacing, TaskFree
<1> HIDE DEF t, own
<1>4. OrderKept(own) /\ own \in TablesType
  BY <1>1, <1>2, QuietKeeps DEF Touches, OrderKept
<1>5. size \in Int
  <2>1. left \in Int
    BY <1>4, AmountsAre
  <2>2. VersionRoom(own) \in Int
    BY <1>4, RoomIs
  <2> QED BY <2>1, <2>2, OfTwo
<1> HIDE DEF size
<1>6. /\ Quiet(own, f)
      /\ \A g \in Hold : IF g # h /\ own.hold[g].lease = "lapsed" THEN f.hold[g].lease = "over"
                         ELSE f.hold[g] = own.hold[g]
  BY <1>4, FencedQuiet
<1> HIDE DEF f
<1>7. OrderKept(f) /\ Written(f) = Written(own)
  BY <1>4, <1>6, QuietKeeps, FollowsKeepsOrder DEF Quiet
<1>8. \A g \in Hold : f.hold[g].lease \notin Running
  <2>1. \A g \in Hold \ {h} : own.hold[g].lease # "live"
    BY <1>1, <1>2, <1>3 DEF Touches
  <2> QED BY <1>2, <1>6, <2>1 DEF Running
<1>9. f.hold[h].lease = own.hold[h].lease
  BY <1>6
<1>10. CASE size <= 0
  <2>1. f.hold[h].lease # "none" /\ \A g \in Hold \ {h} : f.hold[g].lease # "live"
    BY <1>2, <1>3, <1>8, <1>9, <1>10 DEF Running
  <2>2. OrderKept(AtSpentHold(f, h))
    BY <1>7, <2>1, AtSpentHoldKeeps
  <2> QED BY <1>3, <1>10, <2>2, AlterKeepsOrder
<1>11. CASE ~ (size <= 0)
  <2> DEFINE n == NextHold(f)
             u == Reserved(f, size)
  <2>1. NextHold(own) \in Hold /\ Alter(Claimed(u, n))
    BY <1>3, <1>11 DEF Reservable
  <2>2. n \in Hold
    BY <1>7, <2>1 DEF NextHold
  <2>3. OneActive(Claimed(u, n))
    BY <2>1 DEF Alter, Commit, Admitted
  <2>4. u \in TablesType
    <3>1. f \in TablesType
      BY <1>7 DEF OrderKept
    <3>2. /\ u = With(f, n, FreshHold(size), ReservedEnvelope(f, size))
          /\ FreshHold(size) \in LooseRow /\ ReservedEnvelope(f, size) \in EnvelopeType
      BY <1>5, <3>1, ReservedIs
    <3> HIDE DEF n
    <3> QED BY <2>2, <3>1, <3>2, WithIs
  <2>5. OneActive(u)
    BY <2>2, <2>3, <2>4, ClaimedActive
  <2>6. /\ OrderKept(u) /\ u.hold[n] = FreshHold(size)
        /\ \A g \in Hold \ {n} : u.hold[g] = f.hold[g]
        /\ \A g \in Hold : g > n => f.hold[g] = NoHold
    BY <1>5, <1>7, <2>2, <2>5, ReservedKeeps
  <2> HIDE DEF n, u
  <2>7. u.hold[n].state = "held" /\ u.hold[n].lease = "none"
    BY <2>6 DEF FreshHold, NoHold
  <2>8. \A g \in Hold : u.hold[g].lease \notin Running
    BY <1>8, <2>6, <2>7 DEF Running
  <2>9. \A g \in Hold : g > n => u.hold[g].state = "none"
    <3> SUFFICES ASSUME NEW g \in Hold, g > n PROVE u.hold[g].state = "none"
      OBVIOUS
    <3>1. g # n
      BY <2>2 DEF Hold
    <3>2. u.hold[g] = NoHold
      BY <2>6, <3>1
    <3> QED BY <3>2 DEF NoHold
  <2>10. OrderKept(Claimed(u, n))
    BY <2>2, <2>6, <2>7, <2>8, <2>9, ClaimedKeeps
  <2> QED BY <2>1, <2>10, AlterKeepsOrder
<1> QED BY <1>10, <1>11

\* Calls moved leave the holds.
LEMMA CallsMovedQuiet ==
    ASSUME NEW t, OrderKept(t), NEW C, NEW state \in {"dispatched", "released"}
    PROVE  /\ Quiet(t, CallsMoved(t, C, state))
           /\ CallsMoved(t, C, state).hold = t.hold
           /\ CallsMoved(t, C, state).call = MovedCalls(t, C, state)
<1>1. /\ CallsMoved(t, C, state) = WithCalls(t, MovedCalls(t, C, state))
      /\ MovedCalls(t, C, state) \in [Call -> CallRow]
  BY CallsMovedIs DEF OrderKept
<1>2. Quiet(t, WithCalls(t, MovedCalls(t, C, state)))
  BY <1>1, WithCallsQuiet
<1> QED BY <1>1, <1>2 DEF WithCalls

\* A call released and given back.
LEMMA ReleasedQuiet ==
    ASSUME NEW t, OrderKept(t), NEW c \in Call
    PROVE  /\ Quiet(t, GivenBack(CallsMoved(t, {c}, "released"), c))
           /\ OrderKept(GivenBack(CallsMoved(t, {c}, "released"), c))
           /\ \A h \in Hold : GivenBack(CallsMoved(t, {c}, "released"), c).hold[h]
                 = [t.hold[h] EXCEPT
                      !.amount = GivenBack(CallsMoved(t, {c}, "released"), c).hold[h].amount]
<1> DEFINE m == CallsMoved(t, {c}, "released")
           u == GivenBack(m, c)
<1>1. Quiet(t, m) /\ m.hold = t.hold
  BY CallsMovedQuiet
<1> HIDE DEF m
<1>2. OrderKept(m)
  BY <1>1, QuietKeeps
<1>3. Quiet(m, u) /\ OnlyAmounts(m, u)
  BY <1>2, GivenBackQuiet
<1> HIDE DEF u
<1>4. Quiet(t, u)
  BY <1>1, <1>3, FollowsOn
<1>5. OrderKept(u)
  BY <1>4, QuietKeeps
<1> QED BY <1>1, <1>3, <1>4, <1>5 DEF OnlyAmounts, m, u

\* Work that ends with its call.
LEMMA StoppedQuiet ==
    ASSUME NEW t, OrderKept(t), NEW h \in Hold
    PROVE  Quiet(t, Stopped(t, h))
<1>1. CASE t.hold[h].lease = "live"
  <2>1. Touches(t, Retired(t, h, "final"), h)
    BY <1>1, RetiredTouches
  <2> QED BY <1>1, <2>1 DEF Touches, Stopped
<1>2. CASE t.hold[h].lease # "live"
  BY <1>2, FollowsItself DEF Stopped
<1> QED BY <1>1, <1>2

\* A transaction that only ends things keeps the order.
LEMMA QuietAlter ==
    ASSUME OrderInv, NEW u, Alter(u), Quiet(Tables, u)
    PROVE  OrderInv'
<1>1. OrderKept(Tables)
  BY OrderIs
<1>2. OrderKept(u)
  BY <1>1, QuietKeeps
<1> QED BY <1>2, AlterKeepsOrder

\* A call reserved, refused, or stopped at the budget.
LEMMA ReserveCallOrder ==
    ASSUME OrderInv, NEW h \in Hold, ReserveCall(h)
    PROVE  OrderInv'
<1> DEFINE t == Tables
           fresh == [t EXCEPT !.call[NextCall] = [NoCall EXCEPT !.state = "reserved", !.of = h]]
<1>1. OrderKept(t) /\ t \in TablesType /\ t.hold = hold
  BY OrderIs
<1>2. /\ hold[h].lease = "live"
      /\ \/ Alter(Retired(t, h, "final"))
         \/ Alter(AtBudget(t, h))
         \/ NextCall \in Call /\ Alter(fresh)
  BY DEF ReserveCall, Working
<1>3. t.hold[h].lease = "live"
  BY <1>1, <1>2
<1>4. CASE Alter(Retired(t, h, "final"))
  <2>1. Touches(t, Retired(t, h, "final"), h)
    BY <1>1, <1>3, RetiredTouches
  <2> QED BY <1>4, <2>1, QuietAlter DEF Touches
<1>5. CASE Alter(AtBudget(t, h))
  <2>1. \A g \in Hold \ {h} : t.hold[g].lease # "live"
    BY <1>1, <1>3, RunningAlone DEF Running
  <2>2. OrderKept(AtBudget(t, h))
    BY <1>1, <1>3, <2>1, AtBudgetKeeps
  <2> QED BY <1>5, <2>2, AlterKeepsOrder
<1>6. CASE NextCall \in Call /\ Alter(fresh)
  <2>1. fresh = WithCalls(t, NewCalls(t, NextCall, h)) /\ NewCalls(t, NextCall, h) \in [Call -> CallRow]
    BY <1>1, <1>6, NewCallIs
  <2>2. Quiet(t, WithCalls(t, NewCalls(t, NextCall, h)))
    BY <1>1, <2>1, WithCallsQuiet
  <2> QED BY <1>6, <2>1, <2>2, QuietAlter
<1> QED BY <1>2, <1>4, <1>5, <1>6

\* A call started, or refused with its work.
LEMMA StartOrder ==
    ASSUME OrderInv, NEW c \in Call, Start(c)
    PROVE  OrderInv'
<1> DEFINE t == Tables
           h == call[c].of
           released == GivenBack(CallsMoved(t, {c}, "released"), c)
<1>1. OrderKept(t) /\ t \in TablesType /\ t.hold = hold /\ t.call = call
  BY OrderIs
<1>2. h \in Hold
  BY <1>1, GivenBackIs
<1>3. \/ Alter(CallsMoved(t, {c}, "dispatched"))
      \/ hold[h].lease = "live" /\ Alter(Retired(released, h, "final"))
      \/ Alter(released)
  BY DEF Start, Working
<1> HIDE DEF t
<1>4. /\ Quiet(t, released) /\ OrderKept(released)
      /\ \A g \in Hold : released.hold[g]
            = [t.hold[g] EXCEPT !.amount = released.hold[g].amount]
  BY <1>1, ReleasedQuiet
<1>5. CASE Alter(CallsMoved(t, {c}, "dispatched"))
  <2>1. Quiet(t, CallsMoved(t, {c}, "dispatched"))
    BY <1>1, CallsMovedQuiet
  <2> QED BY <1>5, <2>1, QuietAlter DEF t
<1>6. CASE hold[h].lease = "live" /\ Alter(Retired(released, h, "final"))
  <2> HIDE DEF released, h
  <2>1. t.hold[h] \in LooseRow
    BY <1>1, <1>2, TablesAre
  <2>2. released.hold[h].lease = "live"
    BY <1>1, <1>2, <1>4, <1>6, <2>1 DEF LooseRow
  <2>3. Touches(released, Retired(released, h, "final"), h)
    BY <1>2, <1>4, <2>2, RetiredTouches
  <2>4. Quiet(t, Retired(released, h, "final"))
    BY <1>4, <2>3, FollowsOn DEF Touches
  <2> QED BY <1>6, <2>4, QuietAlter DEF t
<1>7. CASE Alter(released)
  BY <1>4, <1>7, QuietAlter DEF t
<1> QED BY <1>3, <1>5, <1>6, <1>7

\* A call settled at its cost.
LEMMA PriceOrder ==
    ASSUME OrderInv, NEW c \in Call, NEW cost \in Costs, Price(c, cost)
    PROVE  OrderInv'
<1> DEFINE t == Tables
           p == [t EXCEPT !.call[c].state = "settled", !.call[c].actual = cost]
<1>1. OrderKept(t) /\ t \in TablesType /\ cost \in 0 .. CallMax
  BY OrderIs, SomePrices
<1>2. Alter(GivenBack(p, c))
  BY DEF Price
<1>3. p = WithCalls(t, PricedCalls(t, c, cost)) /\ PricedCalls(t, c, cost) \in [Call -> CallRow]
  BY <1>1, PricedIs
<1> HIDE DEF p, t
<1>4. Quiet(t, p)
  BY <1>1, <1>3, WithCallsQuiet
<1>5. Quiet(p, GivenBack(p, c))
  BY <1>1, <1>4, QuietKeeps, GivenBackQuiet
<1>6. Quiet(t, GivenBack(p, c))
  BY <1>4, <1>5, FollowsOn
<1> QED BY <1>2, <1>6, QuietAlter DEF t

\* A call proved not to have happened.
LEMMA AnswerNothingOrder ==
    ASSUME OrderInv, NEW c \in Call, AnswerNothing(c)
    PROVE  OrderInv'
<1> DEFINE t == Tables
           h == call[c].of
           released == GivenBack(CallsMoved(t, {c}, "released"), c)
<1>1. OrderKept(t) /\ t \in TablesType /\ t.call = call
  BY OrderIs
<1>2. h \in Hold
  BY <1>1, GivenBackIs
<1>3. Alter(Stopped(released, h))
  BY DEF AnswerNothing
<1> HIDE DEF t, h
<1>4. Quiet(t, released) /\ OrderKept(released)
  BY <1>1, ReleasedQuiet
<1> HIDE DEF released
<1>5. Quiet(released, Stopped(released, h))
  BY <1>2, <1>4, StoppedQuiet
<1>6. Quiet(t, Stopped(released, h))
  BY <1>4, <1>5, FollowsOn
<1> QED BY <1>3, <1>6, QuietAlter DEF t

\* A call with no answer.
LEMMA AnswerUnknownOrder ==
    ASSUME OrderInv, NEW c \in Call, AnswerUnknown(c)
    PROVE  OrderInv'
<1> DEFINE t == Tables
           h == call[c].of
           m == hold[h].step = "dispatched"
           u == Unanswered(t, c, h, m)
<1>1. OrderKept(t) /\ t \in TablesType /\ t.call = call /\ t.hold = hold
  BY OrderIs
<1>2. h \in Hold
  BY <1>1, GivenBackIs
<1>3. Alter(Stopped(u, h))
  BY DEF AnswerUnknown, Unanswered
<1>4. m => t.hold[h].lease # "none"
  BY <1>1, <1>2 DEF OrderKept, RowKept
<1>5. m \in BOOLEAN
  OBVIOUS
<1> HIDE DEF t, h, m
<1>6. Touches(t, u, h)
  BY <1>1, <1>2, <1>4, <1>5, UnansweredTouches
<1> HIDE DEF u
<1>7. OrderKept(u) /\ Quiet(t, u)
  BY <1>1, <1>6, QuietKeeps DEF Touches
<1>8. Quiet(u, Stopped(u, h))
  BY <1>2, <1>7, StoppedQuiet
<1>9. Quiet(t, Stopped(u, h))
  BY <1>7, <1>8, FollowsOn
<1> QED BY <1>3, <1>9, QuietAlter DEF t

\* An unknown call proved absent.
LEMMA ProveCallOrder ==
    ASSUME OrderInv, NEW c \in Call, ProveCall(c)
    PROVE  OrderInv'
<1>1. OrderKept(Tables)
  BY OrderIs
<1>2. Quiet(Tables, GivenBack(CallsMoved(Tables, {c}, "released"), c))
  BY <1>1, ReleasedQuiet
<1> QED BY <1>2, QuietAlter DEF ProveCall

\* The effect marked, on work that stands.
LEMMA DispatchOrder ==
    ASSUME OrderInv, NEW h \in Hold, Dispatch(h)
    PROVE  OrderInv'
<1> DEFINE t == Tables
<1>1. OrderKept(t) /\ t.hold = hold
  BY OrderIs
<1>2. Alter([t EXCEPT !.hold[h].marked = TRUE]) /\ hold[h].lease = "live"
  BY DEF Dispatch, Working
<1> HIDE DEF t
<1>3. Touches(t, [t EXCEPT !.hold[h].marked = TRUE], h)
  BY <1>1, <1>2, MarkedTouches
<1> QED BY <1>2, <1>3, QuietAlter DEF Touches, t

\* The effect observed.
LEMMA ObserveOrder ==
    ASSUME OrderInv, NEW h \in Hold, NEW ending \in {"completed", "failed"}, NEW cost \in StepCosts,
           Observe(h, ending, cost)
    PROVE  OrderInv'
<1> DEFINE t == Tables
           v == t.hold[h].observed \/ ending = "completed"
           seen == [t EXCEPT !.hold[h].observed = v]
           spent == cost + CallsCost(t, h)
<1>1. OrderKept(t) /\ t \in TablesType /\ t.hold = hold
  BY OrderIs
<1>2. t.hold \in [Hold -> LooseRow]
  BY <1>1, TablesAre
<1>3. v \in BOOLEAN
  BY <1>2 DEF LooseRow
<1>4. [t EXCEPT !.hold[h].observed = @ \/ ending = "completed"] = seen
  BY <1>1, <1>2 DEF TablesType
<1>5. /\ hold[h].marked /\ hold[h].state = "held" /\ hold[h].lease # "none"
      /\ \/ Alter(Closed(seen, h, spent, ending))
         \/ Alter([seen EXCEPT !.hold[h].step = "unknown"])
  BY <1>4 DEF Observe
<1> HIDE DEF t, v
<1>6. t.hold[h].state # "none" /\ t.hold[h] \in LooseRow
  BY <1>1, <1>2, <1>5
<1>7. /\ Touches(t, seen, h)
      /\ seen.hold[h] = [t.hold[h] EXCEPT !.observed = v]
  BY <1>1, <1>3, <1>6, ObservedTouches
<1> HIDE DEF seen
<1>8. OrderKept(seen)
  BY <1>1, <1>7, QuietKeeps DEF Touches
<1>9. seen.hold[h].marked /\ seen.hold[h].state = "held" /\ seen.hold[h].lease # "none"
  BY <1>1, <1>5, <1>6, <1>7 DEF LooseRow
<1>10. spent \in Int
  <2>1. CallsCost(t, h) \in Nat
    BY <1>1, CallsCostNat
  <2>2. cost \in Nat
    BY SomePrices
  <2> QED BY <2>1, <2>2
<1> HIDE DEF spent
<1>11. CASE Alter(Closed(seen, h, spent, ending))
  <2>1. Touches(seen, Closed(seen, h, spent, ending), h)
    BY <1>8, <1>9, <1>10, ClosedTouches
  <2>2. Quiet(t, Closed(seen, h, spent, ending))
    BY <1>7, <2>1, FollowsOn DEF Touches
  <2> QED BY <1>11, <2>2, QuietAlter DEF t
<1>12. CASE Alter([seen EXCEPT !.hold[h].step = "unknown"])
  <2>1. Touches(seen, [seen EXCEPT !.hold[h].step = "unknown"], h)
    BY <1>8, <1>9, StepTouches
  <2>2. Quiet(t, [seen EXCEPT !.hold[h].step = "unknown"])
    BY <1>7, <2>1, FollowsOn DEF Touches
  <2> QED BY <1>12, <2>2, QuietAlter DEF t
<1> QED BY <1>5, <1>11, <1>12

\* A step beside a count ends no hold.
LEMMA QuietBeside ==
    ASSUME OrderInv, Quiet(Tables, Tables'), \A h \in Hold : hold'[h].state = hold[h].state,
           count' = count, CountType', count.kind # "none" => sweep'.counted = {}
    PROVE  OrderInv'
<1>1. OrderKept(Tables)
  BY OrderIs
<1>2. OrderKept(Tables')
  BY <1>1, QuietKeeps
<1>3. OrderKept(Tables)'
  BY <1>2
<1>4. asks' = asks /\ run' = run
  BY DEF Quiet, Tables
<1>5. CountStands'
  <2> SUFFICES ASSUME count'.kind # "none"
               PROVE  /\ Answerable' /\ count'.of = Stop'
                      /\ hold'[count'.of].state = "held" /\ sweep'.counted = {}
    BY DEF CountStands
  <2>1. Answerable /\ count.of = Stop /\ hold[count.of].state = "held" /\ count.of \in Hold
    BY CountIs DEF OrderInv, CountStands, CountTyped
  <2> QED BY <1>4, <2>1 DEF Answerable, Stop
<1> QED BY <1>3, <1>5 DEF OrderInv

\* A lease that runs out, beside a count or not.
LEMMA LapseOrder ==
    ASSUME OrderInv, NEW h \in Hold, Lapse(h)
    PROVE  OrderInv'
<1> DEFINE t == Tables
           r == [t.hold[h] EXCEPT !.lease = "lapsed"]
<1>1. OrderKept(t) /\ t \in TablesType /\ t.hold = hold
  BY OrderIs
<1>2. t.hold \in [Hold -> LooseRow]
  BY <1>1, TablesAre
<1>3. /\ hold[h].lease = "live" /\ hold' = [hold EXCEPT ![h].lease = "lapsed"]
      /\ call' = call /\ asks' = asks /\ run' = run /\ envelope' = envelope
      /\ count' = count /\ sweep' = sweep
  BY DEF Lapse
<1>4. Tables' = With(t, h, r, t.envelope)
  BY <1>1, <1>2, <1>3 DEF Tables, With
<1> HIDE DEF t, r
<1>5. /\ Touches(t, [t EXCEPT !.hold[h].lease = "lapsed"], h)
      /\ [t EXCEPT !.hold[h].lease = "lapsed"] = With(t, h, r, t.envelope)
  BY <1>1, <1>3, LapseTouches DEF r
<1>6. Quiet(Tables, Tables')
  BY <1>4, <1>5 DEF Touches, t
<1>7. \A g \in Hold : hold'[g].state = hold[g].state
  BY <1>1, <1>2, <1>3 DEF LooseRow
<1>8. CountType'
  BY <1>3 DEF OrderInv, CountType
<1>9. count.kind # "none" => sweep'.counted = {}
  BY <1>3 DEF OrderInv, CountStands
<1> QED BY <1>3, <1>6, <1>7, <1>8, <1>9, QuietBeside

\* A lost worker: its hold classified, and its step back beside none that works.
LEMMA LoseWorkerOrder ==
    ASSUME OrderInv, NEW h \in Hold, LoseWorker(h)
    PROVE  OrderInv'
<1> DEFINE t == Tables
           a == CallsLost(t, h)
           b == Retired(a, h, "open")
           u == Classified(b, h)
           d == [u EXCEPT !.hold[h].step = "dropped"]
           left == Left(u, h)
<1>1. OrderKept(t) /\ t.hold = hold
  BY OrderIs
<1>2. /\ hold[h].lease = "lapsed"
      /\ Alter(IF u.hold[h].step = "abandoned" THEN Resumed(d, h, left, FALSE) ELSE u)
  BY DEF LoseWorker
<1> HIDE DEF t
<1>3. Quiet(t, a) /\ a.hold[h].lease = "lapsed" /\ OrderKept(a)
  <2>1. Quiet(t, a) /\ a.hold[h].lease = t.hold[h].lease
    BY <1>1, <1>2, CallsLostTouches
  <2> QED BY <1>1, <1>2, <2>1, QuietKeeps
<1> HIDE DEF a
<1>4. Quiet(t, b) /\ b.hold[h].lease = "over" /\ OrderKept(b)
  <2>1. Touches(a, b, h) /\ b.hold[h].lease = "over"
    BY <1>3, RetiredTouches
  <2> QED BY <1>1, <1>3, <2>1, FollowsOn, QuietKeeps DEF Touches
<1> HIDE DEF b
<1>5. Quiet(t, u) /\ u.hold[h].lease = "over" /\ OrderKept(u)
  <2>1. Touches(b, u, h) /\ u.hold[h].lease = "over"
    BY <1>4, ClassifiedTouches
  <2> QED BY <1>1, <1>4, <2>1, FollowsOn, QuietKeeps DEF Touches
<1>6. left \in Int
  BY <1>5, AmountsAre DEF OrderKept
<1> HIDE DEF u, left
<1>7. CASE u.hold[h].step # "abandoned"
  BY <1>2, <1>5, <1>7, QuietAlter DEF t
<1>8. CASE u.hold[h].step = "abandoned"
  <2>1. Touches(u, d, h) /\ d.hold[h] = [u.hold[h] EXCEPT !.step = "dropped"]
    BY <1>5, StepTouches DEF Running
  <2> HIDE DEF d
  <2>2. OrderKept(d) /\ Quiet(t, d)
    BY <1>5, <2>1, QuietKeeps, FollowsOn DEF Touches
  <2>3. d.hold[h].lease = "over"
    <3>1. u.hold[h] \in LooseRow
      BY <1>5, TablesAre DEF OrderKept
    <3> QED BY <1>5, <2>1, <3>1 DEF LooseRow
  <2>4. \A g \in Hold \ {h} : d.hold[g].lease # "live"
    <3>1. \A g \in Hold \ {h} : t.hold[g].lease # "live"
      BY <1>1, <1>2, RunningAlone DEF Running
    <3> QED BY <1>1, <2>2, <3>1, FollowsKeepsOrder DEF Quiet
  <2>5. Alter(Resumed(d, h, left, FALSE))
    BY <1>2, <1>8
  <2>6. OrderKept(Resumed(d, h, left, FALSE))
    BY <1>6, <2>2, <2>3, <2>4, <2>5, ResumedKeeps DEF Alter, Commit, Admitted
  <2> QED BY <2>5, <2>6, AlterKeepsOrder
<1> QED BY <1>7, <1>8

\* An ended hold classified by the pass.
LEMMA ReplayOrder ==
    ASSUME OrderInv, NEW h \in Hold, Replay(h)
    PROVE  OrderInv'
<1>1. OrderKept(Tables) /\ Tables.hold = hold
  BY OrderIs
<1>2. hold[h].lease = "over" /\ Alter(Classified(Tables, h))
  BY DEF Replay
<1>3. Touches(Tables, Classified(Tables, h), h)
  BY <1>1, <1>2, ClassifiedTouches
<1> QED BY <1>2, <1>3, QuietAlter DEF Touches

\* An effect proved absent: its lease was over, and no other ran.
LEMMA ProveAbsentOrder ==
    ASSUME OrderInv, NEW h \in Hold, ProveAbsent(h)
    PROVE  OrderInv'
<1> DEFINE t == Tables
           left == Left(t, h)
<1>1. OrderKept(t) /\ t.hold = hold /\ t \in TablesType
  BY OrderIs
<1>2. /\ hold[h].state = "held" /\ hold[h].lease = "over" /\ ~ hold[h].absent
      /\ Alter(Resumed(t, h, left, TRUE))
  BY DEF ProveAbsent, Reconcilable
<1> HIDE DEF t
<1>3. left \in Int
  BY <1>1, AmountsAre
<1>4. \A g \in Hold \ {h} : t.hold[g].lease # "live"
  BY <1>1, <1>2, NewestAlone DEF Running
<1> HIDE DEF left
<1>5. OrderKept(Resumed(t, h, left, TRUE))
  BY <1>1, <1>2, <1>3, <1>4, ResumedKeeps DEF Alter, Commit, Admitted
<1> QED BY <1>2, <1>5, AlterKeepsOrder

\* An effect proved present.
LEMMA ProvePresentOrder ==
    ASSUME OrderInv, NEW h \in Hold, NEW cost \in StepCosts, ProvePresent(h, cost)
    PROVE  OrderInv'
<1> DEFINE t == Tables
           seen == [t EXCEPT !.hold[h].observed = TRUE]
           spent == cost + CallsCost(t, h)
<1>1. OrderKept(t) /\ t \in TablesType /\ t.hold = hold
  BY OrderIs
<1>2. /\ hold[h].marked /\ hold[h].state = "held"
      /\ Alter(Closed(seen, h, spent, "completed"))
  BY DEF ProvePresent, Reconcilable
<1>3. t.hold[h] \in LooseRow
  BY <1>1, TablesAre
<1> HIDE DEF t
<1>4. Touches(t, seen, h) /\ seen.hold[h] = [t.hold[h] EXCEPT !.observed = TRUE]
  BY <1>1, <1>2, ObservedTouches
<1> HIDE DEF seen
<1>5. OrderKept(seen) /\ seen.hold[h].marked /\ seen.hold[h].state = "held"
  BY <1>1, <1>2, <1>3, <1>4, QuietKeeps DEF Touches, LooseRow
<1>6. spent \in Int
  <2>1. CallsCost(t, h) \in Nat
    BY <1>1, CallsCostNat
  <2>2. cost \in Nat
    BY SomePrices
  <2> QED BY <2>1, <2>2
<1> HIDE DEF spent
<1>7. Touches(seen, Closed(seen, h, spent, "completed"), h)
  BY <1>5, <1>6, ClosedTouches
<1>8. Quiet(t, Closed(seen, h, spent, "completed"))
  BY <1>4, <1>7, FollowsOn DEF Touches
<1> QED BY <1>2, <1>8, QuietAlter DEF t

\* The sweep of one call with no answer.
LEMMA SweepUnansweredOrder ==
    ASSUME OrderInv, NEW c \in Call, SweepUnanswered(c)
    PROVE  OrderInv'
<1> DEFINE t == Tables
           k == UnansweredCalls(t, c)
<1>1. OrderKept(t) /\ t \in TablesType /\ t.hold = hold /\ t.call = call
  BY OrderIs
<1>2. t.call \in [Call -> CallRow] /\ t.call[c] \in CallRow
  BY <1>1, TablesAre
<1>3. /\ call' = [call EXCEPT ![c].state = "unknown", ![c].lost = TRUE]
      /\ hold' = hold /\ asks' = asks /\ run' = run /\ envelope' = envelope
      /\ count' = count /\ sweep' = sweep
  BY DEF SweepUnanswered
<1>4. call' = k
  BY <1>1, <1>2, <1>3 DEF UnansweredCalls
<1>5. k \in [Call -> CallRow]
  <2>1. [t.call[c] EXCEPT !.state = "unknown", !.lost = TRUE] \in CallRow
    BY <1>2 DEF CallRow
  <2> QED BY <1>2, <2>1 DEF UnansweredCalls
<1>6. Tables' = WithCalls(t, k)
  BY <1>1, <1>3, <1>4 DEF Tables, WithCalls
<1> HIDE DEF k
<1>7. Quiet(Tables, Tables')
  BY <1>1, <1>5, <1>6, WithCallsQuiet
<1>8. CountType'
  BY <1>3 DEF OrderInv, CountType
<1>9. count.kind # "none" => sweep'.counted = {}
  BY <1>3 DEF OrderInv, CountStands
<1> QED BY <1>3, <1>7, <1>8, <1>9, QuietBeside

\* The sweep's own steps write no table.
LEMMA SweepAlone ==
    ASSUME OrderInv, UNCHANGED <<hold, call, asks, run, envelope, count>>, SweepType',
           count.kind # "none" => sweep'.counted = {}
    PROVE  OrderInv'
<1>1. Tables' = Tables
  BY DEF Tables
<1>2. Quiet(Tables, Tables')
  BY <1>1, OrderIs, FollowsItself
<1>3. CountType'
  BY DEF OrderInv, CountType, SweepType
<1> QED BY <1>2, <1>3, QuietBeside

\* The sweep of unsent calls, reading them,
LEMMA SweepCountedOrder ==
    ASSUME OrderInv, SweepCounted
    PROVE  OrderInv'
<1> DEFINE S == IF count # Uncounting THEN {} ELSE {c \in SweptUnsent : Counted(Tables, call[c].of)}
<1>1. /\ sweep' = [at |-> "counted", locked |-> {}, counted |-> S]
      /\ UNCHANGED <<hold, call, asks, run, envelope, count>>
  BY DEF SweepCounted
<1>2. S \in SUBSET Call
  BY DEF SweptUnsent
<1>3. count.kind # "none" => S = {}
  BY DEF Uncounting
<1> HIDE DEF S
<1>4. SweepType'
  BY <1>1, <1>2 DEF SweepType
<1> QED BY <1>1, <1>3, <1>4, SweepAlone

\* locking them,
LEMMA SweepLockedOrder ==
    ASSUME OrderInv, SweepLocked
    PROVE  OrderInv'
<1> DEFINE S == SweptUnsent \ sweep.counted
<1>1. /\ sweep' = [sweep EXCEPT !.at = "locked", !.locked = S]
      /\ UNCHANGED <<hold, call, asks, run, envelope, count>>
  BY DEF SweepLocked
<1>2. S \in SUBSET Call
  BY DEF SweptUnsent
<1>3. SweepType
  BY DEF OrderInv, CountType, SweepType
<1> HIDE DEF S
<1>4. SweepType' /\ sweep'.counted = sweep.counted
  BY <1>1, <1>2, <1>3 DEF SweepType
<1>5. count.kind # "none" => sweep'.counted = {}
  BY <1>4 DEF OrderInv, CountStands
<1> QED BY <1>1, <1>4, <1>5, SweepAlone

\* The release of unsent calls changes only the calls and what the holds have.
LEMMA SweptReleasedQuiet ==
    ASSUME OrderInv
    PROVE  /\ Quiet(Tables, SweptReleased) /\ SweptReleased \in TablesType
           /\ \A h \in Hold : SweptReleased.hold[h]
                 = [hold[h] EXCEPT !.amount = SweptReleased.hold[h].amount]
<1> DEFINE t == Tables
           swept == SweptUnsent \cap (sweep.counted
                        \cup {c \in sweep.locked : ~ Counted(Tables, call[c].of)})
           D == swept \cap sweep.counted
           m == CallsMoved(t, swept, "released")
           u == AllGivenBack(m, D)
<1>1. OrderKept(t) /\ t.hold = hold
  BY OrderIs
<1>2. SweptReleased = u
  BY DEF SweptReleased
<1>3. D \in SUBSET Call
  BY DEF SweptUnsent
<1> HIDE DEF t, swept, D
<1>4. Quiet(t, m) /\ m.hold = t.hold
  BY <1>1, CallsMovedQuiet
<1> HIDE DEF m
<1>5. OrderKept(m)
  BY <1>1, <1>4, QuietKeeps
<1>6. Quiet(m, u) /\ OnlyAmounts(m, u)
  BY <1>3, <1>5, AllGivenBackQuiet
<1> HIDE DEF u
<1>7. Quiet(t, u)
  BY <1>4, <1>6, FollowsOn
<1>8. u \in TablesType
  BY <1>7 DEF Quiet, HoldsFollow
<1> QED BY <1>1, <1>2, <1>4, <1>6, <1>7, <1>8 DEF OnlyAmounts, t

\* and releasing them.
LEMMA SweepReleasesOrder ==
    ASSUME OrderInv, SweepReleases
    PROVE  OrderInv'
<1> DEFINE u == SweptReleased
<1>1. Commit(u) /\ sweep' = Idle /\ count' = count
  BY DEF SweepReleases
<1>2. /\ Quiet(Tables, u) /\ u \in TablesType
      /\ \A h \in Hold : u.hold[h] = [hold[h] EXCEPT !.amount = u.hold[h].amount]
  BY SweptReleasedQuiet
<1> HIDE DEF u
<1>3. Tables' = u /\ hold' = u.hold
  BY <1>1, <1>2, CommitIs DEF Commit
<1>4. hold \in [Hold -> LooseRow]
  BY OrderIs, TablesAre
<1>5. ASSUME NEW h \in Hold PROVE hold'[h].state = hold[h].state
  <2> DEFINE r == hold[h]
             amount == u.hold[h].amount
  <2>1. hold'[h] = [r EXCEPT !.amount = amount] /\ r \in LooseRow
    BY <1>2, <1>3, <1>4
  <2> HIDE DEF r, amount
  <2>2. hold'[h].state = r.state
    BY <2>1 DEF LooseRow
  <2> QED BY <2>2 DEF r
<1>6. CountType'
  BY <1>1 DEF OrderInv, CountType, Idle
<1> QED BY <1>1, <1>2, <1>3, <1>5, <1>6, QuietBeside DEF Idle

\* The stop is of a hold, whose lease is over.
LEMMA StopIs ==
    ASSUME OrderInv, Answerable
    PROVE  Stop \in Hold /\ hold[Stop].lease = "over"
<1>1. Tables \in TablesType /\ Tables.asks = asks /\ Tables.hold = hold /\ OrderKept(Tables)
  BY OrderIs
<1>2. DOMAIN asks = 1 .. Len(asks) /\ Len(asks) \in Nat /\ \A i \in DOMAIN asks : asks[i] \in AskRow
  BY <1>1, AsksAre
<1>3. asks \in Seq(AskRow)
  BY <1>1, TablesAre
<1>4. Len(asks) \in DOMAIN asks
  BY <1>2, <1>3 DEF Answerable
<1>5. asks[Len(asks)] \in AskRow
  BY <1>2, <1>4
<1> QED BY <1>1, <1>4, <1>5 DEF Stop, AskRow, OrderKept, AsksAreOver

\* A count writes no table, and stands on the stop it counted.
LEMMA CountingOrder ==
    ASSUME OrderInv, Alone, Answerable, hold[Stop].state = "held", NEW kind \in {"top_up", "end"},
           NEW amount \in Nat, count' = Counting(kind, amount),
           UNCHANGED <<hold, call, asks, run, envelope, sweep>>
    PROVE  OrderInv'
<1>1. Tables \in TablesType /\ Stop \in Hold
  BY OrderIs, StopIs
<1>2. SpentOn(Tables, Stop) \in Int /\ Unsent(Tables, Stop) \in SUBSET Call
  BY <1>1, CallsCostNat DEF Unsent
<1>3. count' = [kind |-> kind, of |-> Stop, amount |-> amount, spent |-> SpentOn(Tables, Stop),
                unsent |-> Unsent(Tables, Stop)]
  BY DEF Counting
<1>4. CountType'
  <2>1. count' \in [kind : {"none", "top_up", "end"}, of : Hold, amount : Nat, spent : Int,
                    unsent : SUBSET Call]
    BY <1>1, <1>2, <1>3
  <2>2. count'.kind # "none"
    BY <1>3
  <2> QED BY <2>1, <2>2 DEF OrderInv, CountType
<1>5. CountStands'
  BY <1>3 DEF CountStands, Answerable, Stop, Alone
<1>6. Tables' = Tables
  BY DEF Tables
<1>7. OrderKept(Tables)'
  BY <1>6, OrderIs
<1> QED BY <1>4, <1>5, <1>7 DEF OrderInv

\* The count of a top-up,
LEMMA CountForTopUpOrder ==
    ASSUME OrderInv, NEW amount \in TopUps, CountForTopUp(amount)
    PROVE  OrderInv'
<1>1. amount \in Nat
  BY SomePrices
<1> QED BY <1>1, CountingOrder DEF CountForTopUp

\* and of an end.
LEMMA CountForEndOrder ==
    ASSUME OrderInv, CountForEnd
    PROVE  OrderInv'
  BY CountingOrder DEF CountForEnd

\* A committed answer leaves no count.
LEMMA CommitAnswerOrder ==
    ASSUME OrderInv, NEW kind, NEW t, CommitAnswer(kind, t), OrderKept(t)
    PROVE  OrderInv'
<1>1. Commit(t) /\ count' = Uncounting /\ sweep' = sweep
  BY DEF CommitAnswer
<1>2. Tables' = t
  BY <1>1, CommitIs DEF OrderKept
<1>3. OrderKept(Tables)'
  BY <1>2
<1>4. CountType'
  <2>1. Uncounting \in [kind : {"none", "top_up", "end"}, of : Hold, amount : Nat, spent : Int,
                        unsent : SUBSET Call]
    BY SomeBounds DEF Uncounting, Hold
  <2> QED BY <1>1, <2>1 DEF OrderInv, CountType
<1>5. CountStands'
  BY <1>1 DEF CountStands, Uncounting
<1> QED BY <1>3, <1>4, <1>5 DEF OrderInv

\* What a count stands on.
LEMMA CountingIs ==
    ASSUME OrderInv, count.kind # "none"
    PROVE  /\ CountTyped /\ Answerable /\ count.of = Stop /\ hold[count.of].state = "held"
           /\ hold[count.of].lease = "over" /\ asks # <<>> /\ run = "waiting"
<1>1. CountTyped
  BY CountIs DEF OrderInv
<1>2. Answerable /\ count.of = Stop /\ hold[count.of].state = "held"
  BY DEF OrderInv, CountStands
<1> QED BY <1>1, <1>2, StopIs DEF Answerable

\* What the sweep released since the count is given back.
LEMMA ReleasedSinceQuiet ==
    ASSUME NEW t, OrderKept(t), CountTyped
    PROVE  Quiet(t, ReleasedSince(t)) /\ OrderKept(ReleasedSince(t))
<1> DEFINE D == {c \in count.unsent : t.call[c].state = "released"}
<1>1. D \in SUBSET Call
  BY DEF CountTyped
<1> HIDE DEF D
<1>2. Quiet(t, AllGivenBack(t, D))
  BY <1>1, AllGivenBackQuiet
<1>3. OrderKept(AllGivenBack(t, D))
  BY <1>2, QuietKeeps
<1> QED BY <1>2, <1>3 DEF ReleasedSince, D

\* The top-up of a held hold.
LEMMA TopUpHeldOrder ==
    ASSUME OrderInv, TopUpHeld
    PROVE  OrderInv'
<1> DEFINE t == Tables
           a == Answered(t, "top_up", count.amount, "held")
           r == Raised(a)
           u == ReleasedSince(r)
<1>1. OrderKept(t) /\ t.hold = hold /\ t.asks = asks
  BY OrderIs
<1>2. CommitAnswer("top_up", u) /\ count.kind = "top_up"
  BY DEF TopUpHeld, ToppedUpNow, CommitAnswer
<1>3. /\ CountTyped /\ hold[count.of].state = "held" /\ asks # <<>> /\ count.amount \in Nat
  BY <1>2, CountingIs DEF CountTyped
<1> HIDE DEF t
<1>4. OrderKept(a) /\ a.hold = t.hold
  BY <1>1, <1>3, AnsweredKeeps
<1> HIDE DEF a
<1>5. OrderKept(r)
  BY <1>1, <1>3, <1>4, RaisedKeeps
<1> HIDE DEF r
<1>6. OrderKept(u)
  BY <1>3, <1>5, ReleasedSinceQuiet
<1> HIDE DEF u
<1> QED BY <1>2, <1>6, CommitAnswerOrder

\* The end of a held one.
LEMMA EndHeldOrder ==
    ASSUME OrderInv, EndHeld
    PROVE  OrderInv'
<1> DEFINE t == Tables
           e == Ended(t)
           r == ReleasedSince(e)
           h == count.of
           u == RunEnded(r, h)
<1>1. OrderKept(t) /\ t.hold = hold /\ t.asks = asks
  BY OrderIs
<1>2. CommitAnswer("end", u) /\ count.kind = "end"
  BY DEF EndHeld, CommitAnswer
<1>3. /\ CountTyped /\ hold[h].state = "held" /\ hold[h].lease = "over" /\ asks # <<>> /\ h \in Hold
  BY <1>2, CountingIs DEF CountTyped
<1> HIDE DEF t
<1>4. Quiet(t, e) /\ OrderKept(e)
  BY <1>1, <1>3, EndedKeeps, QuietKeeps DEF Running
<1> HIDE DEF e, h
<1>5. Quiet(e, r) /\ OrderKept(r)
  BY <1>3, <1>4, ReleasedSinceQuiet
<1> HIDE DEF r
<1>6. r.asks # <<>>
  BY <1>1, <1>3, <1>4, <1>5 DEF Quiet
<1>7. OrderKept(u)
  BY <1>3, <1>5, <1>6, RunEndedKeeps
<1> HIDE DEF u
<1> QED BY <1>2, <1>7, CommitAnswerOrder

\* The end of a closed one.
LEMMA EndClosedOrder ==
    ASSUME OrderInv, EndClosed
    PROVE  OrderInv'
<1>1. OrderKept(Tables) /\ Tables.asks = asks
  BY OrderIs
<1>2. Answerable /\ Alter(RunEnded(Tables, Stop)) /\ asks # <<>>
  BY DEF EndClosed, Answerable
<1>3. Stop \in Hold
  BY <1>2, StopIs
<1>4. OrderKept(RunEnded(Tables, Stop))
  BY <1>1, <1>2, <1>3, RunEndedKeeps
<1> QED BY <1>2, <1>4, AlterKeepsOrder

\* The closed hold's unsent calls, released.
LEMMA UncountedReleasedQuiet ==
    ASSUME NEW t, OrderKept(t), NEW h \in Hold
    PROVE  Quiet(t, UncountedReleased(t, h)) /\ UncountedReleased(t, h).hold = t.hold
<1>1. CASE Counted(t, h) \/ ~ LeaseEnded(h)
  <2>1. UncountedReleased(t, h) = t
    BY <1>1 DEF UncountedReleased
  <2> QED BY <2>1, FollowsItself
<1>2. CASE ~ (Counted(t, h) \/ ~ LeaseEnded(h))
  <2>1. UncountedReleased(t, h) = CallsMoved(t, Unsent(t, h), "released")
    BY <1>2 DEF UncountedReleased
  <2> QED BY <2>1, CallsMovedQuiet
<1> QED BY <1>1, <1>2

\* A top-up of a closed stop, on the envelope and the run.
LEMMA TopUpTakenIs ==
    ASSUME NEW t \in TablesType, NEW amount \in Int
    PROVE  /\ TopUpTaken(t, amount)
                = [hold |-> t.hold, call |-> t.call, asks |-> t.asks, run |-> "planned",
                   envelope |-> TakenEnvelope(t.envelope, amount)]
           /\ TakenEnvelope(t.envelope, amount) \in EnvelopeType
<1> DEFINE u == TopUpTaken(t, amount)
           e == t.envelope
<1>1. /\ t = [hold |-> t.hold, call |-> t.call, asks |-> t.asks, run |-> t.run,
              envelope |-> t.envelope]
      /\ e = [held |-> e.held, actual |-> e.actual, maximum |-> e.maximum]
  BY TablesAre
<1>2. e \in EnvelopeType
  BY TablesAre
<1>3. u = [t EXCEPT !.envelope.maximum = @ + amount, !.run = "planned"]
  BY DEF TopUpTaken
<1> HIDE DEF u
<1>4. /\ u = [hold |-> t.hold, call |-> t.call, asks |-> t.asks, run |-> "planned",
              envelope |-> u.envelope]
      /\ u.envelope = [e EXCEPT !.maximum = @ + amount]
  BY <1>1, <1>3
<1>5. u.envelope = TakenEnvelope(e, amount)
  BY <1>1, <1>4 DEF TakenEnvelope
<1>6. TakenEnvelope(e, amount) \in EnvelopeType
  BY <1>2 DEF TakenEnvelope, EnvelopeType
<1> QED BY <1>4, <1>5, <1>6 DEF u

\* It keeps the order, and every hold.
LEMMA TopUpTakenKeeps ==
    ASSUME NEW t, OrderKept(t), NEW amount \in Int
    PROVE  OrderKept(TopUpTaken(t, amount)) /\ TopUpTaken(t, amount).hold = t.hold
<1> DEFINE e == TakenEnvelope(t.envelope, amount)
           w == WithRun(t, t.asks, "planned")
           u == TopUpTaken(t, amount)
<1>1. /\ u = [hold |-> t.hold, call |-> t.call, asks |-> t.asks, run |-> "planned", envelope |-> e]
      /\ e \in EnvelopeType /\ t \in TablesType
  BY TopUpTakenIs DEF OrderKept
<1> HIDE DEF e
<1>2. OrderKept(w)
  BY <1>1, TablesAre, WithRunKeeps DEF OrderKept, AsksAreOver, Runs
<1>3. /\ u.hold = w.hold /\ u.asks = w.asks /\ u.run = w.run
  BY <1>1 DEF WithRun
<1>4. u \in TablesType
  <2>1. t.hold \in [Hold -> LooseRow] /\ t.call \in [Call -> CallRow] /\ t.asks \in Seq(AskRow)
    BY <1>1, TablesAre
  <2> QED BY <1>1, <2>1 DEF TablesType, EnvelopeType
<1> HIDE DEF u, w
<1>5. OrderKept(u)
  BY <1>2, <1>3, <1>4 DEF OrderKept, HoldsInOrder, AsksAreOver, WaitsAlone
<1> QED BY <1>1, <1>5 DEF u

\* The top-up of a closed stop reserves the step's next hold.
LEMMA TopUpClosedOrder ==
    ASSUME OrderInv, NEW amount \in TopUps, TopUpClosed(amount)
    PROVE  OrderInv'
<1> DEFINE t == Tables
           h == Stop
           w == UncountedReleased(t, h)
           a == Answered(w, "top_up", amount, "closed")
           raised == TopUpTaken(a, amount)
<1>1. OrderKept(t) /\ t.asks = asks
  BY OrderIs
<1>2. /\ Answerable /\ asks # <<>>
      /\ Reservable(raised, amount) /\ Alter(Reserved(raised, amount))
  BY DEF TopUpClosed, TopUpTaken, Answerable
<1>3. h \in Hold /\ amount \in Nat /\ amount \in Int
  BY <1>2, StopIs, SomePrices
<1> HIDE DEF t, h
<1>4. Quiet(t, w)
  BY <1>1, <1>3, UncountedReleasedQuiet
<1> HIDE DEF w
<1>5. OrderKept(w) /\ w.asks # <<>>
  BY <1>1, <1>2, <1>4, QuietKeeps DEF Quiet
<1>6. OrderKept(a)
  BY <1>3, <1>5, AnsweredKeeps
<1> HIDE DEF a
<1>7. OrderKept(raised)
  BY <1>3, <1>6, TopUpTakenKeeps
<1> HIDE DEF raised
<1>8. OrderKept(Reserved(raised, amount))
  BY <1>2, <1>3, <1>7, ReservedKeeps DEF Reservable, Alter, Commit, Admitted
<1> QED BY <1>2, <1>8, AlterKeepsOrder

\* A hold closed on a person's word, its unknown calls with it.
LEMMA WordedKeeps ==
    ASSUME NEW t, OrderKept(t), NEW h \in Hold, t.hold[h].state = "held",
           t.hold[h].lease \in Running => t.hold[h].marked, NEW charge \in Int,
           NEW step \in {"completed", "abandoned"}, NEW word \in {"nothing", "happened", "differently"}
    PROVE  LET w == [Closed(t, h, charge, step) EXCEPT !.hold[h].word = word] IN
           /\ OrderKept(w) /\ Quiet(t, w)
           /\ Quiet(t, CallsResolved(w, h, word)) /\ OrderKept(CallsResolved(w, h, word))
           /\ CallsResolved(w, h, word).hold[h].lease = t.hold[h].lease
<1> DEFINE k == Closed(t, h, charge, step)
           w == [k EXCEPT !.hold[h].word = word]
           u == CallsResolved(w, h, word)
<1>1. t.hold[h] \in LooseRow
  BY TablesAre DEF OrderKept
<1>2. Touches(t, k, h) /\ k.hold[h] = ClosedRow(t.hold[h], charge, step)
  BY ClosedTouches
<1> HIDE DEF k
<1>3. OrderKept(k)
  BY <1>2, QuietKeeps DEF Touches
<1>4. k.hold[h].state # "none" /\ k.hold[h].lease = t.hold[h].lease /\ k.hold[h] \in LooseRow
  <2>1. k.hold[h] \in LooseRow
    BY <1>3, TablesAre DEF OrderKept
  <2> QED BY <1>1, <1>2, <2>1 DEF ClosedRow, LooseRow
<1>5. Touches(k, w, h) /\ w.hold[h] = WordedRow(k.hold[h], word)
  <2>1. k.hold[h].state # "none"
    BY <1>4
  <2>2. w = Worded(k, h, word)
    BY DEF Worded
  <2> HIDE DEF w
  <2> QED BY <1>3, <2>1, <2>2, WordTouches
<1> HIDE DEF w
<1>6. OrderKept(w) /\ w.hold[h].lease = t.hold[h].lease /\ Quiet(t, w) /\ w.hold[h] \in LooseRow
  <2>1. OrderKept(w) /\ Quiet(t, w)
    BY <1>2, <1>3, <1>5, QuietKeeps, FollowsOn DEF Touches
  <2>2. w.hold[h] \in LooseRow
    BY <2>1, TablesAre DEF OrderKept
  <2> QED BY <1>4, <1>5, <2>1, <2>2 DEF LooseRow, WordedRow
<1>7. Quiet(w, u) /\ u.hold[h] = [w.hold[h] EXCEPT !.amount = u.hold[h].amount]
  BY <1>6, CallsResolvedQuiet
<1> HIDE DEF u
<1>8. Quiet(t, u) /\ OrderKept(u)
  BY <1>6, <1>7, FollowsOn, QuietKeeps
<1>9. u.hold[h].lease = t.hold[h].lease
  BY <1>6, <1>7 DEF LooseRow
<1> QED BY <1>6, <1>8, <1>9 DEF u, w, k

\* A step a person is asked about was claimed, and is marked while its lease runs.
LEMMA AnswersAre ==
    ASSUME OrderInv, NEW h \in Hold, Answers(h)
    PROVE  /\ hold[h].state = "held" /\ hold[h].lease # "none"
           /\ hold[h].lease \in Running => hold[h].marked
           /\ hold[h].amount \in Int
<1>1. Tables \in TablesType /\ Tables.hold = hold /\ RowKept(hold[h])
  BY OrderIs DEF OrderKept
<1>2. hold[h].amount \in Int
  BY <1>1, AmountsAre
<1> QED BY <1>1, <1>2 DEF Answers, RowKept

\* A person says the effect happened,
LEMMA SayHappenedOrder ==
    ASSUME OrderInv, NEW h \in Hold, SayHappened(h)
    PROVE  OrderInv'
<1> DEFINE t == Tables
           s == StoppedBeside(t, Beside(h))
           charge == hold[h].amount
           w == [Closed(s, h, charge, "completed") EXCEPT !.hold[h].word = "happened"]
           u == CallsResolved(w, h, "happened")
<1>1. OrderKept(t) /\ t.hold = hold
  BY OrderIs
<1>2. /\ hold[h].state = "held"
      /\ hold[h].lease \in Running => hold[h].marked
      /\ charge \in Int
  BY AnswersAre DEF SayHappened
<1>3. Alter(u)
  BY DEF SayHappened
<1>4. Beside(h) \in SUBSET Hold /\ h \notin Beside(h) /\ \A g \in Beside(h) : t.hold[g].state # "none"
  BY DEF Beside, HeldIn
<1> HIDE DEF t
<1>5. Quiet(t, s) /\ s.hold[h] = t.hold[h]
  BY <1>1, <1>4, StoppedBesideQuiet
<1> HIDE DEF s, charge
<1>6. OrderKept(s)
  BY <1>1, <1>5, QuietKeeps
<1>7. Quiet(s, u)
  <2>1. s.hold[h].state = "held" /\ (s.hold[h].lease \in Running => s.hold[h].marked)
    BY <1>1, <1>2, <1>5
  <2> QED BY <1>2, <1>6, <2>1, WordedKeeps
<1> HIDE DEF u
<1>8. Quiet(t, u)
  BY <1>5, <1>7, FollowsOn
<1> QED BY <1>3, <1>8, QuietAlter DEF t

\* that nothing happened,
LEMMA SayNothingOrder ==
    ASSUME OrderInv, NEW h \in Hold, SayNothing(h)
    PROVE  OrderInv'
<1> DEFINE t == Tables
           charge == CallsCost(t, h)
           w == [Closed(t, h, charge, "abandoned") EXCEPT !.hold[h].word = "nothing"]
           u == CallsResolved(w, h, "nothing")
           left == Left(u, h)
<1>1. OrderKept(t) /\ t \in TablesType /\ t.hold = hold
  BY OrderIs
<1>2. /\ hold[h].state = "held" /\ hold[h].lease # "none"
      /\ hold[h].lease \in Running => hold[h].marked
  BY AnswersAre DEF SayNothing
<1>3. Alter(IF hold[h].absent THEN u ELSE Resumed(u, h, left, FALSE))
  BY DEF SayNothing, NothingSaid
<1> HIDE DEF t
<1>4. charge \in Int
  BY <1>1, CallsCostNat
<1> HIDE DEF charge
<1>5. Quiet(t, u) /\ OrderKept(u) /\ u.hold[h].lease # "none"
  BY <1>1, <1>2, <1>4, WordedKeeps
<1> HIDE DEF u
<1>6. left \in Int
  BY <1>5, AmountsAre DEF OrderKept
<1> HIDE DEF left
<1>7. CASE hold[h].absent
  BY <1>3, <1>5, <1>7, QuietAlter DEF t
<1>8. CASE ~ hold[h].absent
  <2>1. \A g \in Hold \ {h} : t.hold[g].lease # "live"
    BY <1>1, <1>2, <1>8, NewestAlone DEF Running
  <2>2. \A g \in Hold \ {h} : u.hold[g].lease # "live"
    BY <1>1, <1>5, <2>1, FollowsKeepsOrder DEF Quiet
  <2>3. Alter(Resumed(u, h, left, FALSE))
    BY <1>3, <1>8
  <2>4. OrderKept(Resumed(u, h, left, FALSE))
    BY <1>5, <1>6, <2>2, <2>3, ResumedKeeps DEF Alter, Commit, Admitted
  <2> QED BY <2>3, <2>4, AlterKeepsOrder
<1> QED BY <1>7, <1>8

\* that it happened differently,
LEMMA SayDifferentlyOrder ==
    ASSUME OrderInv, NEW h \in Hold, SayDifferently(h)
    PROVE  OrderInv'
<1> DEFINE t == Tables
           charge == hold[h].amount
           w == [Closed(t, h, charge, "completed") EXCEPT !.hold[h].word = "differently"]
           u == CallsResolved(w, h, "differently")
<1>1. OrderKept(t) /\ t.hold = hold
  BY OrderIs
<1>2. /\ hold[h].state = "held" /\ hold[h].lease # "none"
      /\ hold[h].lease \in Running => hold[h].marked
      /\ charge \in Int
  BY AnswersAre DEF SayDifferently
<1>3. Alter(IF hold[h].absent THEN u ELSE Resumed(u, h, charge, FALSE))
  BY DEF SayDifferently
<1> HIDE DEF t, charge
<1>4. Quiet(t, u) /\ OrderKept(u) /\ u.hold[h].lease # "none"
  <2>1. t.hold[h].state = "held" /\ (t.hold[h].lease \in Running => t.hold[h].marked)
    BY <1>1, <1>2
  <2>2. Quiet(t, u) /\ OrderKept(u) /\ u.hold[h].lease = t.hold[h].lease
    BY <1>1, <1>2, <2>1, WordedKeeps, Zenon
  <2> HIDE DEF u
  <2> QED BY <1>1, <1>2, <2>2
<1> HIDE DEF u
<1>5. CASE hold[h].absent
  BY <1>3, <1>4, <1>5, QuietAlter DEF t
<1>6. CASE ~ hold[h].absent
  <2>1. \A g \in Hold \ {h} : t.hold[g].lease # "live"
    BY <1>1, <1>2, <1>6, NewestAlone DEF Running
  <2>2. \A g \in Hold \ {h} : u.hold[g].lease # "live"
    BY <1>1, <1>4, <2>1, FollowsKeepsOrder DEF Quiet
  <2>3. Alter(Resumed(u, h, charge, FALSE))
    BY <1>3, <1>6
  <2>4. OrderKept(Resumed(u, h, charge, FALSE))
    BY <1>2, <1>4, <2>2, <2>3, ResumedKeeps DEF Alter, Commit, Admitted
  <2> QED BY <2>3, <2>4, AlterKeepsOrder
<1> QED BY <1>5, <1>6

\* or writes it off.
LEMMA WriteOffOrder ==
    ASSUME OrderInv, NEW h \in Hold, NEW figure \in {0, hold[h].amount}, WriteOff(h, figure)
    PROVE  OrderInv'
<1> DEFINE t == Tables
           charge == Max({figure, CallsCost(t, h)})
           k == Closed(t, h, charge, "written_off")
           G == {g \in Beside(h) : ~ hold[g].marked}
           s == StoppedBeside(k, G)
           u == CallsResolved(s, h, "written_off")
<1>1. OrderKept(t) /\ t \in TablesType /\ t.hold = hold
  BY OrderIs
<1>2. /\ hold[h].state = "held"
      /\ hold[h].lease \in Running => hold[h].marked
      /\ hold[h].amount \in Int
  BY AnswersAre DEF WriteOff
<1>3. Alter(u)
  BY DEF WriteOff
<1>4. G \in SUBSET Hold /\ \A g \in G : g # h /\ t.hold[g].state # "none"
  BY DEF Beside, HeldIn
<1> HIDE DEF t, G
<1>5. charge \in Int
  <2>1. CallsCost(t, h) \in Int /\ figure \in Int
    BY <1>1, <1>2, CallsCostNat
  <2> QED BY <2>1, OfTwo
<1> HIDE DEF charge
<1>6. Touches(t, k, h)
  <2>1. t.hold[h].state # "none" /\ (t.hold[h].lease \in Running => t.hold[h].marked)
    BY <1>1, <1>2
  <2> QED BY <1>1, <1>5, <2>1, ClosedTouches
<1> HIDE DEF k
<1>7. OrderKept(k) /\ \A g \in G : k.hold[g].state # "none"
  BY <1>1, <1>4, <1>6, QuietKeeps DEF Touches
<1>8. Quiet(k, s)
  BY <1>4, <1>7, StoppedBesideQuiet
<1> HIDE DEF s
<1>9. OrderKept(s) /\ Quiet(t, s)
  BY <1>6, <1>7, <1>8, QuietKeeps, FollowsOn DEF Touches
<1>10. Quiet(s, u)
  BY <1>9, CallsResolvedQuiet
<1> HIDE DEF u
<1>11. Quiet(t, u)
  BY <1>9, <1>10, FollowsOn
<1> QED BY <1>3, <1>11, QuietAlter DEF t

(***************************************************************************)
(* The order, and that nothing works while the run waits.                  *)
(***************************************************************************)
LEMMA InitOrder ==
    ASSUME Init
    PROVE  OrderInv
<1> DEFINE r == [NoHold EXCEPT !.state = "held", !.amount = Approved, !.step = "reserved"]
<1>1. Approved \in Int /\ EnvelopeMax \in Int /\ 0 \in 0 .. CallMax
  BY SomePrices
<1>2. r \in LooseRow /\ RowKept(r) /\ r.lease = "none" /\ r.state = "held"
  <2>1. NoHold \in LooseRow
    BY DEF NoHold, LooseRow
  <2> QED BY <1>1, <2>1 DEF LooseRow, NoHold, RowKept, Running
<1>3. NoHold \in LooseRow /\ RowKept(NoHold) /\ NoHold.lease = "none" /\ NoHold.state = "none"
  BY DEF NoHold, LooseRow, RowKept, Running
<1> HIDE DEF r
<1>4. 1 \in Hold
  BY SomeBounds DEF Hold
<1>5. NoCall \in CallRow
  BY <1>1, <1>4 DEF NoCall, CallRow
<1>6. /\ hold = [h \in Hold |-> IF h = 1 THEN r ELSE NoHold]
      /\ call = [c \in Call |-> NoCall] /\ asks = <<>> /\ run = "planned"
      /\ envelope = [held |-> Approved, actual |-> 0, maximum |-> EnvelopeMax]
      /\ count = Uncounting /\ sweep = Idle
  BY DEF Init, r
<1>7. \A h \in Hold : hold[h] \in LooseRow /\ RowKept(hold[h]) /\ hold[h].lease = "none"
                      /\ hold[h].state = IF h = 1 THEN "held" ELSE "none"
  BY <1>2, <1>3, <1>6
<1>8. Tables \in TablesType
  <2>1. hold \in [Hold -> LooseRow]
    BY <1>6, <1>7
  <2>2. call \in [Call -> CallRow]
    BY <1>5, <1>6
  <2>3. asks \in Seq(AskRow)
    BY <1>6
  <2>4. envelope \in [held : Int, actual : Int, maximum : Int]
    BY <1>1, <1>6
  <2> QED BY <1>6, <2>1, <2>2, <2>3, <2>4 DEF Tables, TablesType
<1>9. OrderKept(Tables)
  <2>1. \A g, h \in Hold : ~ (g < h /\ hold[h].state # "none")
    BY <1>7 DEF Hold
  <2>2. HoldsInOrder(Tables)
    BY <2>1 DEF HoldsInOrder, Tables
  <2>3. AsksAreOver(Tables) /\ WaitsAlone(Tables)
    BY <1>6 DEF AsksAreOver, WaitsAlone, Tables
  <2> QED BY <1>7, <1>8, <2>2, <2>3 DEF OrderKept, Tables
<1>10. CountType /\ CountStands
  BY <1>4, <1>6 DEF CountType, CountStands, Uncounting, Idle
<1> QED BY <1>9, <1>10 DEF OrderInv

\* Every step keeps the order.
LEMMA NextOrder ==
    ASSUME OrderInv, [Next]_vars
    PROVE  OrderInv'
<1>1. CASE Works
  BY <1>1, PickUpOrder, PickUpReplacingOrder, ReserveCallOrder, LapseOrder, StartOrder,
     AnswerUnknownOrder, AnswerNothingOrder, PriceOrder DEF Works
<1>2. CASE Acts
  BY <1>2, DispatchOrder, ObserveOrder DEF Acts
<1>3. CASE Proves
  BY <1>3, ProveCallOrder, ProveAbsentOrder, ProvePresentOrder DEF Proves
<1>4. CASE Passes
  BY <1>4, LoseWorkerOrder, ReplayOrder, SweepUnansweredOrder, SweepCountedOrder,
     SweepLockedOrder, SweepReleasesOrder DEF Passes
<1>5. CASE StopIsAnswered
  BY <1>5, CountForTopUpOrder, TopUpClosedOrder, CountForEndOrder, TopUpHeldOrder, EndHeldOrder,
     EndClosedOrder DEF StopIsAnswered
<1>6. CASE StepIsAnswered
  BY <1>6, SayHappenedOrder, SayNothingOrder, SayDifferentlyOrder, WriteOffOrder DEF StepIsAnswered
<1>7. CASE UNCHANGED vars
  BY <1>7 DEF vars, OrderInv, Tables, CountType, CountStands, Answerable, Stop
<1> QED BY <1>1, <1>2, <1>3, <1>4, <1>5, <1>6, <1>7 DEF Next

\* The step's holds are numbered without a gap, one lease runs at most, and every
\* stop is of a lease that ended, whatever order pickups, words and passes come in.
THEOREM HoldsStayInOrder == Spec => []OrderInv
<1>1. Init => OrderInv
  BY InitOrder
<1>2. OrderInv /\ [Next]_vars => OrderInv'
  BY NextOrder
<1> QED BY <1>1, <1>2, PTL DEF Spec

\* While the run waits for its answer no lease of the step is live: nothing works,
\* and nothing spends, until a person answers (broker-wait.ts).
THEOREM WaitingRunsRest == Spec => []NothingWorksWhileItWaits
<1>1. OrderInv => NothingWorksWhileItWaits
  BY DEF OrderInv, OrderKept, WaitsAlone, NothingWorksWhileItWaits, Tables
<1> QED BY <1>1, HoldsStayInOrder, PTL

(***************************************************************************)
(* The money: the sums, and one row of them rewritten.                     *)
(***************************************************************************)

\* The envelope carries a natural number of each call, and every sum is a number.
LEMMA ChargesAre ==
    ASSUME NEW t \in TablesType, NEW D
    PROVE  \A c \in Call :
               /\ t.call[c] \in CallRow /\ CallSpend(t.call[c]) \in 0 .. CallMax
               /\ Carried(t.call[c]) \in 0 .. CallMax
               /\ ChargeOf(t, c, D) \in Nat /\ NetCharge(t, c, D) \in Nat
               /\ NetCharge(t, c, D) <= ChargeOf(t, c, D)
<1> SUFFICES ASSUME NEW c \in Call
             PROVE  /\ t.call[c] \in CallRow /\ CallSpend(t.call[c]) \in 0 .. CallMax
                    /\ Carried(t.call[c]) \in 0 .. CallMax
                    /\ ChargeOf(t, c, D) \in Nat /\ NetCharge(t, c, D) \in Nat
                    /\ NetCharge(t, c, D) <= ChargeOf(t, c, D)
  OBVIOUS
<1>1. t.call \in [Call -> CallRow] /\ CallMax \in Nat
  BY TablesAre, SomePrices
<1>2. t.call[c] \in CallRow
  BY <1>1
<1>3. t.call[c].actual \in 0 .. CallMax
  BY <1>2 DEF CallRow
<1>4. CallSpend(t.call[c]) \in 0 .. CallMax
  BY <1>1, <1>3 DEF CallSpend
<1>5. Carried(t.call[c]) \in 0 .. CallMax
  BY <1>1, <1>4 DEF Carried
<1>6. ChargeOf(t, c, D) \in Nat
  BY <1>1, <1>5 DEF ChargeOf
<1>7. NetCharge(t, c, D) \in Nat /\ NetCharge(t, c, D) <= ChargeOf(t, c, D)
  BY <1>6 DEF NetCharge
<1> QED BY <1>2, <1>4, <1>5, <1>6, <1>7

\* What each hold adds to the sums is a number,
LEMMA HoldsAdd ==
    ASSUME NEW r \in LooseRow
    PROVE  /\ r.amount \in Int /\ r.actual \in Int /\ HeldOf(r) \in Int /\ NetOf(r) \in Int
<1>1. r.amount \in Int /\ r.actual \in Int
  BY DEF LooseRow
<1> QED BY <1>1 DEF HeldOf, NetOf

\* and so is each sum.
LEMMA SumsAre ==
    ASSUME NEW t \in TablesType, NEW D
    PROVE  /\ HeldSum(t) \in Int /\ ActualSum(t) \in Int /\ NetSum(t) \in Int
           /\ ChargeSum(t, D) \in Nat /\ NetChargeSum(t, D) \in Nat
           /\ TopUpsOf(t) \in Nat /\ Approved \in Nat
           /\ t.envelope.held \in Int /\ t.envelope.actual \in Int /\ t.envelope.maximum \in Int
           /\ Committed(t) \in Int /\ Spare(t, D) \in Int
<1>1. \A h \in Hold : t.hold[h] \in LooseRow
  BY TablesAre
<1>2. \A h \in Hold : /\ t.hold[h].actual \in Int /\ HeldOf(t.hold[h]) \in Int
                      /\ NetOf(t.hold[h]) \in Int
  BY <1>1, HoldsAdd
<1>3. HeldSum(t) \in Int
  BY <1>2, RowsAreFinite, SumType DEF HeldSum
<1>4. ActualSum(t) \in Int
  BY <1>2, RowsAreFinite, SumType DEF ActualSum
<1>5. NetSum(t) \in Int
  BY <1>2, RowsAreFinite, SumType DEF NetSum
<1>6. ChargeSum(t, D) \in Nat
  BY ChargesAre, RowsAreFinite, SumOfNaturals DEF ChargeSum
<1>7. NetChargeSum(t, D) \in Nat
  BY ChargesAre, RowsAreFinite, SumOfNaturals DEF NetChargeSum
<1>8. TopUpsOf(t) \in Nat /\ Approved \in Nat
  BY TopUpsAre, SomePrices
<1>9. /\ t.envelope.held \in Int /\ t.envelope.actual \in Int /\ t.envelope.maximum \in Int
  <2>1. t.envelope \in EnvelopeType
    BY TablesAre
  <2> QED BY <2>1 DEF EnvelopeType
<1>10. Committed(t) \in Int
  BY <1>9 DEF Committed
<1>11. Spare(t, D) \in Int
  BY <1>5, <1>7, <1>8 DEF Spare
<1> QED BY <1>3, <1>4, <1>5, <1>6, <1>7, <1>8, <1>9, <1>10, <1>11

\* A sum over the holds moves by what one rewritten row adds.
LEMMA RowSum ==
    ASSUME NEW f, NEW g, NEW h \in Hold, \A x \in Hold : f[x] \in Int /\ g[x] \in Int,
           \A x \in Hold \ {h} : f[x] = g[x]
    PROVE  SumFunctionOnSet(g, Hold) = SumFunctionOnSet(f, Hold) - f[h] + g[h]
<1>1. IsFiniteSet(Hold)
  BY RowsAreFinite
<1>2. SumFunctionOnSet(f, Hold) - (IF h \in Hold THEN f[h] ELSE 0)
        = SumFunctionOnSet(g, Hold) - (IF h \in Hold THEN g[h] ELSE 0)
  BY <1>1, SumBeside
<1>3. SumFunctionOnSet(f, Hold) \in Int /\ SumFunctionOnSet(g, Hold) \in Int
  BY <1>1, SumType
<1> QED BY <1>2, <1>3

\* The calls' charges, with one hold's row rewritten.
LEMMA WithCharges ==
    ASSUME NEW t \in TablesType, NEW h \in Hold, NEW r \in LooseRow, NEW e \in EnvelopeType,
           LeavesCharges(t, h, r), NEW D
    PROVE  LET u == With(t, h, r, e) IN
           \A c \in Call : /\ ChargeOf(u, c, D) = ChargeOf(t, c, D)
                           /\ NetCharge(u, c, D) <= NetCharge(t, c, D)
<1> DEFINE u == With(t, h, r, e)
<1>1. /\ u \in TablesType /\ u.hold[h] = r /\ \A g \in Hold \ {h} : u.hold[g] = t.hold[g]
      /\ u.call = t.call /\ u.asks = t.asks
  BY WithIs DEF With
<1> HIDE DEF u
<1>2. ASSUME NEW c \in Call PROVE ChargeOf(u, c, D) = ChargeOf(t, c, D)
  <2>1. CASE t.call[c].state = "none"
    BY <1>1, <2>1 DEF ChargeOf
  <2>2. CASE t.call[c].state # "none"
    <3>1. t.call[c].of \in Hold
      BY ChargesAre DEF CallRow
    <3>2. u.hold[t.call[c].of].ended = t.hold[t.call[c].of].ended
      BY <1>1, <2>2, <3>1 DEF LeavesCharges, CallsOn
    <3>3. MovedIn(u, t.call[c].of) = MovedIn(t, t.call[c].of)
      BY <1>1, <3>2 DEF MovedIn, ToppedUpHeld
    <3> QED BY <1>1, <3>3 DEF ChargeOf
  <2> QED BY <2>1, <2>2
<1>3. ASSUME NEW c \in Call PROVE NetCharge(u, c, D) <= NetCharge(t, c, D)
  <2>1. t.call[c].of \in Hold /\ ChargeOf(t, c, D) \in Nat
    BY ChargesAre DEF CallRow
  <2>2. Again(t.hold[t.call[c].of]) => Again(u.hold[u.call[c].of])
    BY <1>1, <2>1 DEF LeavesCharges
  <2> QED BY <1>2, <2>1, <2>2 DEF NetCharge
<1> QED BY <1>2, <1>3 DEF u

\* The sums, with one hold's row rewritten.
LEMMA WithSums ==
    ASSUME NEW t \in TablesType, NEW h \in Hold, NEW r \in LooseRow, NEW e \in EnvelopeType,
           LeavesCharges(t, h, r), NEW D
    PROVE  LET u == With(t, h, r, e) IN
           /\ HeldSum(u) = HeldSum(t) - HeldOf(t.hold[h]) + HeldOf(r)
           /\ ActualSum(u) = ActualSum(t) - t.hold[h].actual + r.actual
           /\ ChargeSum(u, D) = ChargeSum(t, D)
           /\ Spare(u, D) >= Spare(t, D) - NetOf(t.hold[h]) + NetOf(r)
<1> DEFINE u == With(t, h, r, e)
<1>1. /\ u \in TablesType /\ u.hold[h] = r /\ \A g \in Hold \ {h} : u.hold[g] = t.hold[g]
      /\ u.call = t.call /\ u.asks = t.asks
  BY WithIs DEF With
<1>2. \A c \in Call : /\ ChargeOf(u, c, D) = ChargeOf(t, c, D)
                      /\ NetCharge(u, c, D) <= NetCharge(t, c, D)
  BY WithCharges
<1> HIDE DEF u
<1>3. \A g \in Hold : t.hold[g] \in LooseRow /\ u.hold[g] \in LooseRow
  BY <1>1, TablesAre
<1>4. \A g \in Hold :
         /\ t.hold[g].actual \in Int /\ HeldOf(t.hold[g]) \in Int /\ NetOf(t.hold[g]) \in Int
         /\ u.hold[g].actual \in Int /\ HeldOf(u.hold[g]) \in Int /\ NetOf(u.hold[g]) \in Int
  BY <1>3, HoldsAdd
<1>5. HeldSum(u) = HeldSum(t) - HeldOf(t.hold[h]) + HeldOf(r)
  <2> DEFINE f == [g \in Hold |-> HeldOf(t.hold[g])]
             k == [g \in Hold |-> HeldOf(u.hold[g])]
  <2>1. /\ \A x \in Hold : f[x] \in Int /\ k[x] \in Int
        /\ \A x \in Hold \ {h} : f[x] = k[x]
        /\ f[h] = HeldOf(t.hold[h]) /\ k[h] = HeldOf(r)
    BY <1>1, <1>4
  <2> HIDE DEF f, k
  <2>2. SumFunctionOnSet(k, Hold) = SumFunctionOnSet(f, Hold) - f[h] + k[h]
    BY <2>1, RowSum
  <2> QED BY <2>1, <2>2 DEF HeldSum, f, k
<1>6. ActualSum(u) = ActualSum(t) - t.hold[h].actual + r.actual
  <2> DEFINE f == [g \in Hold |-> t.hold[g].actual]
             k == [g \in Hold |-> u.hold[g].actual]
  <2>1. /\ \A x \in Hold : f[x] \in Int /\ k[x] \in Int
        /\ \A x \in Hold \ {h} : f[x] = k[x]
        /\ f[h] = t.hold[h].actual /\ k[h] = r.actual
    BY <1>1, <1>4
  <2> HIDE DEF f, k
  <2>2. SumFunctionOnSet(k, Hold) = SumFunctionOnSet(f, Hold) - f[h] + k[h]
    BY <2>1, RowSum
  <2> QED BY <2>1, <2>2 DEF ActualSum, f, k
<1>7. NetSum(u) = NetSum(t) - NetOf(t.hold[h]) + NetOf(r)
  <2> DEFINE f == [g \in Hold |-> NetOf(t.hold[g])]
             k == [g \in Hold |-> NetOf(u.hold[g])]
  <2>1. /\ \A x \in Hold : f[x] \in Int /\ k[x] \in Int
        /\ \A x \in Hold \ {h} : f[x] = k[x]
        /\ f[h] = NetOf(t.hold[h]) /\ k[h] = NetOf(r)
    BY <1>1, <1>4
  <2> HIDE DEF f, k
  <2>2. SumFunctionOnSet(k, Hold) = SumFunctionOnSet(f, Hold) - f[h] + k[h]
    BY <2>1, RowSum
  <2> QED BY <2>1, <2>2 DEF NetSum, f, k
<1>8. ChargeSum(u, D) = ChargeSum(t, D)
  <2> DEFINE f == [c \in Call |-> ChargeOf(t, c, D)]
             k == [c \in Call |-> ChargeOf(u, c, D)]
  <2>1. \A c \in Call : k[c] = f[c]
    BY <1>2
  <2> HIDE DEF f, k
  <2>2. SumFunctionOnSet(k, Call) = SumFunctionOnSet(f, Call)
    BY <2>1, RowsAreFinite, SumSame
  <2> QED BY <2>2 DEF ChargeSum, f, k
<1>9. NetChargeSum(u, D) <= NetChargeSum(t, D)
  <2> DEFINE f == [c \in Call |-> NetCharge(t, c, D)]
             k == [c \in Call |-> NetCharge(u, c, D)]
  <2>1. \A c \in Call : NetCharge(t, c, D) \in Int /\ NetCharge(u, c, D) \in Int
    BY <1>1, ChargesAre
  <2>2. \A c \in Call : k[c] \in Int /\ f[c] \in Int /\ k[c] <= f[c]
    BY <1>2, <2>1
  <2> HIDE DEF f, k
  <2>3. SumFunctionOnSet(k, Call) <= SumFunctionOnSet(f, Call)
    BY <2>2, RowsAreFinite, SumNoMore
  <2> QED BY <2>3 DEF NetChargeSum, f, k
<1>10. TopUpsOf(u) = TopUpsOf(t)
  BY <1>1 DEF TopUpsOf
<1>11. /\ NetSum(t) \in Int /\ NetSum(u) \in Int /\ NetChargeSum(t, D) \in Int
       /\ NetChargeSum(u, D) \in Int /\ TopUpsOf(t) \in Int /\ Approved \in Int
       /\ NetOf(t.hold[h]) \in Int /\ NetOf(r) \in Int
  BY <1>1, <1>4, SumsAre
<1>12. Spare(u, D) >= Spare(t, D) - NetOf(t.hold[h]) + NetOf(r)
  BY <1>7, <1>9, <1>10, <1>11 DEF Spare
<1> QED BY <1>5, <1>6, <1>8, <1>12 DEF u

\* The rows are kept with such a row put in its place.
LEMMA WithRows ==
    ASSUME NEW t \in TablesType, RowsKept(t), NEW h \in Hold, NEW r \in LooseRow,
           NEW e \in EnvelopeType, RowGoesOn(t, h, r), LeavesCharges(t, h, r)
    PROVE  RowsKept(With(t, h, r, e))
<1> DEFINE u == With(t, h, r, e)
<1>1. /\ u \in TablesType /\ u.hold[h] = r /\ \A g \in Hold \ {h} : u.hold[g] = t.hold[g]
      /\ u.call = t.call /\ u.asks = t.asks
  BY WithIs DEF With
<1> HIDE DEF u
<1>2. \A g \in Hold : RowPaid(u.hold[g])
  BY <1>1 DEF RowsKept, RowGoesOn
<1>3. ASSUME NEW c \in Call PROVE CallKept(u, c)
  <2> DEFINE g == t.call[c].of
  <2>1. g \in Hold /\ CallKept(t, c) /\ t.call[c] \in CallRow
    BY ChargesAre DEF CallRow, RowsKept
  <2>2. CASE t.call[c].state = "none"
    BY <1>1, <2>1, <2>2 DEF CallKept, NoCall, Open, Sent
  <2>3. CASE t.call[c].state # "none"
    <3>1. c \in CallsOn(t, g)
      BY <2>3 DEF CallsOn
    <3>2. u.hold[g].ended = t.hold[g].ended
      BY <1>1, <2>1, <3>1 DEF LeavesCharges
    <3>3. MovedIn(u, g) = MovedIn(t, g) /\ Counted(u, g) = Counted(t, g)
      BY <1>1, <3>2 DEF MovedIn, ToppedUpHeld, Counted, ToppedUp
    <3>4. t.hold[g].lease # "none" => u.hold[g].lease # "none"
      BY <1>1, <2>1 DEF RowGoesOn
    <3>5. u.hold[g].state = "held" => t.hold[g].state = "held"
      BY <1>1, <2>1, <3>1 DEF RowGoesOn, Fresh
    <3>6. WrittenOff(t) => WrittenOff(u)
      BY <1>1 DEF RowGoesOn, WrittenOff
    <3> HIDE DEF g
    <3>7. u.call[c] = t.call[c] /\ t.call[c].of = g
      BY <1>1 DEF g
    <3> QED BY <2>1, <2>3, <3>3, <3>4, <3>5, <3>6, <3>7 DEF CallKept
  <2> QED BY <2>2, <2>3
<1>4. CallsInOrder(u)
  BY <1>1 DEF RowsKept, CallsInOrder
<1>5. StoppedOnce(u)
  <2>1. \A i \in DOMAIN t.asks : t.asks[i].of \in Hold
    BY AsksAre DEF AskRow
  <2>2. \A i \in DOMAIN t.asks : u.hold[t.asks[i].of].state = "held"
                                  => t.hold[t.asks[i].of].state = "held"
    BY <1>1, <2>1 DEF RowGoesOn, Fresh
  <2> QED BY <1>1, <2>2 DEF RowsKept, StoppedOnce
<1>6. ASSUME NEW g \in HeldIn(u) PROVE MovedIn(u, g) \/ SpentOn(u, g) <= u.hold[g].amount
  <2>1. CallsOn(u, g) = CallsOn(t, g) /\ SpentOn(u, g) = SpentOn(t, g) /\ g \in Hold
    BY <1>1 DEF CallsOn, SpentOn, HeldIn
  <2>2. SpentOn(t, g) \in Nat /\ t.hold[g].amount \in Int /\ u.hold[g].amount \in Int
    BY <1>1, <2>1, CallsCostNat, AmountsAre
  <2>3. CASE g = h /\ Fresh(t, h)
    <3>1. CallsOn(t, g) = {}
      BY <2>3 DEF Fresh
    <3>2. SpentOn(t, g) = 0
      BY <3>1, SumOfNothing DEF SpentOn
    <3>3. u.hold[g].amount \in Nat
      BY <1>2, <2>1 DEF RowPaid
    <3> QED BY <2>1, <3>2, <3>3
  <2>4. CASE ~ (g = h /\ Fresh(t, h))
    <3>1. t.hold[g].state = "held" /\ u.hold[g].amount >= t.hold[g].amount
      BY <1>1, <2>1, <2>2, <2>4 DEF RowGoesOn, HeldIn
    <3>2. MovedIn(t, g) \/ SpentOn(t, g) <= t.hold[g].amount
      BY <2>1, <3>1 DEF RowsKept, Covers, HeldIn
    <3>3. CASE SpentOn(t, g) <= t.hold[g].amount
      BY <2>1, <2>2, <3>1, <3>3
    <3>4. CASE MovedIn(t, g)
      <4>1. CASE g = h /\ CallsOn(t, h) = {}
        <5>1. SpentOn(t, g) = 0
          BY <4>1, SumOfNothing DEF SpentOn
        <5>2. u.hold[g].amount \in Nat
          BY <1>2, <2>1 DEF RowPaid
        <5> QED BY <2>1, <5>1, <5>2
      <4>2. CASE ~ (g = h /\ CallsOn(t, h) = {})
        <5>1. u.hold[g].ended = t.hold[g].ended
          BY <1>1, <2>1, <4>2 DEF LeavesCharges
        <5> QED BY <1>1, <3>4, <5>1 DEF MovedIn, ToppedUpHeld
      <4> QED BY <4>1, <4>2
    <3> QED BY <3>2, <3>3, <3>4
  <2> QED BY <2>3, <2>4
<1>7. Covers(u)
  BY <1>6 DEF Covers
<1> QED BY <1>2, <1>3, <1>4, <1>5, <1>7 DEF RowsKept, u

\* The balance is kept, and the approved spend moves by the rows' difference.
LEMMA WithMoney ==
    ASSUME NEW t \in TablesType, NEW D, MoneyKept(t, D), NEW h \in Hold, NEW r \in LooseRow,
           NEW e \in EnvelopeType, RowGoesOn(t, h, r), LeavesCharges(t, h, r),
           EnvelopeFor(t, h, r, e)
    PROVE  /\ With(t, h, r, e) \in TablesType /\ MoneyKept(With(t, h, r, e), D)
           /\ Spare(With(t, h, r, e), D) >= Spare(t, D) - NetOf(t.hold[h]) + NetOf(r)
           /\ Committed(With(t, h, r, e))
                = Committed(t) - HeldOf(t.hold[h]) - t.hold[h].actual + HeldOf(r) + r.actual
           /\ With(t, h, r, e).envelope = e
<1> DEFINE u == With(t, h, r, e)
<1>1. u \in TablesType /\ u.envelope = e
  BY WithIs DEF With
<1>2. /\ HeldSum(u) = HeldSum(t) - HeldOf(t.hold[h]) + HeldOf(r)
      /\ ActualSum(u) = ActualSum(t) - t.hold[h].actual + r.actual
      /\ ChargeSum(u, D) = ChargeSum(t, D)
      /\ Spare(u, D) >= Spare(t, D) - NetOf(t.hold[h]) + NetOf(r)
  BY WithSums
<1>3. RowsKept(u)
  BY WithRows DEF MoneyKept
<1> HIDE DEF u
<1>4. /\ HeldSum(t) \in Int /\ ActualSum(t) \in Int /\ ChargeSum(t, D) \in Int
      /\ t.envelope.held \in Int /\ t.envelope.actual \in Int
  BY SumsAre
<1>5. /\ t.hold[h].actual \in Int /\ HeldOf(t.hold[h]) \in Int
      /\ r.actual \in Int /\ HeldOf(r) \in Int
  <2>1. t.hold[h] \in LooseRow
    BY TablesAre
  <2> QED BY <2>1, HoldsAdd
<1>6. Balanced(u, D)
  BY <1>1, <1>2, <1>4, <1>5 DEF MoneyKept, Balanced, EnvelopeFor
<1>7. Committed(u) = Committed(t) - HeldOf(t.hold[h]) - t.hold[h].actual + HeldOf(r) + r.actual
  BY <1>1, <1>4, <1>5 DEF Committed, EnvelopeFor
<1> QED BY <1>1, <1>2, <1>3, <1>6, <1>7 DEF MoneyKept, u

\* So tables stay sound where a row takes no more of the envelope than the other.
LEMMA WithSound ==
    ASSUME NEW t, NEW D, NEW n \in Int, NEW k \in Int, Sound(t, D, n, k),
           NEW h \in Hold, NEW r \in LooseRow,
           NEW e \in EnvelopeType, RowGoesOn(t, h, r), LeavesCharges(t, h, r),
           EnvelopeFor(t, h, r, e), e.maximum = t.envelope.maximum,
           HeldOf(r) + r.actual <= HeldOf(t.hold[h]) + t.hold[h].actual,
           NEW m \in Int, m <= n - NetOf(t.hold[h]) + NetOf(r)
    PROVE  Sound(With(t, h, r, e), D, m, k)
<1> DEFINE u == With(t, h, r, e)
<1>1. t \in TablesType /\ MoneyKept(t, D) /\ CeilingsKept(t, D, n, k)
  BY DEF Sound
<1>2. /\ u \in TablesType /\ MoneyKept(u, D)
      /\ Spare(u, D) >= Spare(t, D) - NetOf(t.hold[h]) + NetOf(r)
      /\ Committed(u) = Committed(t) - HeldOf(t.hold[h]) - t.hold[h].actual + HeldOf(r) + r.actual
      /\ u.envelope = e
  BY <1>1, WithMoney
<1> HIDE DEF u
<1>3. /\ t.hold[h].actual \in Int /\ HeldOf(t.hold[h]) \in Int /\ NetOf(t.hold[h]) \in Int
      /\ r.actual \in Int /\ HeldOf(r) \in Int /\ NetOf(r) \in Int
  <2>1. t.hold[h] \in LooseRow
    BY <1>1, TablesAre
  <2> QED BY <2>1, HoldsAdd
<1>4. /\ Spare(t, D) \in Int /\ Committed(t) \in Int /\ t.envelope.maximum \in Int
      /\ Spare(u, D) \in Int /\ Committed(u) \in Int
  BY <1>1, <1>2, SumsAre
<1>5. Spare(u, D) >= m
  BY <1>1, <1>2, <1>3, <1>4 DEF CeilingsKept
<1>6. Cap \in Int
  BY SomePrices
<1>7. Committed(u) <= u.envelope.maximum /\ Committed(u) + k <= Cap
  BY <1>1, <1>2, <1>3, <1>4, <1>6 DEF CeilingsKept
<1> QED BY <1>2, <1>5, <1>7 DEF Sound, CeilingsKept, u

\* A row rewritten so moves no money.
LEMMA SameMoneySound ==
    ASSUME NEW t, NEW D, NEW n \in Int, NEW k \in Int, Sound(t, D, n, k),
           NEW h \in Hold, NEW r \in LooseRow, SameMoney(t.hold[h], r)
    PROVE  Sound(With(t, h, r, t.envelope), D, n, k)
<1>1. t \in TablesType /\ RowsKept(t)
  BY DEF Sound, MoneyKept
<1>2. t.hold[h] \in LooseRow /\ t.envelope \in EnvelopeType /\ RowPaid(t.hold[h])
  BY <1>1, TablesAre DEF RowsKept
<1>3. RowGoesOn(t, h, r) /\ LeavesCharges(t, h, r)
  BY <1>2 DEF RowGoesOn, LeavesCharges, SameMoney, RowPaid
<1>4. HeldOf(r) = HeldOf(t.hold[h]) /\ NetOf(r) = NetOf(t.hold[h]) /\ r.actual = t.hold[h].actual
  BY DEF HeldOf, NetOf, SameMoney
<1>5. /\ r.actual \in Int /\ HeldOf(r) \in Int /\ NetOf(r) \in Int
      /\ t.envelope.held \in Int /\ t.envelope.actual \in Int
  BY <1>2, HoldsAdd DEF EnvelopeType
<1>6. EnvelopeFor(t, h, r, t.envelope)
  BY <1>4, <1>5 DEF EnvelopeFor
<1>7. n <= n - NetOf(t.hold[h]) + NetOf(r)
      /\ HeldOf(r) + r.actual <= HeldOf(t.hold[h]) + t.hold[h].actual
  BY <1>4, <1>5
<1> QED BY <1>2, <1>3, <1>6, <1>7, WithSound

(***************************************************************************)
(* The money: closing, stopping, ending and reserving a hold.              *)
(***************************************************************************)

\* What a held hold's settled calls cost is never more than it holds.
LEMMA CostIsCovered ==
    ASSUME NEW t \in TablesType, RowsKept(t), NEW h \in Hold, t.hold[h].state = "held"
    PROVE  CallsCost(t, h) \in Nat /\ CallsCost(t, h) <= t.hold[h].amount
<1>1. /\ CallsOn(t, h) \in SUBSET Call /\ IsFiniteSet(CallsOn(t, h))
      /\ CallsCost(t, h) \in Nat /\ SpentOn(t, h) \in Nat
  BY CallsCostNat
<1>2. t.hold[h].amount \in Nat /\ ~ t.hold[h].ended
  BY DEF RowsKept, RowPaid
<1>3. CASE ToppedUp(t, h)
  BY <1>1, <1>2, <1>3 DEF CallsCost
<1>4. CASE ~ ToppedUp(t, h)
  <2> DEFINE f == [c \in Call |-> IF t.call[c].state = "settled" THEN t.call[c].actual ELSE 0]
             g == [c \in Call |-> CallSpend(t.call[c])]
  <2>1. SpentOn(t, h) <= t.hold[h].amount
    BY <1>2, <1>4 DEF RowsKept, Covers, HeldIn, MovedIn, ToppedUpHeld, ToppedUp
  <2>2. \A c \in CallsOn(t, h) : f[c] \in Int /\ g[c] \in Int /\ f[c] <= g[c]
    <3> SUFFICES ASSUME NEW c \in CallsOn(t, h) PROVE f[c] \in Int /\ g[c] \in Int /\ f[c] <= g[c]
      OBVIOUS
    <3>1. c \in Call /\ t.call[c] \in CallRow /\ CallSpend(t.call[c]) \in 0 .. CallMax
          /\ CallMax \in Nat
      BY <1>1, ChargesAre, SomePrices
    <3>2. t.call[c].actual \in 0 .. CallMax
      BY <3>1 DEF CallRow
    <3> QED BY <3>1, <3>2 DEF CallSpend
  <2> HIDE DEF f, g
  <2>3. SumFunctionOnSet(f, CallsOn(t, h)) <= SumFunctionOnSet(g, CallsOn(t, h))
    BY <1>1, <2>2, SumNoMore
  <2>4. CallsCost(t, h) <= SpentOn(t, h)
    BY <1>4, <2>3 DEF CallsCost, SpentOn, f, g
  <2> QED BY <1>1, <1>2, <2>1, <2>4
<1> QED BY <1>3, <1>4

\* A hold closed at a charge gives the rest back to the approved spend.
LEMMA ClosingSound ==
    ASSUME NEW t, NEW D, NEW n \in Int, NEW k \in Int, Sound(t, D, n, k),
           NEW h \in Hold, t.hold[h].state = "held",
           NEW charge \in Nat, charge <= t.hold[h].amount, NEW r \in LooseRow,
           r.state = IF charge > 0 THEN "actual" ELSE "abandoned",
           r.actual = charge, r.amount = t.hold[h].amount,
           r.absent = t.hold[h].absent, r.marked = t.hold[h].marked, r.word = t.hold[h].word,
           LeavesCharges(t, h, r), r.ended => charge = 0, t.hold[h].lease # "none" => r.lease # "none"
    PROVE  Sound(With(t, h, r, ClosedEnvelope(t, h, charge)), D,
                 n + t.hold[h].amount - charge, k)
<1> DEFINE e == ClosedEnvelope(t, h, charge)
           o == t.hold[h]
<1>1. t \in TablesType /\ RowsKept(t)
  BY DEF Sound, MoneyKept
<1>2. o \in LooseRow /\ RowPaid(o) /\ t.envelope \in EnvelopeType
  BY <1>1, TablesAre DEF RowsKept
<1>3. /\ o.amount \in Nat /\ o.amount > 0 /\ o.actual = 0 /\ o.word = "none"
      /\ o.step # "written_off" /\ (o.absent => o.marked)
  BY <1>2 DEF RowPaid
<1>4. RowPaid(r)
  BY <1>3 DEF RowPaid
<1>5. RowGoesOn(t, h, r)
  BY <1>3, <1>4 DEF RowGoesOn
<1>6. HeldOf(o) = o.amount /\ HeldOf(r) = 0
  BY DEF HeldOf
<1>7. NetOf(r) - NetOf(o) = o.amount - charge
  BY <1>3, <1>6 DEF NetOf, Again
<1>8. NetOf(r) \in Int /\ NetOf(o) \in Int
  BY <1>2, HoldsAdd
<1>9. e \in EnvelopeType /\ e.maximum = t.envelope.maximum
  BY <1>2, <1>3 DEF ClosedEnvelope, EnvelopeType
<1>10. t.envelope.held \in Int /\ t.envelope.actual \in Int
  BY <1>2 DEF EnvelopeType
<1>11. EnvelopeFor(t, h, r, e)
  BY <1>3, <1>6, <1>10 DEF EnvelopeFor, ClosedEnvelope
<1>12. HeldOf(r) + r.actual <= HeldOf(o) + o.actual
  BY <1>3, <1>6
<1> HIDE DEF e, o
<1>13. n + o.amount - charge <= n - NetOf(o) + NetOf(r) /\ n + o.amount - charge \in Int
  BY <1>3, <1>7, <1>8
<1> QED BY <1>5, <1>9, <1>11, <1>12, <1>13, WithSound DEF e, o

\* closeHold, of a held hold and at no more than it holds.
LEMMA ClosedSound ==
    ASSUME NEW t, NEW D, NEW n \in Int, NEW k \in Int, Sound(t, D, n, k),
           NEW h \in Hold, t.hold[h].state = "held",
           NEW charge \in Nat, charge <= t.hold[h].amount,
           NEW step \in {"completed", "failed", "written_off", "abandoned"}
    PROVE  Sound(Closed(t, h, charge, step), D, n + t.hold[h].amount - charge, k)
<1> DEFINE r == ClosedRow(t.hold[h], charge, step)
<1>1. t \in TablesType
  BY DEF Sound
<1>2. Closed(t, h, charge, step) = With(t, h, r, ClosedEnvelope(t, h, charge)) /\ r \in LooseRow
  BY <1>1, ClosedIs
<1>3. t.hold[h] \in LooseRow /\ RowPaid(t.hold[h])
  BY <1>1, TablesAre DEF Sound, MoneyKept, RowsKept
<1>4. /\ r.state = (IF charge > 0 THEN "actual" ELSE "abandoned")
      /\ r.actual = charge /\ r.amount = t.hold[h].amount
      /\ r.absent = t.hold[h].absent /\ r.marked = t.hold[h].marked /\ r.word = t.hold[h].word
      /\ r.ended = t.hold[h].ended /\ r.lease = t.hold[h].lease
  BY <1>3 DEF ClosedRow, LooseRow
<1>5. ~ r.ended
  BY <1>3, <1>4 DEF RowPaid
<1> HIDE DEF r
<1>6. LeavesCharges(t, h, r)
  BY <1>4 DEF LeavesCharges, Again
<1> QED BY <1>2, <1>4, <1>5, <1>6, ClosingSound

\* Less may be left to spare.
LEMMA SpareLess ==
    ASSUME NEW t, NEW D, NEW n \in Int, NEW k \in Int, Sound(t, D, n, k),
           NEW m \in Int, m <= n
    PROVE  Sound(t, D, m, k)
<1>1. Spare(t, D) \in Int
  BY SumsAre DEF Sound
<1> QED BY <1>1 DEF Sound, CeilingsKept

\* A new hold, on the room the approval left.
LEMMA ReservedSound ==
    ASSUME NEW t, OrderKept(t), NEW D, NEW n \in Int, NEW k \in Int, NEW amount \in Nat \ {0},
           Sound(t, D, n + amount, k), NextHold(t) \in Hold, Fits(t, amount)
    PROVE  Sound(Reserved(t, amount), D, n, 0)
<1> DEFINE h == NextHold(t)
           r == FreshHold(amount)
           e == ReservedEnvelope(t, amount)
           u == With(t, h, r, e)
<1>1. t \in TablesType /\ RowsKept(t) /\ MoneyKept(t, D) /\ HoldsInOrder(t)
  BY DEF Sound, MoneyKept, OrderKept
<1>2. Reserved(t, amount) = u /\ r \in LooseRow /\ e \in EnvelopeType
  BY <1>1, ReservedIs
<1>3. t.hold[h].state = "none" /\ RowKept(t.hold[h])
  BY <1>1, NextHoldIs DEF OrderKept
<1>4. t.hold[h] = NoHold
  BY <1>3 DEF RowKept
<1>5. /\ r.state = "held" /\ r.amount = amount /\ r.actual = 0 /\ ~ r.ended /\ ~ r.absent
      /\ r.word = "none" /\ r.step = "reserved"
  BY DEF FreshHold, NoHold
<1>6. RowPaid(r)
  BY <1>5 DEF RowPaid
<1>7. Fresh(t, h)
  <2>1. CallsOn(t, h) = {}
    BY <1>1, <1>4 DEF RowsKept, CallKept, CallsOn, NoHold
  <2>2. \A i \in DOMAIN t.asks : t.asks[i].of # h
    BY <1>4 DEF OrderKept, AsksAreOver, NoHold
  <2> QED BY <2>1, <2>2 DEF Fresh
<1>8. RowGoesOn(t, h, r) /\ LeavesCharges(t, h, r)
  BY <1>4, <1>5, <1>6, <1>7 DEF RowGoesOn, LeavesCharges, Fresh, Again, NoHold
<1>9. /\ HeldOf(r) = amount /\ HeldOf(t.hold[h]) = 0 /\ NetOf(r) = 0 - amount
      /\ NetOf(t.hold[h]) = 0 /\ t.hold[h].actual = 0
  BY <1>4, <1>5 DEF HeldOf, NetOf, Again, NoHold
<1>10. /\ t.envelope.held \in Int /\ t.envelope.actual \in Int /\ t.envelope.maximum \in Int
       /\ Committed(t) \in Int /\ Spare(t, D) \in Int
  BY <1>1, SumsAre
<1>11. EnvelopeFor(t, h, r, e) /\ e.maximum = t.envelope.maximum
  BY <1>5, <1>9, <1>10 DEF EnvelopeFor, ReservedEnvelope
<1> HIDE DEF h, r, e
<1>12. /\ u \in TablesType /\ MoneyKept(u, D)
       /\ Spare(u, D) >= Spare(t, D) - NetOf(t.hold[h]) + NetOf(r)
       /\ Committed(u) = Committed(t) - HeldOf(t.hold[h]) - t.hold[h].actual + HeldOf(r) + r.actual
       /\ u.envelope = e
  BY <1>1, <1>2, <1>8, <1>11, WithMoney DEF h
<1> HIDE DEF u
<1>13. Committed(u) = Committed(t) + amount
  BY <1>5, <1>9, <1>10, <1>12
<1>14. Spare(u, D) >= n
  <2>1. Spare(u, D) \in Int /\ Spare(t, D) >= n + amount
    BY <1>12, SumsAre DEF Sound, CeilingsKept
  <2> QED BY <1>9, <1>10, <1>12, <2>1
<1>15. Committed(u) <= u.envelope.maximum /\ Committed(u) + 0 <= Cap
  <2>1. Committed(t) + amount <= t.envelope.maximum /\ Committed(t) + amount <= Cap
    BY DEF Fits, Committed
  <2> QED BY <1>10, <1>11, <1>12, <1>13, <2>1
<1> QED BY <1>2, <1>12, <1>14, <1>15 DEF Sound, CeilingsKept

(***************************************************************************)
(* The money: asks, runs and calls rewritten.                              *)
(***************************************************************************)

\* Tables stay sound with asks that go on, and gain what a top-up gave.
LEMMA AsksSound ==
    ASSUME NEW t, NEW D, NEW n \in Int, NEW k \in Int, Sound(t, D, n, k),
           NEW u, AsksGoOn(t, u), NEW a \in Nat, TopUpsOf(u) = TopUpsOf(t) + a,
           u.envelope.maximum = t.envelope.maximum + a
    PROVE  Sound(u, D, n + a, k)
<1>1. /\ t \in TablesType /\ u \in TablesType /\ u.hold = t.hold /\ u.call = t.call
      /\ RowsKept(t) /\ Balanced(t, D)
  BY DEF Sound, AsksGoOn, MoneyKept
<1>2. \A c \in Call : t.call[c].of \in Hold
  BY <1>1, ChargesAre DEF CallRow
<1>3. \A c \in Call : ChargeOf(u, c, D) = ChargeOf(t, c, D)
  BY <1>1, <1>2 DEF ChargeOf, AsksGoOn
<1>4. \A c \in Call : NetCharge(u, c, D) = NetCharge(t, c, D)
  BY <1>1, <1>3 DEF NetCharge
<1>5. HeldSum(u) = HeldSum(t) /\ ActualSum(u) = ActualSum(t) /\ NetSum(u) = NetSum(t)
  BY <1>1 DEF HeldSum, ActualSum, NetSum
<1>6. ChargeSum(u, D) = ChargeSum(t, D)
  <2> DEFINE f == [c \in Call |-> ChargeOf(t, c, D)]
             g == [c \in Call |-> ChargeOf(u, c, D)]
  <2>1. \A c \in Call : g[c] = f[c]
    BY <1>3
  <2> HIDE DEF f, g
  <2>2. SumFunctionOnSet(g, Call) = SumFunctionOnSet(f, Call)
    BY <2>1, RowsAreFinite, SumSame
  <2> QED BY <2>2 DEF ChargeSum, f, g
<1>7. NetChargeSum(u, D) = NetChargeSum(t, D)
  <2> DEFINE f == [c \in Call |-> NetCharge(t, c, D)]
             g == [c \in Call |-> NetCharge(u, c, D)]
  <2>1. \A c \in Call : g[c] = f[c]
    BY <1>4
  <2> HIDE DEF f, g
  <2>2. SumFunctionOnSet(g, Call) = SumFunctionOnSet(f, Call)
    BY <2>1, RowsAreFinite, SumSame
  <2> QED BY <2>2 DEF NetChargeSum, f, g
<1>8. RowsKept(u)
  <2>1. \A h \in Hold : RowPaid(u.hold[h])
    BY <1>1 DEF RowsKept
  <2>2. \A c \in Call : CallKept(u, c)
    <3> SUFFICES ASSUME NEW c \in Call PROVE CallKept(u, c)
      OBVIOUS
    <3>1. CallKept(t, c) /\ MovedIn(u, t.call[c].of) = MovedIn(t, t.call[c].of)
          /\ (t.call[c].state \in Open /\ Counted(u, t.call[c].of) => Counted(t, t.call[c].of))
      BY <1>1, <1>2 DEF RowsKept, AsksGoOn
    <3>2. WrittenOff(u) <=> WrittenOff(t)
      BY <1>1 DEF WrittenOff
    <3> QED BY <1>1, <3>1, <3>2 DEF CallKept
  <2>3. CallsInOrder(u)
    BY <1>1 DEF RowsKept, CallsInOrder
  <2>4. Covers(u)
    <3> SUFFICES ASSUME NEW h \in HeldIn(u) PROVE MovedIn(u, h) \/ SpentOn(u, h) <= u.hold[h].amount
      BY DEF Covers
    <3>1. h \in HeldIn(t) /\ h \in Hold
      BY <1>1 DEF HeldIn
    <3>2. SpentOn(u, h) = SpentOn(t, h)
      BY <1>1 DEF SpentOn, CallsOn
    <3> QED BY <1>1, <3>1, <3>2 DEF RowsKept, Covers, AsksGoOn
  <2> QED BY <2>1, <2>2, <2>3, <2>4 DEF RowsKept, AsksGoOn
<1>9. Balanced(u, D)
  BY <1>1, <1>5, <1>6 DEF Balanced, AsksGoOn
<1>10. /\ NetSum(t) \in Int /\ NetChargeSum(t, D) \in Int /\ TopUpsOf(t) \in Int /\ Approved \in Int
       /\ t.envelope.maximum \in Int /\ Committed(t) \in Int
  BY <1>1, SumsAre
<1>11. Spare(u, D) = Spare(t, D) + a
  BY <1>5, <1>7, <1>10 DEF Spare
<1>12. Spare(t, D) \in Int /\ Spare(t, D) >= n
  BY <1>1, SumsAre DEF Sound, CeilingsKept
<1>13. Committed(u) = Committed(t)
  BY DEF Committed, AsksGoOn
<1>14. Committed(u) <= u.envelope.maximum /\ Committed(u) + k <= Cap
  BY <1>10, <1>13 DEF Sound, CeilingsKept
<1> QED BY <1>1, <1>8, <1>9, <1>11, <1>12, <1>14 DEF Sound, MoneyKept, CeilingsKept

\* A run that moves, its asks as they were.
LEMMA RunSound ==
    ASSUME NEW t, NEW D, NEW n \in Int, NEW k \in Int, Sound(t, D, n, k), NEW now \in Runs
    PROVE  Sound(WithRun(t, t.asks, now), D, n, k)
<1> DEFINE u == WithRun(t, t.asks, now)
<1>1. t \in TablesType /\ RowsKept(t)
  BY DEF Sound, MoneyKept
<1>2. /\ t.hold \in [Hold -> LooseRow] /\ t.call \in [Call -> CallRow]
      /\ t.asks \in Seq(AskRow) /\ t.envelope \in EnvelopeType
  BY <1>1, TablesAre
<1>3. /\ u \in TablesType /\ u.hold = t.hold /\ u.call = t.call /\ u.asks = t.asks
      /\ u.envelope = t.envelope
  BY <1>2 DEF WithRun, TablesType, Runs, EnvelopeType
<1> HIDE DEF u
<1>4. StoppedOnce(u)
  BY <1>1, <1>3 DEF RowsKept, StoppedOnce
<1>5. AsksGoOn(t, u)
  BY <1>3, <1>4 DEF AsksGoOn, MovedIn, ToppedUpHeld, Counted, ToppedUp
<1>6. TopUpsOf(u) = TopUpsOf(t) + 0 /\ u.envelope.maximum = t.envelope.maximum + 0
  <2>1. TopUpsOf(u) = TopUpsOf(t)
    BY <1>3 DEF TopUpsOf
  <2> QED BY <1>1, <1>3, <2>1, SumsAre
<1>7. Sound(u, D, n + 0, k)
  BY <1>5, <1>6, AsksSound
<1> QED BY <1>7 DEF u

\* Tables stay sound with calls that go on.
LEMMA CallsSound ==
    ASSUME NEW t, NEW D, NEW n \in Int, NEW k \in Int, Sound(t, D, n, k),
           NEW f \in [Call -> CallRow], CallsGoOn(t, f), NEW E, ChargesStay(t, f, D, E)
    PROVE  Sound(WithCalls(t, f), E, n, k)
<1> DEFINE u == WithCalls(t, f)
<1>1. /\ t \in TablesType /\ RowsKept(t) /\ Balanced(t, D)
  BY DEF Sound, MoneyKept
<1>2. /\ u \in TablesType /\ u.hold = t.hold /\ u.call = f /\ u.asks = t.asks
      /\ u.envelope = t.envelope
  BY <1>1, WithCallsIs DEF WithCalls
<1>3. \A c \in Call : ChargeOf(u, c, E) = ChargeOf(t, c, D)
  BY DEF ChargesStay
<1> HIDE DEF u
<1>4. \A c \in Call : CallGoesOn(t, t.call[c], u.call[c]) /\ t.call[c].of \in Hold
  BY <1>1, <1>2, ChargesAre DEF CallsGoOn, CallRow
<1>5. \A c \in Call : NetCharge(u, c, E) = NetCharge(t, c, D)
  BY <1>2, <1>3, <1>4 DEF NetCharge, CallGoesOn
<1>6. HeldSum(u) = HeldSum(t) /\ ActualSum(u) = ActualSum(t) /\ NetSum(u) = NetSum(t)
      /\ TopUpsOf(u) = TopUpsOf(t)
  BY <1>2 DEF HeldSum, ActualSum, NetSum, TopUpsOf
<1>7. ChargeSum(u, E) = ChargeSum(t, D)
  <2> DEFINE a == [c \in Call |-> ChargeOf(t, c, D)]
             b == [c \in Call |-> ChargeOf(u, c, E)]
  <2>1. \A c \in Call : b[c] = a[c]
    BY <1>3
  <2> HIDE DEF a, b
  <2>2. SumFunctionOnSet(b, Call) = SumFunctionOnSet(a, Call)
    BY <2>1, RowsAreFinite, SumSame
  <2> QED BY <2>2 DEF ChargeSum, a, b
<1>8. NetChargeSum(u, E) = NetChargeSum(t, D)
  <2> DEFINE a == [c \in Call |-> NetCharge(t, c, D)]
             b == [c \in Call |-> NetCharge(u, c, E)]
  <2>1. \A c \in Call : b[c] = a[c]
    BY <1>5
  <2> HIDE DEF a, b
  <2>2. SumFunctionOnSet(b, Call) = SumFunctionOnSet(a, Call)
    BY <2>1, RowsAreFinite, SumSame
  <2> QED BY <2>2 DEF NetChargeSum, a, b
<1>9. \A h \in Hold : MovedIn(u, h) = MovedIn(t, h) /\ Counted(u, h) = Counted(t, h)
  BY <1>2 DEF MovedIn, ToppedUpHeld, Counted, ToppedUp
<1>10. RowsKept(u)
  <2>1. \A h \in Hold : RowPaid(u.hold[h])
    BY <1>1, <1>2 DEF RowsKept
  <2>2. \A c \in Call : CallKept(u, c)
    <3> SUFFICES ASSUME NEW c \in Call PROVE CallKept(u, c)
      OBVIOUS
    <3> DEFINE h == t.call[c].of
    <3>1. /\ CallKept(t, c) /\ CallGoesOn(t, t.call[c], u.call[c]) /\ h \in Hold
          /\ MovedIn(u, h) = MovedIn(t, h) /\ Counted(u, h) = Counted(t, h) /\ u.hold[h] = t.hold[h]
      BY <1>1, <1>2, <1>4, <1>9 DEF RowsKept
    <3>2. WrittenOff(u) <=> WrittenOff(t)
      BY <1>2 DEF WrittenOff
    <3>3. u.call[c].of = h
      BY <3>1 DEF CallGoesOn
    <3> QED BY <3>1, <3>2, <3>3 DEF CallKept, CallGoesOn
  <2>3. CallsInOrder(u)
    BY <1>1, <1>4 DEF RowsKept, CallsInOrder, CallGoesOn
  <2>4. StoppedOnce(u)
    BY <1>1, <1>2 DEF RowsKept, StoppedOnce
  <2>5. Covers(u)
    <3> SUFFICES ASSUME NEW h \in HeldIn(u) PROVE MovedIn(u, h) \/ SpentOn(u, h) <= u.hold[h].amount
      BY DEF Covers
    <3>1. h \in HeldIn(t) /\ h \in Hold /\ u.hold[h] = t.hold[h]
      BY <1>2 DEF HeldIn
    <3>2. CallsOn(u, h) = CallsOn(t, h)
      BY <1>4 DEF CallsOn, CallGoesOn
    <3> DEFINE a == [c \in Call |-> CallSpend(t.call[c])]
               b == [c \in Call |-> CallSpend(u.call[c])]
    <3>3. IsFiniteSet(CallsOn(t, h)) /\ CallsOn(t, h) \in SUBSET Call
          /\ SpentOn(t, h) \in Nat /\ SpentOn(u, h) \in Nat /\ t.hold[h].amount \in Int
      BY <1>1, <1>2, <3>1, CallsCostNat, AmountsAre
    <3>4. CallMax \in Nat /\ \A c \in Call : /\ CallSpend(t.call[c]) \in 0 .. CallMax
                                             /\ CallSpend(u.call[c]) \in 0 .. CallMax
      BY <1>1, <1>2, ChargesAre, SomePrices
    <3>5. \A c \in CallsOn(t, h) : b[c] \in Int /\ a[c] \in Int /\ b[c] <= a[c]
      BY <1>4, <3>3, <3>4 DEF CallGoesOn
    <3> HIDE DEF a, b
    <3>6. SumFunctionOnSet(b, CallsOn(t, h)) <= SumFunctionOnSet(a, CallsOn(t, h))
      BY <3>3, <3>5, SumNoMore
    <3>7. SpentOn(u, h) <= SpentOn(t, h)
      BY <3>2, <3>6 DEF SpentOn, a, b
    <3> QED BY <1>1, <1>9, <3>1, <3>3, <3>7 DEF RowsKept, Covers
  <2> QED BY <2>1, <2>2, <2>3, <2>4, <2>5 DEF RowsKept
<1>11. Balanced(u, E)
  BY <1>1, <1>2, <1>6, <1>7 DEF Balanced
<1>12. Spare(u, E) = Spare(t, D)
  BY <1>6, <1>8 DEF Spare
<1> QED BY <1>2, <1>10, <1>11, <1>12 DEF Sound, MoneyKept, CeilingsKept, Committed, u

(***************************************************************************)
(* The money: giving a call back.                                          *)
(***************************************************************************)

\* A sum over the calls moves by what one of them adds.
LEMMA CallSum ==
    ASSUME NEW f, NEW g, NEW c \in Call, \A x \in Call : f[x] \in Int /\ g[x] \in Int,
           \A x \in Call \ {c} : f[x] = g[x]
    PROVE  SumFunctionOnSet(g, Call) = SumFunctionOnSet(f, Call) - f[c] + g[c]
<1>1. IsFiniteSet(Call)
  BY RowsAreFinite
<1>2. SumFunctionOnSet(f, Call) - (IF c \in Call THEN f[c] ELSE 0)
        = SumFunctionOnSet(g, Call) - (IF c \in Call THEN g[c] ELSE 0)
  BY <1>1, SumBeside
<1>3. SumFunctionOnSet(f, Call) \in Int /\ SumFunctionOnSet(g, Call) \in Int
  BY <1>1, SumType
<1> QED BY <1>2, <1>3

\* A call that gives nothing back is carried as it was.
LEMMA NothingGivenBack ==
    ASSUME NEW t, NEW D, NEW n \in Int, NEW k \in Int, Sound(t, D, n, k),
           NEW c \in Call, ~ GivesBack(t, c)
    PROVE  Sound(t, D \ {c}, n, k)
<1> DEFINE E == D \ {c}
<1>1. t \in TablesType /\ RowsKept(t) /\ t.call \in [Call -> CallRow]
  BY TablesAre DEF Sound, MoneyKept
<1>2. WithCalls(t, t.call) = t
  BY <1>1, TablesAre DEF WithCalls
<1>3. CallsGoOn(t, t.call)
  <2> SUFFICES ASSUME NEW x \in Call PROVE CallGoesOn(t, t.call[x], t.call[x])
    BY DEF CallsGoOn
  <2>1. CallKept(t, x) /\ CallSpend(t.call[x]) \in 0 .. CallMax /\ CallMax \in Nat
    BY <1>1, ChargesAre, SomePrices DEF RowsKept
  <2> QED BY <2>1 DEF CallGoesOn, CallKept
<1>4. ChargeOf(t, c, E) = ChargeOf(t, c, D)
  <2>1. CASE t.call[c].state = "none" \/ ~ MovedIn(t, t.call[c].of)
    BY <2>1 DEF ChargeOf
  <2>2. CASE ~ (t.call[c].state = "none" \/ ~ MovedIn(t, t.call[c].of))
    <3>1. Counted(t, t.call[c].of)
      BY <2>2 DEF MovedIn, Counted, ToppedUpHeld, ToppedUp
    <3>2. t.call[c] \in CallRow
      BY <1>1
    <3>3. t.call[c].state \in Open \/ t.call[c].writtenOff
      BY <2>2, <3>1, <3>2 DEF GivesBack, CallRow, Open, Sent
    <3>4. Carried(t.call[c]) = CallMax
      BY <3>3 DEF Carried, CallSpend, Open, Sent
    <3> QED BY <3>4 DEF ChargeOf
  <2> QED BY <2>1, <2>2
<1>5. \A x \in Call : ChargeOf(t, x, E) = ChargeOf(t, x, D)
  BY <1>4 DEF ChargeOf
<1> HIDE DEF E
<1>6. ChargesStay(t, t.call, D, E)
  BY <1>2, <1>5 DEF ChargesStay
<1>7. Sound(WithCalls(t, t.call), E, n, k)
  BY <1>1, <1>3, <1>6, CallsSound
<1> QED BY <1>2, <1>7 DEF E

\* giveBack of a call the envelope carries whole leaves it what the call cost.
LEMMA GivenBackSound ==
    ASSUME NEW t, NEW D \in SUBSET Call, NEW n \in Int, NEW k \in Int, Sound(t, D, n, k),
           NEW c \in D, GivesBack(t, c) => MovedIn(t, t.call[c].of)
    PROVE  Sound(GivenBack(t, c), D \ {c}, n, k)
<1>1. t \in TablesType /\ RowsKept(t) /\ MoneyKept(t, D) /\ c \in Call
  BY DEF Sound, MoneyKept
<1>2. CASE ~ GivesBack(t, c)
  BY <1>1, <1>2, NothingGivenBack, GivenBackIs
<1>3. CASE GivesBack(t, c)
  <2> DEFINE h == t.call[c].of
             b == Back(t, c)
             o == t.hold[h]
             r == GivenRow(o, b)
             e == GivenEnvelope(t, h, b)
             E == D \ {c}
             u == With(t, h, r, e)
  <2>1. /\ GivenBack(t, c) = u /\ r \in LooseRow /\ e \in EnvelopeType /\ h \in Hold /\ b \in Nat
    BY <1>1, <1>3, GivenBackIs
  <2>2. o \in LooseRow /\ RowPaid(o)
    BY <1>1, <2>1, TablesAre DEF RowsKept
  <2>3. /\ r.state = o.state /\ r.actual = o.actual /\ r.ended = o.ended /\ r.lease = o.lease
        /\ r.step = o.step /\ r.marked = o.marked /\ r.absent = o.absent /\ r.word = o.word
        /\ r.amount = IF o.state = "held" THEN o.amount + b ELSE o.amount
    BY <2>2 DEF GivenRow, LooseRow
  <2>4. o.amount \in Nat /\ o.actual \in Nat
    BY <2>2 DEF RowPaid
  <2>30. /\ e.held = (IF o.state = "held" THEN t.envelope.held + b ELSE t.envelope.held)
         /\ e.actual = t.envelope.actual - b /\ e.maximum = t.envelope.maximum
    BY DEF GivenEnvelope
  <2> HIDE DEF r, e, b
  <2>5. RowPaid(r) /\ Again(r) = Again(o)
    <3> HIDE DEF o
    <3> QED BY <2>1, <2>2, <2>3, <2>4 DEF RowPaid, Again
  <2>6. e.held = t.envelope.held - HeldOf(o) + HeldOf(r)
        /\ e.actual = t.envelope.actual - b /\ e.maximum = t.envelope.maximum
    <3>1. t.envelope.held \in Int
      BY <1>1, SumsAre
    <3> HIDE DEF o
    <3> QED BY <2>1, <2>3, <2>4, <2>30, <3>1 DEF HeldOf
  <2>7. IF Again(o) THEN NetOf(r) = NetOf(o)
        ELSE NetOf(r) = NetOf(o) - (IF o.state = "held" THEN b ELSE 0)
    <3> HIDE DEF o
    <3> QED BY <2>1, <2>3, <2>4, <2>5 DEF NetOf, HeldOf
  <2>8. HeldOf(r) = HeldOf(o) + (IF o.state = "held" THEN b ELSE 0)
    <3> HIDE DEF o
    <3> QED BY <2>1, <2>3, <2>4 DEF HeldOf
  <2>9. ChargeOf(t, c, D) = CallMax /\ ChargeOf(t, c, E) = CallMax - b
    <3>1. /\ CallMax \in Nat /\ t.call[c] \in CallRow /\ CallKept(t, c)
      BY <1>1, ChargesAre, SomePrices DEF RowsKept
    <3>2. Carried(t.call[c]) = t.call[c].actual /\ t.call[c].actual \in Int
      BY <1>3, <3>1 DEF GivesBack, Carried, CallSpend, CallKept, Open, Sent, CallRow
    <3>3. t.call[c].state # "none" /\ MovedIn(t, h)
      BY <1>3 DEF GivesBack
    <3>4. b = CallMax - t.call[c].actual
      BY DEF b, Back
    <3> QED BY <3>1, <3>2, <3>3, <3>4 DEF ChargeOf
  <2>10. \A x \in Call : /\ ChargeOf(t, x, D) \in Int /\ ChargeOf(t, x, E) \in Int
                         /\ NetCharge(t, x, D) \in Int /\ NetCharge(t, x, E) \in Int
    <3>1. \A x \in Call : /\ ChargeOf(t, x, D) \in Nat /\ NetCharge(t, x, D) \in Nat
      BY <1>1, ChargesAre
    <3>2. \A x \in Call : /\ ChargeOf(t, x, E) \in Nat /\ NetCharge(t, x, E) \in Nat
      BY <1>1, ChargesAre
    <3> QED BY <3>1, <3>2
  <2>11. \A x \in Call \ {c} : /\ ChargeOf(t, x, D) = ChargeOf(t, x, E)
                               /\ NetCharge(t, x, D) = NetCharge(t, x, E)
    BY DEF ChargeOf, NetCharge
  <2> HIDE DEF E
  <2>12. ChargeSum(t, E) = ChargeSum(t, D) - b
    <3> DEFINE f == [x \in Call |-> ChargeOf(t, x, D)]
               g == [x \in Call |-> ChargeOf(t, x, E)]
    <3>1. /\ \A x \in Call : f[x] \in Int /\ g[x] \in Int
          /\ \A x \in Call \ {c} : f[x] = g[x]
          /\ f[c] = CallMax /\ g[c] = CallMax - b
      BY <1>1, <2>9, <2>10, <2>11
    <3> HIDE DEF f, g
    <3>2. SumFunctionOnSet(g, Call) = SumFunctionOnSet(f, Call) - f[c] + g[c]
      BY <1>1, <3>1, CallSum
    <3>3. SumFunctionOnSet(f, Call) \in Int /\ CallMax \in Int
      BY <3>1, RowsAreFinite, SumType, SomePrices
    <3> QED BY <2>1, <3>1, <3>2, <3>3 DEF ChargeSum, f, g
  <2>13. NetChargeSum(t, E) = NetChargeSum(t, D) - (IF Again(o) THEN 0 ELSE b)
    <3> DEFINE f == [x \in Call |-> NetCharge(t, x, D)]
               g == [x \in Call |-> NetCharge(t, x, E)]
    <3>1. /\ \A x \in Call : f[x] \in Int /\ g[x] \in Int
          /\ \A x \in Call \ {c} : f[x] = g[x]
      BY <1>1, <2>10, <2>11
    <3>2. f[c] = NetCharge(t, c, D) /\ g[c] = NetCharge(t, c, E)
      BY <1>1
    <3>3. CallMax \in Int
      BY SomePrices
    <3>4. g[c] = f[c] - (IF Again(o) THEN 0 ELSE b)
      BY <2>1, <2>9, <3>2, <3>3 DEF NetCharge
    <3> HIDE DEF f, g
    <3>5. SumFunctionOnSet(g, Call) = SumFunctionOnSet(f, Call) - f[c] + g[c]
      BY <1>1, <3>1, CallSum
    <3>6. SumFunctionOnSet(f, Call) \in Int /\ f[c] \in Int
      BY <1>1, <3>1, RowsAreFinite, SumType
    <3> QED BY <2>1, <3>4, <3>5, <3>6 DEF NetChargeSum, f, g
  <2>14. RowGoesOn(t, h, r) /\ LeavesCharges(t, h, r)
    <3>1. /\ o.lease # "none" => r.lease # "none"
          /\ o.step = "written_off" => r.step = "written_off"
          /\ r.state = "held" => o.state = "held" /\ r.amount >= o.amount
      <4> HIDE DEF o
      <4> QED BY <2>1, <2>3, <2>4
    <3> QED BY <2>3, <2>5, <3>1 DEF RowGoesOn, LeavesCharges
  <2> HIDE DEF h, o
  <2>15. /\ HeldSum(u) = HeldSum(t) - HeldOf(o) + HeldOf(r)
         /\ ActualSum(u) = ActualSum(t) - o.actual + r.actual
         /\ ChargeSum(u, E) = ChargeSum(t, E)
         /\ Spare(u, E) >= Spare(t, E) - NetOf(o) + NetOf(r)
    BY <1>1, <2>1, <2>14, WithSums DEF o
  <2>16. RowsKept(u) /\ u \in TablesType /\ u.envelope = e
    BY <1>1, <2>1, <2>14, WithRows, WithIs DEF With
  <2>17. /\ HeldSum(t) \in Int /\ ActualSum(t) \in Int /\ ChargeSum(t, D) \in Int
         /\ NetChargeSum(t, D) \in Int /\ NetSum(t) \in Int /\ TopUpsOf(t) \in Int /\ Approved \in Int
         /\ t.envelope.held \in Int /\ t.envelope.actual \in Int /\ t.envelope.maximum \in Int
         /\ Spare(t, D) \in Int
    BY <1>1, SumsAre
  <2>18. HeldOf(o) \in Int /\ HeldOf(r) \in Int /\ NetOf(o) \in Int /\ NetOf(r) \in Int
    BY <2>1, <2>2, HoldsAdd
  <2> HIDE DEF u
  <2>19. Balanced(u, E)
    BY <1>1, <2>1, <2>3, <2>4, <2>6, <2>12, <2>15, <2>16, <2>17, <2>18 DEF MoneyKept, Balanced
  <2>20. Spare(t, E) = Spare(t, D) + (IF Again(o) THEN 0 ELSE b)
    BY <2>1, <2>13, <2>17 DEF Spare
  <2>21. Spare(u, E) \in Int
    BY <2>16, SumsAre
  <2>22. Spare(u, E) >= n
    <3>1. Spare(t, D) >= n
      BY DEF Sound, CeilingsKept
    <3>2. NetOf(r) - NetOf(o) >= 0 - (IF Again(o) THEN 0 ELSE b)
      BY <2>1, <2>7, <2>18
    <3> QED BY <2>1, <2>15, <2>17, <2>18, <2>20, <2>21, <3>1, <3>2
  <2>23. Committed(u) <= Committed(t)
    BY <2>1, <2>6, <2>8, <2>16, <2>17, <2>18 DEF Committed
  <2>24. Committed(u) \in Int /\ Committed(t) \in Int /\ Cap \in Int
    BY <1>1, <2>16, SumsAre, SomePrices
  <2>25. Committed(u) <= u.envelope.maximum /\ Committed(u) + k <= Cap
    BY <2>6, <2>16, <2>17, <2>23, <2>24 DEF Sound, CeilingsKept
  <2> QED BY <2>1, <2>16, <2>19, <2>22, <2>25 DEF Sound, MoneyKept, CeilingsKept, E
<1> QED BY <1>2, <1>3

\* Nothing but a hold's amount and the envelope changes where a call is given back.
LEMMA GivenBackLeaves ==
    ASSUME NEW t \in TablesType, NEW c \in Call
    PROVE  LET u == GivenBack(t, c) IN
           /\ u \in TablesType /\ u.call = t.call /\ u.asks = t.asks
           /\ \A h \in Hold : u.hold[h].ended = t.hold[h].ended
           /\ \A h \in Hold : u.hold[h].state = t.hold[h].state
           /\ \A h \in Hold : h # t.call[c].of \/ t.hold[h].state # "held"
                                => u.hold[h].amount = t.hold[h].amount
<1>1. CASE ~ GivesBack(t, c)
  BY <1>1, GivenBackIs
<1>2. CASE GivesBack(t, c)
  <2> DEFINE h == t.call[c].of
             r == GivenRow(t.hold[h], Back(t, c))
             e == GivenEnvelope(t, h, Back(t, c))
  <2>1. GivenBack(t, c) = With(t, h, r, e) /\ r \in LooseRow /\ e \in EnvelopeType /\ h \in Hold
    BY <1>2, GivenBackIs
  <2>2. t.hold[h] \in LooseRow
    BY <2>1, TablesAre
  <2>3. r.ended = t.hold[h].ended /\ r.state = t.hold[h].state
        /\ (t.hold[h].state # "held" => r.amount = t.hold[h].amount)
    BY <2>2 DEF GivenRow, LooseRow
  <2> HIDE DEF h, r, e
  <2>4. /\ With(t, h, r, e) \in TablesType /\ With(t, h, r, e).hold[h] = r
        /\ \A g \in Hold \ {h} : With(t, h, r, e).hold[g] = t.hold[g]
    BY <2>1, WithIs
  <2>5. With(t, h, r, e).call = t.call /\ With(t, h, r, e).asks = t.asks
    BY DEF With
  <2> QED BY <2>1, <2>3, <2>4, <2>5 DEF h
<1> QED BY <1>1, <1>2

\* All of them given back, the envelope carries what they cost.
LEMMA AllGivenBackSound ==
    ASSUME NEW t, NEW D \in SUBSET Call, NEW n \in Int, NEW k \in Int, Sound(t, D, n, k),
           Owed(t, D)
    PROVE  LET u == AllGivenBack(t, D) IN
           /\ Sound(u, {}, n, k) /\ u.call = t.call /\ u.asks = t.asks
           /\ \A h \in Hold : t.hold[h].state # "held" => u.hold[h].amount = t.hold[h].amount
           /\ \A h \in Hold : u.hold[h].state = t.hold[h].state
<1> DEFINE Kin(v) == /\ v.call = t.call /\ v.asks = t.asks
                     /\ \A h \in Hold : v.hold[h].ended = t.hold[h].ended
                     /\ \A h \in Hold : v.hold[h].state = t.hold[h].state
                     /\ \A h \in Hold : t.hold[h].state # "held" => v.hold[h].amount = t.hold[h].amount
           P == {p \in (SUBSET D) \X TablesType : Sound(p[2], D \ p[1], n, k) /\ Kin(p[2])}
<1>1. t \in TablesType
  BY DEF Sound
<1>2. <<{}, t>> \in P
  <2>1. D \ {} = D
    OBVIOUS
  <2> QED BY <1>1, <2>1
<1>3. GivesOn(D, P)
  <2> SUFFICES ASSUME NEW v, NEW s \in SUBSET D, NEW x \in D, x \in s, <<s \ {x}, v>> \in P
               PROVE  v \in TablesType /\ <<s, GivenBack(v, x)>> \in P
    BY DEF GivesOn
  <2>1. v \in TablesType /\ Sound(v, D \ (s \ {x}), n, k) /\ Kin(v)
    OBVIOUS
  <2>2. x \in D \ (s \ {x}) /\ (D \ (s \ {x})) \ {x} = D \ s /\ x \in Call
        /\ D \ (s \ {x}) \in SUBSET Call
    OBVIOUS
  <2>3. t.call[x].of \in Hold
    BY <1>1, <2>2, ChargesAre DEF CallRow
  <2>4. GivesBack(v, x) => MovedIn(v, v.call[x].of)
    BY <2>1, <2>3 DEF Owed, GivesBack, Counted, MovedIn, ToppedUp, ToppedUpHeld
  <2> DEFINE u == GivenBack(v, x)
  <2>5. Sound(u, D \ s, n, k)
    <3>1. Sound(GivenBack(v, x), (D \ (s \ {x})) \ {x}, n, k)
      BY <2>1, <2>2, <2>4, GivenBackSound
    <3> QED BY <2>2, <3>1
  <2>6. /\ u \in TablesType /\ u.call = v.call /\ u.asks = v.asks
        /\ \A h \in Hold : u.hold[h].ended = v.hold[h].ended
        /\ \A h \in Hold : u.hold[h].state = v.hold[h].state
        /\ \A h \in Hold : v.hold[h].state # "held" => u.hold[h].amount = v.hold[h].amount
    BY <2>1, <2>2, GivenBackLeaves
  <2> HIDE DEF u
  <2>7. Kin(u)
    BY <2>1, <2>6
  <2> HIDE DEF Kin
  <2> QED BY <2>1, <2>5, <2>6, <2>7 DEF u
<1> HIDE DEF P
<1>4. <<D, AllGivenBack(t, D)>> \in P
  BY <1>1, <1>2, <1>3, GivenBackInTurn
<1>5. Sound(AllGivenBack(t, D), D \ D, n, k) /\ Kin(AllGivenBack(t, D))
  BY <1>4 DEF P
<1>6. D \ D = {}
  OBVIOUS
<1> QED BY <1>5, <1>6

\* Unsent calls released, those a count took still to be given back.
LEMMA ReleasedSound ==
    ASSUME NEW t, NEW n \in Int, NEW k \in Int, Sound(t, {}, n, k), NEW C, NEW E, Releases(t, C, E)
    PROVE  Sound(CallsMoved(t, C, "released"), E, n, k) /\ Owed(CallsMoved(t, C, "released"), E)
<1> DEFINE f == MovedCalls(t, C, "released")
<1>1. t \in TablesType /\ RowsKept(t)
  BY DEF Sound, MoneyKept
<1>2. CallsMoved(t, C, "released") = WithCalls(t, f) /\ f \in [Call -> CallRow]
  BY <1>1, CallsMovedIs
<1>3. \A c \in Call : t.call[c] \in CallRow /\ CallKept(t, c)
  BY <1>1, TablesAre DEF RowsKept
<1>4. \A c \in Call : c \notin C => f[c] = t.call[c]
  BY DEF MovedCalls
<1>5. \A c \in C : /\ f[c].state = "released" /\ f[c].of = t.call[c].of
                   /\ f[c].actual = t.call[c].actual /\ f[c].writtenOff = t.call[c].writtenOff
                   /\ c \in Call
  BY <1>3 DEF MovedCalls, CallRow, Releases
<1> HIDE DEF f
<1>6. CallsGoOn(t, f)
  <2> SUFFICES ASSUME NEW c \in Call PROVE CallGoesOn(t, t.call[c], f[c])
    BY DEF CallsGoOn
  <2>1. CallKept(t, c) /\ CallSpend(t.call[c]) \in 0 .. CallMax /\ CallMax \in Nat
    BY <1>1, <1>3, ChargesAre, SomePrices
  <2>2. CASE c \in C
    <3>1. t.call[c].state \in Open /\ f[c].state = "released" /\ f[c].of = t.call[c].of
          /\ f[c].actual = t.call[c].actual /\ f[c].writtenOff = t.call[c].writtenOff
      BY <1>5, <2>2 DEF Releases
    <3>2. CallSpend(f[c]) = 0
      BY <3>1 DEF CallSpend, Open, Sent
    <3> QED BY <2>1, <3>1, <3>2 DEF CallGoesOn, CallKept, Open, Sent
  <2>3. CASE c \notin C
    BY <1>4, <2>1, <2>3 DEF CallGoesOn, CallKept
  <2> QED BY <2>2, <2>3
<1>7. ChargesStay(t, f, {}, E)
  <2> DEFINE u == WithCalls(t, f)
  <2>1. u.call = f /\ u.hold = t.hold /\ u.asks = t.asks
    BY DEF WithCalls
  <2> HIDE DEF u
  <2>2. \A h : MovedIn(u, h) <=> MovedIn(t, h)
    BY <2>1 DEF MovedIn, ToppedUpHeld
  <2> SUFFICES ASSUME NEW c \in Call PROVE ChargeOf(u, c, E) = ChargeOf(t, c, {})
    BY DEF ChargesStay, u
  <2>3. CASE c \in C
    <3>1. t.call[c].state \in Open /\ f[c].state = "released" /\ f[c].of = t.call[c].of
          /\ (c \in E \/ ~ MovedIn(t, t.call[c].of))
      BY <1>5, <2>3 DEF Releases
    <3>2. Carried(t.call[c]) = CallMax
      BY <3>1 DEF Carried, CallSpend, Open, Sent
    <3> QED BY <2>1, <2>2, <3>1, <3>2 DEF ChargeOf, Open, Sent
  <2>4. CASE c \notin C
    BY <1>4, <2>1, <2>2, <2>4 DEF ChargeOf, Releases
  <2> QED BY <2>3, <2>4
<1>8. Sound(WithCalls(t, f), E, n, k)
  BY <1>2, <1>6, <1>7, CallsSound
<1>9. Owed(WithCalls(t, f), E)
  <2> DEFINE u == WithCalls(t, f)
  <2>1. u.call = f /\ u.hold = t.hold /\ u.asks = t.asks
    BY DEF WithCalls
  <2> HIDE DEF u
  <2>2. \A h : (MovedIn(u, h) <=> MovedIn(t, h)) /\ (Counted(u, h) <=> Counted(t, h))
    BY <2>1 DEF MovedIn, ToppedUpHeld, Counted, ToppedUp
  <2>3. \A c \in E : u.call[c].of = t.call[c].of /\ CallKept(t, c) /\ t.call[c].state \in Open
    BY <1>3, <1>5, <2>1 DEF Releases
  <2>4. Owed(u, E)
    BY <2>2, <2>3 DEF Owed, CallKept
  <2> QED BY <2>4 DEF u
<1> QED BY <1>2, <1>8, <1>9

\* Open calls released and given back.
LEMMA ReleasedBackSound ==
    ASSUME NEW t, NEW n \in Int, NEW k \in Int, Sound(t, {}, n, k), NEW C, NEW E, Releases(t, C, E)
    PROVE  Sound(AllGivenBack(CallsMoved(t, C, "released"), E), {}, n, k)
<1>1. Sound(CallsMoved(t, C, "released"), E, n, k) /\ Owed(CallsMoved(t, C, "released"), E)
  BY ReleasedSound
<1>2. E \in SUBSET Call
  BY DEF Releases
<1> QED BY <1>1, <1>2, AllGivenBackSound

\* The same of one.
LEMMA OneReleasedSound ==
    ASSUME NEW t, NEW n \in Int, NEW k \in Int, Sound(t, {}, n, k), NEW c \in Call,
           t.call[c].state \in Open
    PROVE  Sound(GivenBack(CallsMoved(t, {c}, "released"), c), {}, n, k)
<1> DEFINE u == CallsMoved(t, {c}, "released")
<1>1. Releases(t, {c}, {c})
  BY DEF Releases
<1>2. Sound(u, {c}, n, k) /\ Owed(u, {c})
  BY <1>1, ReleasedSound
<1> HIDE DEF u
<1>3. GivesBack(u, c) => MovedIn(u, u.call[c].of)
  BY <1>2 DEF Owed, GivesBack
<1>4. Sound(GivenBack(u, c), {c} \ {c}, n, k)
  BY <1>2, <1>3, GivenBackSound
<1>5. {c} \ {c} = {}
  OBVIOUS
<1> QED BY <1>4, <1>5 DEF u

\* The end of a lease keeps the money.
LEMMA RetiredSound ==
    ASSUME NEW t, NEW n \in Int, NEW k \in Int, Sound(t, {}, n, k), NEW h \in Hold,
           NEW stop \in {"open", "final"}
    PROVE  Sound(Retired(t, h, stop), {}, n, k)
<1> DEFINE C == Releasable(t, h)
           v == CallsMoved(t, C, "released")
           r == RetiredRow(t.hold[h], stop)
<1>1. t \in TablesType /\ RowsKept(t)
  BY DEF Sound, MoneyKept
<1>2. Releases(t, C, {})
  BY DEF Releases, Releasable, Unsent, CallsOn, Counted, MovedIn, ToppedUpHeld, ToppedUp, Open
<1>3. Sound(v, {}, n, k)
  BY <1>2, ReleasedSound
<1>4. v = WithCalls(t, MovedCalls(t, C, "released"))
  BY <1>1, CallsMovedIs
<1>5. /\ Retired(t, h, stop) = With(WithCalls(t, MovedCalls(t, C, "released")), h, r, t.envelope)
      /\ r \in LooseRow
  BY <1>1, RetiredIs
<1>6. v.hold = t.hold /\ v.envelope = t.envelope
  BY <1>4 DEF WithCalls
<1>7. t.hold[h] \in LooseRow
  BY <1>1, TablesAre
<1>8. SameMoney(t.hold[h], r)
  BY <1>7 DEF SameMoney, RetiredRow, LooseRow, RowPaid, Again
<1> HIDE DEF C, v, r
<1>9. Sound(With(v, h, r, v.envelope), {}, n, k)
  BY <1>3, <1>5, <1>6, <1>8, SameMoneySound
<1> QED BY <1>4, <1>5, <1>6, <1>9

(***************************************************************************)
(* The money: what the helpers of a transaction do to it.                  *)
(***************************************************************************)

\* classifyUnderLocks keeps the money, and a hold it closes leaves what it gave back.
LEMMA ClassifiedSound ==
    ASSUME NEW t, NEW n \in Int, NEW k \in Int, Sound(t, {}, n, k), NEW h \in Hold
    PROVE  /\ Sound(Classified(t, h), {}, n, k)
           /\ t.hold[h].state = "held" /\ ~ KeepsHold(t, h) =>
                Sound(Classified(t, h), {}, n + t.hold[h].amount - CallsCost(t, h), k)
<1>1. t \in TablesType /\ RowsKept(t)
  BY DEF Sound, MoneyKept
<1>2. CASE t.hold[h].state # "held"
  BY <1>1, <1>2, ClassifiedIs
<1>3. CASE t.hold[h].state = "held" /\ KeepsHold(t, h)
  <2>1. Classified(t, h) = With(t, h, UnknownRow(t.hold[h]), t.envelope)
        /\ UnknownRow(t.hold[h]) \in LooseRow
    BY <1>1, <1>3, ClassifiedIs
  <2>2. t.hold[h] \in LooseRow /\ RowPaid(t.hold[h])
    BY <1>1, TablesAre DEF RowsKept
  <2>3. SameMoney(t.hold[h], UnknownRow(t.hold[h]))
    BY <1>3, <2>2 DEF SameMoney, UnknownRow, LooseRow, RowPaid, Again
  <2> QED BY <1>3, <2>1, <2>3, SameMoneySound
<1>4. CASE t.hold[h].state = "held" /\ ~ KeepsHold(t, h)
  <2>1. Classified(t, h) = Closed(t, h, CallsCost(t, h), "abandoned")
    BY <1>1, <1>4, ClassifiedIs
  <2>2. CallsCost(t, h) \in Nat /\ CallsCost(t, h) <= t.hold[h].amount /\ t.hold[h].amount \in Int
    BY <1>1, <1>4, CostIsCovered, AmountsAre
  <2>3. Sound(Classified(t, h), {}, n + t.hold[h].amount - CallsCost(t, h), k)
    BY <1>4, <2>1, <2>2, ClosedSound
  <2>4. Sound(Classified(t, h), {}, n, k)
    BY <2>2, <2>3, SpareLess
  <2> QED BY <2>3, <2>4
<1> QED BY <1>2, <1>3, <1>4

\* Fencing the other lapsed leases keeps the money.
LEMMA FencedSound ==
    ASSUME NEW t, NEW n \in Int, NEW k \in Int, Sound(t, {}, n, k), NEW h \in Hold
    PROVE  Sound(Fenced(t, h), {}, n, k)
<1> DEFINE C == {g \in Hold \ {h} : t.hold[g].lease = "lapsed"}
           P == {p \in (SUBSET C) \X TablesType : Sound(p[2], {}, n, k)}
<1>1. t \in TablesType
  BY DEF Sound
<1>2. <<{}, t>> \in P
  BY <1>1
<1>3. FencesOn(C, P)
  <2> SUFFICES ASSUME NEW v, NEW s \in SUBSET C, NEW x \in C, x \in s, <<s \ {x}, v>> \in P
               PROVE  v \in TablesType
                      /\ <<s, Classified(Retired(v, x, "open"), x)>> \in P
    BY DEF FencesOn
  <2>1. v \in TablesType /\ Sound(v, {}, n, k) /\ x \in Hold
    OBVIOUS
  <2>2. Sound(Retired(v, x, "open"), {}, n, k)
    BY <2>1, RetiredSound
  <2>3. Sound(Classified(Retired(v, x, "open"), x), {}, n, k)
    BY <2>1, <2>2, ClassifiedSound
  <2>4. Classified(Retired(v, x, "open"), x) \in TablesType
    BY <2>3 DEF Sound
  <2> QED BY <2>1, <2>3, <2>4
<1> HIDE DEF P
<1>4. C \in SUBSET Hold
  OBVIOUS
<1>5. <<C, FoldSet(LAMBDA g, u : Classified(Retired(u, g, "open"), g), t, C)>> \in P
  BY <1>1, <1>2, <1>3, <1>4, FencedInTurn
<1> QED BY <1>5 DEF P, Fenced

\* stopReplacement closes a held hold at its calls' cost.
LEMMA ReplacementStoppedSound ==
    ASSUME NEW t, NEW n \in Int, NEW k \in Int, Sound(t, {}, n, k), NEW g \in Hold,
           t.hold[g].state = "held"
    PROVE  /\ Sound(ReplacementStopped(t, g), {}, n, k)
           /\ \A h \in Hold \ {g} : ReplacementStopped(t, g).hold[h] = t.hold[h]
<1>1. t \in TablesType /\ RowsKept(t)
  BY DEF Sound, MoneyKept
<1>2. CASE CallOut(t, g)
  BY <1>1, <1>2, ReplacementStoppedIs
<1>3. CASE ~ CallOut(t, g)
  <2> DEFINE charge == CallsCost(t, g)
             r == StoppedRow(t.hold[g], charge)
             e == ClosedEnvelope(t, g, charge)
  <2>1. /\ ReplacementStopped(t, g) = With(t, g, r, e) /\ r \in LooseRow /\ e \in EnvelopeType
    BY <1>1, <1>3, ReplacementStoppedIs
  <2>2. charge \in Nat /\ charge <= t.hold[g].amount /\ t.hold[g].amount \in Int
    BY <1>1, CostIsCovered, AmountsAre
  <2>3. t.hold[g] \in LooseRow /\ RowPaid(t.hold[g])
    BY <1>1, TablesAre DEF RowsKept
  <2> HIDE DEF charge
  <2>4. /\ r.state = (IF charge > 0 THEN "actual" ELSE "abandoned")
        /\ r.actual = charge /\ r.amount = t.hold[g].amount
        /\ r.absent = t.hold[g].absent /\ r.marked = t.hold[g].marked
        /\ r.word = t.hold[g].word /\ r.ended = t.hold[g].ended
        /\ (t.hold[g].lease # "none" => r.lease # "none")
    BY <2>3 DEF StoppedRow, ClosedRow, LooseRow
  <2>5. ~ r.ended
    BY <2>3, <2>4 DEF RowPaid
  <2>6. \A h \in Hold \ {g} : With(t, g, r, e).hold[h] = t.hold[h]
    BY <1>1, <2>1, WithIs
  <2> HIDE DEF r
  <2>7. LeavesCharges(t, g, r)
    BY <2>4 DEF LeavesCharges, Again
  <2>8. Sound(With(t, g, r, ClosedEnvelope(t, g, charge)), {}, n + t.hold[g].amount - charge, k)
    BY <2>1, <2>2, <2>4, <2>5, <2>7, ClosingSound
  <2>9. Sound(With(t, g, r, e), {}, n, k)
    BY <2>2, <2>8, SpareLess
  <2> QED BY <2>1, <2>6, <2>9
<1> QED BY <1>2, <1>3

\* So do as many as are held beside a hold.
LEMMA StoppedBesideSound ==
    ASSUME NEW t, NEW n \in Int, NEW k \in Int, Sound(t, {}, n, k), NEW C \in SUBSET Hold,
           \A g \in C : t.hold[g].state = "held"
    PROVE  Sound(StoppedBeside(t, C), {}, n, k)
<1> DEFINE P == {p \in (SUBSET C) \X TablesType :
                    Sound(p[2], {}, n, k) /\ \A g \in C \ p[1] : p[2].hold[g] = t.hold[g]}
<1>1. t \in TablesType
  BY DEF Sound
<1>2. <<{}, t>> \in P
  BY <1>1
<1>3. StopsOn(C, P)
  <2> SUFFICES ASSUME NEW v, NEW s \in SUBSET C, NEW x \in C, x \in s, <<s \ {x}, v>> \in P
               PROVE  v \in TablesType /\ <<s, ReplacementStopped(v, x)>> \in P
    BY DEF StopsOn
  <2> DEFINE u == ReplacementStopped(v, x)
  <2>1. v \in TablesType /\ Sound(v, {}, n, k) /\ x \in Hold
        /\ \A g \in C \ (s \ {x}) : v.hold[g] = t.hold[g]
    OBVIOUS
  <2>2. v.hold[x].state = "held"
    BY <2>1
  <2>3. Sound(u, {}, n, k) /\ \A h \in Hold \ {x} : u.hold[h] = v.hold[h]
    BY <2>1, <2>2, ReplacementStoppedSound
  <2> HIDE DEF u
  <2>4. u \in TablesType
    BY <2>3 DEF Sound
  <2>5. \A g \in C \ s : u.hold[g] = t.hold[g]
    BY <2>1, <2>3
  <2> QED BY <2>1, <2>3, <2>4, <2>5 DEF u
<1> HIDE DEF P
<1>4. <<C, StoppedBeside(t, C)>> \in P
  BY <1>1, <1>2, <1>3, StoppedInTurn
<1> QED BY <1>4 DEF P

\* What nothing started ends with its run, and holds nothing.
LEMMA UnstartedSound ==
    ASSUME NEW t, NEW n \in Int, NEW k \in Int, Sound(t, {}, n, k), NEW h \in Hold
    PROVE  Sound(Unstarted(t, h), {}, n, k)
<1> DEFINE C == Others(t, h)
           P == {p \in (SUBSET C) \X TablesType :
                    /\ Sound(p[2], {}, n, k) /\ p[2].call = t.call
                    /\ \A g \in C \ p[1] : p[2].hold[g] = t.hold[g]}
<1>1. t \in TablesType
  BY DEF Sound
<1>2. <<{}, t>> \in P
  BY <1>1
<1>3. EndsOn(C, P)
  <2> SUFFICES ASSUME NEW v, NEW s \in SUBSET C, NEW x \in C, x \in s, <<s \ {x}, v>> \in P
               PROVE  v \in TablesType
                      /\ <<s, [Closed(v, x, 0, "abandoned") EXCEPT !.hold[x].ended = TRUE]>> \in P
    BY DEF EndsOn
  <2> DEFINE r == EndedRow(v.hold[x])
             e == ClosedEnvelope(v, x, 0)
             u == With(v, x, r, e)
  <2>1. v \in TablesType /\ Sound(v, {}, n, k) /\ x \in Hold /\ v.call = t.call
        /\ \A g \in C \ (s \ {x}) : v.hold[g] = t.hold[g]
    BY DEF Others, HeldIn
  <2>2. v.hold[x].state = "held" /\ CallsOn(v, x) = {}
    BY <2>1 DEF Others, HeldIn, CallsOn
  <2>3. /\ [Closed(v, x, 0, "abandoned") EXCEPT !.hold[x].ended = TRUE] = u
        /\ r \in LooseRow /\ e \in EnvelopeType
    BY <2>1, UnstartedOneIs
  <2>4. v.hold[x] \in LooseRow /\ v.hold[x].amount \in Nat
    BY <2>1, TablesAre DEF Sound, MoneyKept, RowsKept, RowPaid
  <2>5. /\ r.state = (IF 0 > 0 THEN "actual" ELSE "abandoned")
        /\ r.actual = 0 /\ r.amount = v.hold[x].amount
        /\ r.absent = v.hold[x].absent /\ r.marked = v.hold[x].marked
        /\ r.word = v.hold[x].word /\ r.lease = v.hold[x].lease
    BY <2>4 DEF EndedRow, ClosedRow, LooseRow
  <2>6. u \in TablesType /\ u.call = t.call /\ \A g \in Hold \ {x} : u.hold[g] = v.hold[g]
    BY <2>1, <2>3, WithIs DEF With
  <2> HIDE DEF r
  <2>7. LeavesCharges(v, x, r)
    BY <2>2, <2>5 DEF LeavesCharges, Again
  <2>8. Sound(With(v, x, r, ClosedEnvelope(v, x, 0)), {}, n + v.hold[x].amount - 0, k)
    BY <2>1, <2>2, <2>3, <2>4, <2>5, <2>7, ClosingSound
  <2>9. Sound(u, {}, n, k)
    BY <2>4, <2>8, SpareLess
  <2> HIDE DEF u
  <2>10. \A g \in C \ s : u.hold[g] = t.hold[g]
    BY <2>1, <2>6 DEF Others, HeldIn
  <2> QED BY <2>1, <2>3, <2>6, <2>9, <2>10
<1> HIDE DEF P
<1>4. C \in SUBSET Hold
  BY DEF Others, HeldIn
<1>5. <<C, FoldSet(LAMBDA g, u : [Closed(u, g, 0, "abandoned") EXCEPT !.hold[g].ended = TRUE],
                   t, C)>> \in P
  BY <1>1, <1>2, <1>3, <1>4, UnstartedInTurn
<1> QED BY <1>5 DEF P, Unstarted, Others

\* A lost worker's calls: held ones at their maximum, unsent ones given back.
LEMMA CallsLostSound ==
    ASSUME NEW t, NEW n \in Int, NEW k \in Int, Sound(t, {}, n, k), NEW h \in Hold
    PROVE  Sound(CallsLost(t, h), {}, n, k)
<1> DEFINE f == HeldCalls(t, h)
           r == LostRow(t, h)
           v == WithCalls(t, f)
           w == HeldLost(t, h)
           C == Unsent(t, h)
<1>1. t \in TablesType /\ RowsKept(t)
  BY DEF Sound, MoneyKept
<1>2. /\ CallsLost(t, h) = AllGivenBack(CallsMoved(w, C, "released"), C)
      /\ f \in [Call -> CallRow] /\ r \in LooseRow /\ w = With(v, h, r, t.envelope)
  BY <1>1, CallsLostIs DEF HeldLost
<1>3. \A c \in Call : t.call[c] \in CallRow /\ CallKept(t, c)
  BY <1>1, TablesAre DEF RowsKept
<1>4. /\ \A c \in Call : c \notin Started(t, h) => f[c] = t.call[c]
      /\ \A c \in Started(t, h) :
            /\ c \in Call /\ t.call[c].state = "dispatched" /\ f[c].state = "unknown"
            /\ f[c].of = t.call[c].of /\ f[c].actual = t.call[c].actual
            /\ f[c].writtenOff = t.call[c].writtenOff
  BY <1>3 DEF HeldCalls, CallRow, Started, CallsOn
<1>5. v.hold = t.hold /\ v.call = f /\ v.asks = t.asks /\ v.envelope = t.envelope
  BY DEF WithCalls
<1>6. t.hold[h] \in LooseRow
  BY <1>1, TablesAre
<1>7. SameMoney(t.hold[h], r)
  BY <1>6 DEF SameMoney, LostRow, LooseRow, RowPaid, Again
<1> HIDE DEF f, r, v, w
<1>8. \A c \in Call : /\ CallSpend(t.call[c]) \in 0 .. CallMax /\ CallMax \in Nat
                      /\ CallSpend(f[c]) = CallSpend(t.call[c])
                      /\ Carried(f[c]) = Carried(t.call[c])
  <2>1. \A c \in Call : CallSpend(t.call[c]) \in 0 .. CallMax /\ CallMax \in Nat
    BY <1>1, ChargesAre, SomePrices
  <2>2. \A c \in Call : CallSpend(f[c]) = CallSpend(t.call[c])
    BY <1>4 DEF CallSpend, Open, Sent
  <2>3. \A c \in Call : Carried(f[c]) = Carried(t.call[c])
    BY <1>4, <2>2 DEF Carried
  <2> QED BY <2>1, <2>2, <2>3
<1>9. CallsGoOn(t, f)
  <2> SUFFICES ASSUME NEW c \in Call PROVE CallGoesOn(t, t.call[c], f[c])
    BY DEF CallsGoOn
  <2>1. CallKept(t, c)
    BY <1>3
  <2> QED BY <1>4, <1>8, <2>1 DEF CallGoesOn, CallKept, Open, Sent
<1>10. ChargesStay(t, f, {}, {})
  <2>1. \A g : MovedIn(v, g) <=> MovedIn(t, g)
    BY <1>5 DEF MovedIn, ToppedUpHeld
  <2>2. \A c \in Call : f[c].of = t.call[c].of /\ (f[c].state = "none" <=> t.call[c].state = "none")
    BY <1>4
  <2>3. \A c \in Call : ChargeOf(v, c, {}) = ChargeOf(t, c, {})
    BY <1>5, <1>8, <2>1, <2>2 DEF ChargeOf
  <2> QED BY <2>3 DEF ChargesStay, v
<1>11. Sound(v, {}, n, k)
  BY <1>2, <1>9, <1>10, CallsSound DEF v
<1>12. Sound(w, {}, n, k)
  BY <1>2, <1>5, <1>7, <1>11, SameMoneySound
<1>13. w.call = f
  BY <1>2, <1>5 DEF With
<1>14. Releases(w, C, C)
  <2>1. C \in SUBSET Call /\ \A c \in C : t.call[c].state = "reserved" /\ c \notin Started(t, h)
    BY DEF Unsent, CallsOn, Started
  <2>2. \A c \in C : w.call[c].state = "reserved"
    BY <1>4, <1>13, <2>1
  <2> HIDE DEF C
  <2> QED BY <2>1, <2>2 DEF Releases, Open
<1>15. Sound(AllGivenBack(CallsMoved(w, C, "released"), C), {}, n, k)
  BY <1>12, <1>14, ReleasedBackSound
<1> QED BY <1>2, <1>15

\* A person's word on a hold's unknown calls, which keep what the envelope carries.
LEMMA CallsResolvedSound ==
    ASSUME NEW t, NEW n \in Int, NEW k \in Int, Sound(t, {}, n, k), NEW h \in Hold,
           NEW word \in {"nothing", "happened", "differently", "written_off"},
           word = "written_off" => WrittenOff(t) /\ t.hold[h].state # "held"
    PROVE  LET u == CallsResolved(t, h, word) IN
           /\ Sound(u, {}, n, k)
           /\ \A g \in Hold : t.hold[g].state # "held" => u.hold[g].amount = t.hold[g].amount
<1> DEFINE f == ResolvedCalls(t, h, word)
           v == WithCalls(t, f)
           C == Unknowns(t, h)
<1>1. t \in TablesType /\ RowsKept(t)
  BY DEF Sound, MoneyKept
<1>2. /\ CallsResolved(t, h, word) = AllGivenBack(v, C) /\ f \in [Call -> CallRow]
      /\ C \in SUBSET Call
  BY <1>1, CallsResolvedIs
<1>3. \A c \in Call : t.call[c] \in CallRow /\ CallKept(t, c)
  BY <1>1, TablesAre DEF RowsKept
<1>4. \A c \in C : /\ c \in Call /\ t.call[c].state = "unknown" /\ t.call[c].of = h
                   /\ t.call[c].actual = 0 /\ ~ t.call[c].writtenOff
  BY <1>3 DEF Unknowns, CallsOn, CallKept
<1>5. /\ \A c \in Call : c \notin C => f[c] = t.call[c]
      /\ \A c \in C :
            /\ f[c].of = h
            /\ \/ f[c].state = "released" /\ f[c].actual = 0 /\ ~ f[c].writtenOff
               \/ f[c].state = "settled" /\ f[c].actual = CallMax /\ ~ f[c].writtenOff
               \/ word = "written_off" /\ f[c].state = "unknown" /\ f[c].actual = 0
  <2>1. \A c \in C : t.call[c] \in CallRow
    BY <1>3, <1>4
  <2> QED BY <1>4, <2>1 DEF ResolvedCalls, CallRow
<1>6. v.hold = t.hold /\ v.call = f /\ v.asks = t.asks /\ v.envelope = t.envelope
  BY DEF WithCalls
<1> HIDE DEF f, v, C
<1>7. \A c \in Call : CallSpend(t.call[c]) \in 0 .. CallMax /\ CallMax \in Nat
  BY <1>1, ChargesAre, SomePrices
<1>8. CallsGoOn(t, f)
  <2> SUFFICES ASSUME NEW c \in Call PROVE CallGoesOn(t, t.call[c], f[c])
    BY DEF CallsGoOn
  <2>1. CallKept(t, c)
    BY <1>3
  <2>2. CASE c \in C
    <3>1. CallSpend(t.call[c]) = CallMax /\ CallSpend(f[c]) <= CallMax
      BY <1>4, <1>5, <1>7, <2>2 DEF CallSpend, Open, Sent
    <3> QED BY <1>4, <1>5, <2>2, <3>1 DEF CallGoesOn, Open, Sent
  <2>3. CASE c \notin C
    BY <1>5, <1>7, <2>1, <2>3 DEF CallGoesOn, CallKept
  <2> QED BY <2>2, <2>3
<1>9. \A g : (MovedIn(v, g) <=> MovedIn(t, g)) /\ (Counted(v, g) <=> Counted(t, g))
  BY <1>6 DEF MovedIn, ToppedUpHeld, Counted, ToppedUp
<1>10. ChargesStay(t, f, {}, C)
  <2> SUFFICES ASSUME NEW c \in Call PROVE ChargeOf(v, c, C) = ChargeOf(t, c, {})
    BY DEF ChargesStay, v
  <2>1. CASE c \in C
    <3>1. Carried(t.call[c]) = CallMax
      BY <1>4, <2>1 DEF Carried, CallSpend, Open, Sent
    <3> QED BY <1>4, <1>5, <1>6, <1>9, <2>1, <3>1 DEF ChargeOf
  <2>2. CASE c \notin C
    BY <1>5, <1>6, <1>9, <2>2 DEF ChargeOf
  <2> QED BY <2>1, <2>2
<1>11. Sound(v, C, n, k)
  BY <1>2, <1>8, <1>10, CallsSound DEF v
<1>12. Owed(v, C)
  BY <1>3, <1>4, <1>5, <1>6, <1>9 DEF Owed, CallKept, Open, Sent
<1>13. /\ Sound(AllGivenBack(v, C), {}, n, k)
       /\ \A g \in Hold : v.hold[g].state # "held" => AllGivenBack(v, C).hold[g].amount = v.hold[g].amount
  BY <1>2, <1>11, <1>12, AllGivenBackSound
<1> QED BY <1>2, <1>6, <1>13

\* An ask that nobody answered adds nothing.
LEMMA NewAskAdds ==
    ASSUME NEW t \in TablesType, NEW u \in TablesType, NEW h \in Hold,
           u.asks = Append(t.asks, NewAsk(h))
    PROVE  /\ DOMAIN u.asks = DOMAIN t.asks \cup {Len(t.asks) + 1}
           /\ \A i \in DOMAIN t.asks : u.asks[i] = t.asks[i]
           /\ u.asks[Len(t.asks) + 1] = NewAsk(h)
           /\ TopUpsOf(u) = TopUpsOf(t)
<1>1. t.asks \in Seq(AskRow) /\ u.asks \in Seq(AskRow)
  BY TablesAre
<1>2. NewAsk(h) \in AskRow
  BY DEF NewAsk, AskRow
<1>3. /\ DOMAIN t.asks = 1 .. Len(t.asks) /\ Len(t.asks) \in Nat
      /\ DOMAIN u.asks = 1 .. Len(u.asks) /\ Len(u.asks) = Len(t.asks) + 1
      /\ IsFiniteSet(DOMAIN t.asks)
  BY <1>1, <1>2, AsksAre
<1>4. DOMAIN u.asks = DOMAIN t.asks \cup {Len(t.asks) + 1} /\ Len(t.asks) + 1 \notin DOMAIN t.asks
  BY <1>3
<1>5. /\ \A i \in DOMAIN t.asks : u.asks[i] = t.asks[i]
      /\ u.asks[Len(t.asks) + 1] = NewAsk(h)
  BY <1>1, <1>2, <1>3
<1> DEFINE f == [i \in DOMAIN t.asks |-> TopUpOf(t.asks[i])]
           g == [i \in DOMAIN u.asks |-> TopUpOf(u.asks[i])]
           x == Len(t.asks) + 1
<1>6. TopUpsOf(t) = SumFunctionOnSet(f, DOMAIN t.asks)
      /\ TopUpsOf(u) = SumFunctionOnSet(g, DOMAIN u.asks) /\ TopUpsOf(t) \in Nat
  BY TopUpsAre
<1>7. \A i \in DOMAIN t.asks : t.asks[i] \in AskRow
  BY AsksAre
<1>8. \A i \in DOMAIN t.asks : f[i] = g[i] /\ g[i] \in Int
  <2>1. \A i \in DOMAIN t.asks : TopUpOf(t.asks[i]) \in Int
    BY <1>7 DEF TopUpOf, AskRow
  <2> QED BY <1>4, <1>5, <2>1
<1>9. g[x] = 0
  <2>1. TopUpOf(NewAsk(h)) = 0
    BY DEF TopUpOf, NewAsk
  <2> QED BY <1>4, <1>5, <2>1
<1> HIDE DEF f, g, x
<1>10. \A y \in DOMAIN t.asks \cup {x} : g[y] \in Int
  BY <1>8, <1>9
<1>11. SumFunctionOnSet(g, DOMAIN t.asks \cup {x}) = SumFunctionOnSet(g, DOMAIN t.asks) + g[x]
  BY <1>3, <1>4, <1>10, SumWith DEF x
<1>12. SumFunctionOnSet(f, DOMAIN t.asks) = SumFunctionOnSet(g, DOMAIN t.asks)
  BY <1>3, <1>8, SumSame
<1>13. TopUpsOf(u) = TopUpsOf(t)
  BY <1>4, <1>6, <1>9, <1>11, <1>12 DEF x
<1> QED BY <1>4, <1>5, <1>13

\* A stop at the budget keeps the money, of a hold not asked about while held.
LEMMA AtBudgetSound ==
    ASSUME NEW t, NEW n \in Int, NEW k \in Int, Sound(t, {}, n, k), NEW h \in Hold,
           t.hold[h].state = "held" => \A i \in DOMAIN t.asks : t.asks[i].of # h
    PROVE  Sound(AtBudget(t, h), {}, n, k)
<1> DEFINE w == Retired(t, h, "open")
           now == IF t.run = "claimed" THEN "waiting" ELSE t.run
           u == WithRun(w, Append(t.asks, NewAsk(h)), now)
<1>1. t \in TablesType
  BY DEF Sound
<1>2. /\ w \in TablesType /\ w.asks = t.asks /\ w.run = t.run
      /\ IF Len(t.asks) < MaxAsks THEN AtBudget(t, h) = u
         ELSE AtBudget(t, h) = WithRun(w, t.asks, "cancelled")
  BY <1>1, AtBudgetIs
<1>3. Sound(w, {}, n, k)
  BY RetiredSound
<1>4. w.hold[h].state = t.hold[h].state
  <2> DEFINE m == MovedCalls(t, Releasable(t, h), "released")
             r == RetiredRow(t.hold[h], "open")
  <2>1. /\ w = With(WithCalls(t, m), h, r, t.envelope) /\ r \in LooseRow
    BY <1>1, RetiredIs
  <2>2. t.hold \in [Hold -> LooseRow]
    BY <1>1, TablesAre
  <2>3. r.state = t.hold[h].state
    <3>1. t.hold[h] \in LooseRow
      BY <2>2
    <3> QED BY <3>1 DEF RetiredRow, LooseRow
  <2> HIDE DEF m, r, w
  <2>4. w.hold[h] = r
    BY <2>1, <2>2 DEF With, WithCalls
  <2> QED BY <2>3, <2>4
<1>5. t.asks \in Seq(AskRow) /\ t.run \in Runs
  BY <1>1, TablesAre DEF Runs
<1> HIDE DEF w
<1>6. CASE Len(t.asks) < MaxAsks
  <2>1. /\ w.hold \in [Hold -> LooseRow] /\ w.call \in [Call -> CallRow]
        /\ w.envelope \in EnvelopeType
    BY <1>2, TablesAre
  <2>2. NewAsk(h) \in AskRow /\ now \in Runs
    BY <1>5 DEF NewAsk, AskRow, Runs
  <2>3. Append(t.asks, NewAsk(h)) \in Seq(AskRow)
    BY <1>5, <2>2
  <2> HIDE DEF now
  <2>4. /\ u \in TablesType /\ u.hold = w.hold /\ u.call = w.call
        /\ u.asks = Append(w.asks, NewAsk(h)) /\ u.envelope = w.envelope
    BY <1>2, <2>1, <2>2, <2>3 DEF WithRun, TablesType, Runs, EnvelopeType
  <2> HIDE DEF u
  <2>5. /\ DOMAIN u.asks = DOMAIN w.asks \cup {Len(w.asks) + 1}
        /\ \A i \in DOMAIN w.asks : u.asks[i] = w.asks[i]
        /\ u.asks[Len(w.asks) + 1] = NewAsk(h)
        /\ TopUpsOf(u) = TopUpsOf(w)
    BY <1>2, <2>4, NewAskAdds
  <2>6. NewAsk(h).answer = "open" /\ NewAsk(h).of = h
    BY DEF NewAsk
  <2>7. \A g : /\ ToppedUp(u, g) <=> ToppedUp(w, g)
               /\ ToppedUpHeld(u, g) <=> ToppedUpHeld(w, g)
    BY <2>5, <2>6 DEF ToppedUp, ToppedUpHeld
  <2>8. StoppedOnce(u)
    <3>1. StoppedOnce(w)
      BY <1>3 DEF Sound, MoneyKept, RowsKept
    <3>2. u.hold[h].state = "held" => \A i \in DOMAIN w.asks : w.asks[i].of # h
      BY <1>2, <1>4, <2>4
    <3> SUFFICES ASSUME NEW i \in DOMAIN u.asks, NEW j \in DOMAIN u.asks,
                        u.hold[u.asks[i].of].state = "held"
                 PROVE  /\ u.asks[i].of = u.asks[j].of => i = j
                        /\ u.asks[i].answer = "top_up" => u.asks[i].found = "held"
      BY DEF StoppedOnce
    <3>3. i \in DOMAIN w.asks \/ (i = Len(w.asks) + 1 /\ u.asks[i] = NewAsk(h))
      BY <2>5
    <3>4. j \in DOMAIN w.asks \/ (j = Len(w.asks) + 1 /\ u.asks[j] = NewAsk(h))
      BY <2>5
    <3> QED BY <2>4, <2>5, <2>6, <3>1, <3>2, <3>3, <3>4 DEF StoppedOnce
  <2>9. AsksGoOn(w, u)
    BY <2>4, <2>7, <2>8 DEF AsksGoOn, MovedIn, Counted
  <2>10. TopUpsOf(u) = TopUpsOf(w) + 0 /\ u.envelope.maximum = w.envelope.maximum + 0
    <3>1. TopUpsOf(w) \in Int /\ w.envelope.maximum \in Int
      BY <1>2, SumsAre
    <3> QED BY <2>4, <2>5, <3>1
  <2>11. Sound(u, {}, n + 0, k)
    BY <1>3, <2>9, <2>10, AsksSound
  <2> QED BY <1>2, <1>6, <2>11
<1>7. CASE ~ (Len(t.asks) < MaxAsks)
  <2>1. "cancelled" \in Runs
    BY DEF Runs
  <2>2. Sound(WithRun(w, w.asks, "cancelled"), {}, n, k)
    BY <1>3, <2>1, RunSound
  <2> QED BY <1>2, <1>7, <2>2
<1> QED BY <1>6, <1>7

\* So does one on a closed hold.
LEMMA AtSpentHoldSound ==
    ASSUME NEW t, NEW n \in Int, NEW k \in Int, Sound(t, {}, n, k), NEW h \in Hold,
           t.hold[h].state # "held"
    PROVE  Sound(AtSpentHold(t, h), {}, n, k)
<1> DEFINE now == IF t.run = "planned" THEN "claimed" ELSE t.run
           v == WithRun(t, t.asks, now)
<1>1. t \in TablesType
  BY DEF Sound
<1>2. Unplanned(t) = v /\ now \in Runs
  BY <1>1, UnplannedIs, TablesAre DEF Runs
<1>3. Sound(v, {}, n, k)
  BY <1>2, RunSound
<1>4. v.hold[h].state # "held"
  BY DEF WithRun
<1> HIDE DEF v
<1>5. Sound(AtBudget(v, h), {}, n, k)
  BY <1>3, <1>4, AtBudgetSound
<1> QED BY <1>2, <1>5 DEF AtSpentHold, Unplanned

\* A claim keeps the money.
LEMMA ClaimedSound ==
    ASSUME NEW t, NEW n \in Int, NEW k \in Int, Sound(t, {}, n, k), NEW h \in Hold,
           t.hold[h].state = "held"
    PROVE  Sound(Claimed(t, h), {}, n, k)
<1> DEFINE r == ClaimedRow(t.hold[h])
           v == With(t, h, r, t.envelope)
<1>1. t \in TablesType /\ RowsKept(t)
  BY DEF Sound, MoneyKept
<1>2. Claimed(t, h) = WithRun(v, t.asks, "claimed") /\ r \in LooseRow
  BY <1>1, ClaimedIs
<1>3. t.hold[h] \in LooseRow /\ RowPaid(t.hold[h])
  BY <1>1, TablesAre DEF RowsKept
<1>4. SameMoney(t.hold[h], r)
  BY <1>3 DEF SameMoney, ClaimedRow, LooseRow, RowPaid, Again
<1>5. v.asks = t.asks /\ "claimed" \in Runs
  BY DEF With, Runs
<1> HIDE DEF r, v
<1>6. Sound(v, {}, n, k)
  BY <1>2, <1>4, SameMoneySound DEF v
<1>7. Sound(WithRun(v, v.asks, "claimed"), {}, n, k)
  BY <1>5, <1>6, RunSound
<1> QED BY <1>2, <1>5, <1>7

\* A hold proved absent leaves its amount to be spent again.
LEMMA AbsentSound ==
    ASSUME NEW t, NEW n \in Int, NEW k \in Int, Sound(t, {}, n, k), NEW h \in Hold,
           t.hold[h].state = "held", t.hold[h].marked, ~ t.hold[h].absent
    PROVE  Sound([t EXCEPT !.hold[h].absent = TRUE], {}, n + t.hold[h].amount, k)
<1> DEFINE o == t.hold[h]
           r == [o EXCEPT !.absent = TRUE]
<1>1. t \in TablesType /\ RowsKept(t)
  BY DEF Sound, MoneyKept
<1>2. [t EXCEPT !.hold[h].absent = TRUE] = With(t, h, r, t.envelope) /\ r \in LooseRow
  BY <1>1, AbsentIs
<1>3. o \in LooseRow /\ RowPaid(o) /\ t.envelope \in EnvelopeType
  BY <1>1, TablesAre DEF RowsKept
<1>4. /\ r.absent /\ r.state = "held" /\ r.amount = o.amount /\ r.actual = o.actual
      /\ r.ended = o.ended /\ r.lease = o.lease /\ r.step = o.step /\ r.word = o.word
      /\ r.marked = o.marked
  BY <1>3 DEF LooseRow
<1>5. o.amount \in Nat /\ o.actual = 0 /\ o.word = "none"
  BY <1>3 DEF RowPaid
<1>6. RowPaid(r)
  BY <1>3, <1>4 DEF RowPaid
<1> HIDE DEF r
<1>7. RowGoesOn(t, h, r) /\ LeavesCharges(t, h, r)
  BY <1>4, <1>5, <1>6 DEF RowGoesOn, LeavesCharges, Again
<1>8. HeldOf(o) = o.amount /\ HeldOf(r) = o.amount /\ NetOf(o) = 0 - o.amount /\ NetOf(r) = 0
  BY <1>4, <1>5 DEF HeldOf, NetOf, Again
<1>9. t.envelope.held \in Int /\ t.envelope.actual \in Int
  BY <1>3 DEF EnvelopeType
<1>10. EnvelopeFor(t, h, r, t.envelope)
  BY <1>4, <1>5, <1>8, <1>9 DEF EnvelopeFor
<1>11. /\ HeldOf(r) + r.actual <= HeldOf(o) + o.actual
       /\ n + o.amount \in Int /\ n + o.amount <= n - NetOf(o) + NetOf(r)
  BY <1>4, <1>5, <1>8
<1> HIDE DEF o
<1>12. Sound(With(t, h, r, t.envelope), {}, n + o.amount, k)
  BY <1>2, <1>3, <1>7, <1>10, <1>11, WithSound DEF o
<1> QED BY <1>2, <1>12 DEF o

\* resume reserves no more than the approved spend has room for.
LEMMA ResumedSound ==
    ASSUME NEW t, OrderKept(t), NEW n \in Int, Sound(t, {}, n, 0), n >= 0,
           NEW h \in Hold, NEW left \in Int, left <= n,
           left <= 0 => t.hold[h].state # "held"
    PROVE  Sound(Resumed(t, h, left, FALSE), {}, 0, 0)
<1>1. t \in TablesType
  BY DEF Sound
<1>2. Sound(t, {}, 0, 0)
  BY SpareLess
<1> DEFINE kept == [t EXCEPT !.hold[h].absent = @ \/ FALSE]
<1>3. kept = t
  <2>1. t.hold \in [Hold -> LooseRow]
    BY <1>1, TablesAre
  <2>2. t.hold[h] \in LooseRow
    BY <2>1
  <2>3. t.hold[h].absent \in BOOLEAN
    BY <2>2 DEF LooseRow
  <2>4. kept = [t EXCEPT !.hold[h].absent = t.hold[h].absent]
    BY <2>3
  <2>5. [t EXCEPT !.hold[h].absent = t.hold[h].absent]
           = With(t, h, [t.hold[h] EXCEPT !.absent = t.hold[h].absent], t.envelope)
    BY <1>1, <2>3, AbsentIs
  <2>6. [t.hold[h] EXCEPT !.absent = t.hold[h].absent] = t.hold[h]
    BY <2>2 DEF LooseRow
  <2>7. With(t, h, t.hold[h], t.envelope) = t
    <3>1. [t.hold EXCEPT ![h] = t.hold[h]] = t.hold
      BY <2>1
    <3>2. t = [hold |-> t.hold, call |-> t.call, asks |-> t.asks, run |-> t.run,
               envelope |-> t.envelope]
      BY <1>1, TablesAre
    <3> QED BY <3>1, <3>2 DEF With
  <2> QED BY <2>4, <2>5, <2>6, <2>7
<1> HIDE DEF kept
<1>4. CASE WrittenOff(t)
  BY <1>2, <1>4 DEF Resumed
<1>5. CASE ~ WrittenOff(t) /\ left <= 0
  <2>1. Sound(AtSpentHold(t, h), {}, 0, 0)
    BY <1>2, <1>5, AtSpentHoldSound
  <2> QED BY <1>5, <2>1 DEF Resumed
<1>6. CASE ~ WrittenOff(t) /\ ~ (left <= 0) /\ Reservable(t, left)
  <2>1. left \in Nat \ {0} /\ NextHold(t) \in Hold /\ Fits(t, left)
    BY <1>6 DEF Reservable
  <2>2. Sound(t, {}, 0 + left, 0)
    BY SpareLess
  <2>3. Sound(Reserved(t, left), {}, 0, 0)
    BY <2>1, <2>2, ReservedSound
  <2> QED BY <1>3, <1>6, <2>3 DEF Resumed, kept
<1>7. CASE ~ WrittenOff(t) /\ ~ (left <= 0) /\ ~ Reservable(t, left)
  BY <1>2, <1>7 DEF Resumed
<1> QED BY <1>4, <1>5, <1>6, <1>7

\* resume beside a hold proved absent.
LEMMA ResumedBesideSound ==
    ASSUME NEW t, OrderKept(t), Sound(t, {}, 0, 0), NEW h \in Hold,
           t.hold[h].state = "held", t.hold[h].lease = "over",
           t.hold[h].marked, ~ t.hold[h].absent
    PROVE  Sound(Resumed(t, h, Left(t, h), TRUE), {}, 0, 0)
<1> DEFINE left == t.hold[h].amount
           kept == [t EXCEPT !.hold[h].absent = TRUE]
<1>1. t \in TablesType /\ RowsKept(t)
  BY DEF Sound, MoneyKept
<1>2. left \in Nat \ {0} /\ t.hold[h].actual = 0
  BY <1>1 DEF RowsKept, RowPaid
<1>3. Left(t, h) = left
  BY <1>2 DEF Left
<1>4. [t EXCEPT !.hold[h].absent = @ \/ TRUE] = kept
  OBVIOUS
<1> HIDE DEF left
<1>5. Resumed(t, h, left, TRUE) = IF WrittenOff(t) THEN t
                                  ELSE IF Reservable(t, left) THEN Reserved(kept, left) ELSE t
  BY <1>2, <1>4 DEF Resumed
<1>6. ASSUME Reservable(t, left) PROVE Sound(Reserved(kept, left), {}, 0, 0)
  <2>1. Sound(kept, {}, 0 + left, 0)
    BY AbsentSound DEF left
  <2>2. Touches(t, kept, h)
    BY AbsentTouches
  <2>4. kept.envelope = t.envelope
    OBVIOUS
  <2> HIDE DEF kept
  <2>20. Quiet(t, kept)
    BY <2>2 DEF Touches
  <2>21. HoldsFollow(t, kept)
    BY <2>20 DEF Quiet
  <2>3. OrderKept(kept) /\ Written(kept) = Written(t)
    BY <2>20, <2>21, QuietKeeps, FollowsKeepsOrder
  <2>5. NextHold(kept) \in Hold /\ Fits(kept, left)
    BY <1>6, <2>3, <2>4 DEF Reservable, NextHold, Fits
  <2> QED BY <1>2, <2>1, <2>3, <2>5, ReservedSound
<1> QED BY <1>3, <1>5, <1>6

\* The end of a run whose ask is answered so keeps the money.
LEMMA RunEndingSound ==
    ASSUME NEW t, NEW n \in Int, NEW k \in Int, Sound(t, {}, n, k), NEW h \in Hold, NEW now \in Runs
    PROVE  Sound(WithRun(Unstarted(t, h), Unstarted(t, h).asks, now), {}, n, k)
BY UnstartedSound, RunSound

(***************************************************************************)
(* The money: an ask answered.                                             *)
(***************************************************************************)

\* An answer to the latest ask, with what it adds to the top-ups.
LEMMA AnsweredAdds ==
    ASSUME NEW t \in TablesType, t.asks # <<>>, t.asks[Len(t.asks)].answer = "open",
           NEW kind \in {"top_up", "end"}, NEW amount \in Nat,
           NEW found \in {"none", "held", "closed"}
    PROVE  LET u == Answered(t, kind, amount, found) IN
           /\ u \in TablesType /\ u.hold = t.hold /\ u.call = t.call /\ u.run = t.run
           /\ u.envelope = t.envelope
           /\ DOMAIN u.asks = DOMAIN t.asks /\ Len(t.asks) \in DOMAIN t.asks
           /\ \A i \in DOMAIN t.asks : u.asks[i].of = t.asks[i].of
           /\ \A i \in DOMAIN t.asks \ {Len(t.asks)} : u.asks[i] = t.asks[i]
           /\ u.asks[Len(t.asks)].answer = kind /\ u.asks[Len(t.asks)].found = found
           /\ TopUpsOf(u) = TopUpsOf(t) + (IF kind = "top_up" THEN amount ELSE 0)
<1> DEFINE u == Answered(t, kind, amount, found)
           a == AnsweredAsks(t, kind, amount, found)
           x == Len(t.asks)
<1>1. /\ u = WithRun(t, a, t.run) /\ a \in Seq(AskRow) /\ x \in DOMAIN t.asks
      /\ DOMAIN a = DOMAIN t.asks
  BY AnsweredIs
<1>10. \A i \in DOMAIN t.asks :
          a[i] = IF i = x THEN [of |-> t.asks[i].of, answer |-> kind, amount |-> amount,
                                found |-> found]
                 ELSE t.asks[i]
  BY AnsweredIs
<1>2. /\ t.hold \in [Hold -> LooseRow] /\ t.call \in [Call -> CallRow] /\ t.run \in Runs
      /\ t.envelope \in EnvelopeType
  BY TablesAre DEF Runs
<1> HIDE DEF a, u, x
<1>3. /\ u \in TablesType /\ u.hold = t.hold /\ u.call = t.call /\ u.run = t.run
      /\ u.envelope = t.envelope /\ u.asks = a
  BY <1>1, <1>2 DEF WithRun, TablesType, Runs, EnvelopeType
<1>4. /\ \A i \in DOMAIN t.asks : a[i].of = t.asks[i].of
      /\ \A i \in DOMAIN t.asks \ {x} : a[i] = t.asks[i]
      /\ a[x].answer = kind /\ a[x].found = found /\ a[x].amount = amount
  <2>1. \A i \in DOMAIN t.asks \ {x} : a[i] = t.asks[i]
    BY <1>10
  <2>2. a[x] = [of |-> t.asks[x].of, answer |-> kind, amount |-> amount, found |-> found]
    BY <1>1, <1>10
  <2>3. /\ a[x].of = t.asks[x].of /\ a[x].answer = kind /\ a[x].found = found
        /\ a[x].amount = amount
    BY <2>2
  <2> QED BY <2>1, <2>3
<1>5. TopUpsOf(u) = TopUpsOf(t) + (IF kind = "top_up" THEN amount ELSE 0)
  <2> DEFINE U == DOMAIN t.asks
             f == [i \in U |-> TopUpOf(t.asks[i])]
             g == [i \in U |-> TopUpOf(a[i])]
  <2>1. TopUpsOf(t) = SumFunctionOnSet(f, U) /\ IsFiniteSet(U)
        /\ \A i \in U : t.asks[i] \in AskRow
    BY TopUpsAre, AsksAre
  <2>2. TopUpsOf(u) = SumFunctionOnSet(g, U)
    BY <1>1, <1>3, TopUpsAre
  <2>3. \A i \in U : TopUpOf(t.asks[i]) \in Int
    BY <2>1 DEF TopUpOf, AskRow
  <2>4. f[x] = 0 /\ g[x] = (IF kind = "top_up" THEN amount ELSE 0) /\ g[x] \in Int
    BY <1>1, <1>4 DEF TopUpOf, x
  <2>5. \A i \in U \ {x} : f[i] = g[i]
    BY <1>4
  <2>6. \A i \in U : f[i] \in Int /\ g[i] \in Int
    BY <2>3, <2>4, <2>5
  <2> HIDE DEF U, f, g
  <2>7. x \in U
    BY <1>1 DEF U
  <2>8. SumFunctionOnSet(f, U) - (IF x \in U THEN f[x] ELSE 0)
          = SumFunctionOnSet(g, U) - (IF x \in U THEN g[x] ELSE 0)
    BY <2>1, <2>5, <2>6, <2>7, SumBeside
  <2>9. SumFunctionOnSet(f, U) \in Int /\ SumFunctionOnSet(g, U) \in Int
    BY <2>1, <2>6, SumType
  <2> QED BY <2>1, <2>2, <2>4, <2>7, <2>8, <2>9
<1> QED BY <1>1, <1>3, <1>4, <1>5 DEF u, x

\* An end adds nothing, and takes no call.
LEMMA EndAnsweredSound ==
    ASSUME NEW t, NEW n \in Int, NEW k \in Int, Sound(t, {}, n, k), t.asks # <<>>,
           t.asks[Len(t.asks)].answer = "open"
    PROVE  Sound(Answered(t, "end", 0, "none"), {}, n, k)
<1> DEFINE u == Answered(t, "end", 0, "none")
           x == Len(t.asks)
<1>1. t \in TablesType /\ RowsKept(t)
  BY DEF Sound, MoneyKept
<1>2. /\ u \in TablesType /\ u.hold = t.hold /\ u.call = t.call /\ u.envelope = t.envelope
      /\ DOMAIN u.asks = DOMAIN t.asks /\ x \in DOMAIN t.asks
      /\ \A i \in DOMAIN t.asks : u.asks[i].of = t.asks[i].of
      /\ \A i \in DOMAIN t.asks \ {x} : u.asks[i] = t.asks[i]
      /\ u.asks[x].answer = "end"
      /\ TopUpsOf(u) = TopUpsOf(t) + (IF "end" = "top_up" THEN 0 ELSE 0)
  BY <1>1, AnsweredAdds
<1>3. t.asks[x].answer = "open"
  OBVIOUS
<1> HIDE DEF u, x
<1>4. \A g : (ToppedUp(u, g) <=> ToppedUp(t, g)) /\ (ToppedUpHeld(u, g) <=> ToppedUpHeld(t, g))
  BY <1>2, <1>3 DEF ToppedUp, ToppedUpHeld
<1>5. StoppedOnce(u)
  BY <1>1, <1>2, <1>3 DEF RowsKept, StoppedOnce
<1>6. AsksGoOn(t, u)
  BY <1>2, <1>4, <1>5 DEF AsksGoOn, MovedIn, Counted
<1>7. TopUpsOf(u) = TopUpsOf(t) + 0 /\ u.envelope.maximum = t.envelope.maximum + 0
  <2>1. TopUpsOf(u) = TopUpsOf(t) + 0
    BY <1>2
  <2>2. t.envelope.maximum \in Int
    BY <1>1, SumsAre
  <2> QED BY <1>2, <2>1, <2>2
<1>8. Sound(u, {}, n + 0, k)
  BY <1>6, <1>7, AsksSound
<1> QED BY <1>8 DEF u

\* The end of a run answers its ask and keeps the money.
LEMMA RunEndedSound ==
    ASSUME NEW t, OrderKept(t), NEW n \in Int, NEW k \in Int, Sound(t, {}, n, k), t.asks # <<>>,
           t.asks[Len(t.asks)].answer = "open", NEW h \in Hold
    PROVE  Sound(RunEnded(t, h), {}, n, k)
<1> DEFINE a == Answered(t, "end", 0, "none")
           v == Unstarted(a, h)
<1>1. Sound(a, {}, n, k)
  BY EndAnsweredSound
<1>2. Quiet(a, v) /\ RunEnded(t, h) = WithRun(v, a.asks, "cancelled")
  BY RunEndedIs
<1>3. Sound(v, {}, n, k)
  BY <1>1, UnstartedSound
<1>4. v.asks = a.asks /\ "cancelled" \in Runs
  BY <1>2 DEF Quiet, Runs
<1> HIDE DEF a, v
<1>5. Sound(WithRun(v, v.asks, "cancelled"), {}, n, k)
  BY <1>3, <1>4, RunSound
<1> QED BY <1>2, <1>4, <1>5

\* The top-up of a closed stop gives the version what it adds.
LEMMA TopUpTakenSound ==
    ASSUME NEW t, NEW n \in Int, NEW k \in Int, Sound(t, {}, n, k), t.asks # <<>>,
           t.asks[Len(t.asks)].answer = "open", NoneLeftOut(t, t.asks[Len(t.asks)].of),
           NEW amount \in Nat
    PROVE  Sound(TopUpTaken(Answered(t, "top_up", amount, "closed"), amount), {}, n + amount, k)
<1> DEFINE a == Answered(t, "top_up", amount, "closed")
           u == TopUpTaken(a, amount)
           x == Len(t.asks)
           h == t.asks[x].of
<1>1. t \in TablesType /\ RowsKept(t)
  BY DEF Sound, MoneyKept
<1>2. /\ a \in TablesType /\ a.hold = t.hold /\ a.call = t.call /\ a.envelope = t.envelope
      /\ DOMAIN a.asks = DOMAIN t.asks /\ x \in DOMAIN t.asks
      /\ \A i \in DOMAIN t.asks : a.asks[i].of = t.asks[i].of
      /\ \A i \in DOMAIN t.asks \ {x} : a.asks[i] = t.asks[i]
      /\ a.asks[x].answer = "top_up" /\ a.asks[x].found = "closed"
      /\ TopUpsOf(a) = TopUpsOf(t) + (IF "top_up" = "top_up" THEN amount ELSE 0)
  BY <1>1, AnsweredAdds
<1>3. t.asks[x].answer = "open" /\ NoneLeftOut(t, h)
  OBVIOUS
<1> HIDE DEF a
<1>4. /\ u = [hold |-> a.hold, call |-> a.call, asks |-> a.asks, run |-> "planned",
              envelope |-> TakenEnvelope(a.envelope, amount)]
      /\ TakenEnvelope(a.envelope, amount) \in EnvelopeType
  BY <1>2, TopUpTakenIs
<1>5. /\ a.hold \in [Hold -> LooseRow] /\ a.call \in [Call -> CallRow] /\ a.asks \in Seq(AskRow)
  BY <1>2, TablesAre
<1> HIDE DEF u, h, x
<1>6. /\ u \in TablesType /\ u.hold = t.hold /\ u.call = t.call /\ u.asks = a.asks
      /\ u.envelope.held = t.envelope.held /\ u.envelope.actual = t.envelope.actual
      /\ u.envelope.maximum = t.envelope.maximum + amount
  BY <1>2, <1>4, <1>5 DEF TablesType, EnvelopeType, TakenEnvelope
<1>7. \A g : ToppedUpHeld(u, g) <=> ToppedUpHeld(t, g)
  BY <1>2, <1>3, <1>6 DEF ToppedUpHeld
<1>8. \A g : g # h => (ToppedUp(u, g) <=> ToppedUp(t, g))
  BY <1>2, <1>3, <1>6 DEF ToppedUp, h
<1>9. \A g \in Hold : MovedIn(u, g) = MovedIn(t, g)
  BY <1>6, <1>7 DEF MovedIn
<1>10. ASSUME NEW c \in Call, t.call[c].state \in Open, Counted(u, t.call[c].of)
       PROVE  Counted(t, t.call[c].of)
  <2>1. CASE t.call[c].of = h
    <3>1. c \in CallsOn(t, h)
      BY <1>10, <2>1 DEF CallsOn, Open, Sent
    <3> QED BY <1>3, <1>10, <2>1, <3>1 DEF NoneLeftOut
  <2>2. CASE t.call[c].of # h
    BY <1>6, <1>8, <1>10, <2>2 DEF Counted
  <2> QED BY <2>1, <2>2
<1>11. StoppedOnce(u)
  <2>1. t.hold[h].state # "held" /\ t.asks[x].of = h
    BY <1>3 DEF NoneLeftOut, h
  <2>2. StoppedOnce(t)
    BY <1>1 DEF RowsKept
  <2> QED BY <1>2, <1>6, <2>1, <2>2 DEF StoppedOnce
<1>12. AsksGoOn(t, u)
  BY <1>6, <1>9, <1>10, <1>11 DEF AsksGoOn
<1>13. TopUpsOf(u) = TopUpsOf(t) + amount
  BY <1>2, <1>6 DEF TopUpsOf
<1>14. Sound(u, {}, n + amount, k)
  BY <1>6, <1>12, <1>13, AsksSound
<1> QED BY <1>14 DEF u, a

(***************************************************************************)
(* The money: a count's commit.                                            *)
(***************************************************************************)

\* What a count knows: its hold covers the spend, and no answer counted it before.
LEMMA CountTells ==
    ASSUME OrderInv, MoneyInv, count.kind # "none"
    PROVE  /\ CountTyped /\ count.spent \in Nat /\ count.spent <= hold[count.of].amount
           /\ count.of \in Hold /\ hold[count.of].state = "held"
           /\ ~ MovedIn(Tables, count.of)
           /\ asks # <<>> /\ asks[Len(asks)].answer = "open" /\ asks[Len(asks)].of = count.of
           /\ (count.kind = "top_up" <=> count.amount > 0)
<1>1. /\ CountTyped /\ Answerable /\ count.of = Stop /\ hold[count.of].state = "held"
      /\ asks # <<>>
  BY CountingIs
<1>2. count.of \in Hold /\ asks[Len(asks)].answer = "open" /\ asks[Len(asks)].of = count.of
  BY <1>1 DEF CountTyped, Answerable, Stop
<1>3. /\ count.spent = SumFunctionOnSet([c \in Call |-> CountedSpend(c)], CallsOn(Tables, count.of))
      /\ count.spent <= hold[count.of].amount
      /\ (count.kind = "top_up" <=> count.amount > 0)
  BY DEF MoneyInv, CountHolds
<1>4. Tables \in TablesType /\ Tables.hold = hold /\ Tables.asks = asks /\ Tables.call = call
  BY OrderIs
<1>5. count.spent \in Nat
  <2> DEFINE f == [c \in Call |-> CountedSpend(c)]
  <2>1. CallsOn(Tables, count.of) \in SUBSET Call /\ IsFiniteSet(CallsOn(Tables, count.of))
    BY <1>2, <1>4, CallsCostNat
  <2>2. \A c \in Call : CallSpend(call[c]) \in 0 .. CallMax /\ CallMax \in Nat
    BY <1>4, ChargesAre, SomePrices
  <2>3. \A c \in CallsOn(Tables, count.of) : f[c] \in Nat
    BY <2>1, <2>2 DEF CountedSpend
  <2> HIDE DEF f
  <2>4. SumFunctionOnSet(f, CallsOn(Tables, count.of)) \in Nat
    BY <2>1, <2>3, SumOfNaturals
  <2> QED BY <1>3, <2>4 DEF f
<1>6. ~ MovedIn(Tables, count.of)
  <2>1. RowPaid(hold[count.of]) /\ StoppedOnce(Tables)
    BY <1>2, <1>4 DEF MoneyInv, MoneyKept, RowsKept
  <2>2. ~ hold[count.of].ended
    BY <1>1, <2>1 DEF RowPaid
  <2>3. ASSUME NEW i \in DOMAIN asks, asks[i].of = count.of PROVE asks[i].answer = "open"
    <3>1. Len(asks) \in DOMAIN asks
      BY <1>1, <1>4, AsksAre
    <3>2. i = Len(asks)
      BY <1>1, <1>2, <1>4, <2>1, <2>3, <3>1 DEF StoppedOnce
    <3> QED BY <1>2, <3>2
  <2> QED BY <1>4, <2>2, <2>3 DEF MovedIn, ToppedUpHeld
<1> QED BY <1>1, <1>2, <1>3, <1>5, <1>6

\* A counted hold's calls are carried as its count recorded them.
LEMMA CountMovesEach ==
    ASSUME OrderInv, MoneyInv, count.kind # "none", NEW u, CountsOnly(u), NEW c \in Call
    PROVE  /\ ChargeOf(u, c, ReleasedOf(u)) = ChargeOf(Tables, c, {}) + SpendMoved(c)
           /\ NetCharge(u, c, ReleasedOf(u))
                = NetCharge(Tables, c, {})
                    + (IF Again(hold[count.of]) THEN 0 ELSE SpendMoved(c))
           /\ SpendMoved(c) \in Nat
<1> DEFINE h == count.of
           D == ReleasedOf(u)
<1>1. /\ CountTyped /\ h \in Hold /\ hold[h].state = "held" /\ ~ MovedIn(Tables, h)
  BY CountTells
<1>2. Tables \in TablesType /\ Tables.hold = hold /\ Tables.call = call
  BY OrderIs
<1>3. /\ \A d \in count.unsent : call[d].of = h /\ call[d].state \in {"reserved", "released"}
  BY DEF MoneyInv, CountHolds
<1>4. /\ call[c] \in CallRow /\ CallSpend(call[c]) \in 0 .. CallMax /\ CallMax \in Nat
      /\ Carried(call[c]) \in Nat
      /\ ChargeOf(Tables, c, {}) \in Nat /\ NetCharge(Tables, c, {}) \in Nat
  BY <1>2, ChargesAre, SomePrices
<1>5. call[c].of \in Hold /\ CallKept(Tables, c)
  BY <1>4 DEF CallRow, MoneyInv, MoneyKept, RowsKept
<1>6. SpendMoved(c) \in Nat
  BY <1>4 DEF SpendMoved, CountedSpend
<1>7. u.call = call /\ MovedIn(u, h) /\ Again(u.hold[call[c].of]) = Again(hold[call[c].of])
      /\ (call[c].of # h => MovedIn(u, call[c].of) = MovedIn(Tables, call[c].of))
  BY <1>5 DEF CountsOnly
<1>8. c \in D <=> c \in count.unsent /\ call[c].state = "released"
  BY <1>7 DEF ReleasedOf
<1> HIDE DEF h, D
<1>9. CASE c \notin CallsOn(Tables, h)
  <2>1. SpendMoved(c) = 0
    BY <1>9 DEF SpendMoved, h
  <2>2. call[c].state = "none" \/ call[c].of # h
    BY <1>2, <1>9 DEF CallsOn
  <2>3. c \notin D
    BY <1>3, <1>8, <2>2
  <2>4. ChargeOf(u, c, D) = ChargeOf(Tables, c, {})
    BY <1>2, <1>7, <2>2, <2>3 DEF ChargeOf
  <2>5. NetCharge(u, c, D) = NetCharge(Tables, c, {})
    BY <1>2, <1>7, <2>4 DEF NetCharge
  <2> QED BY <1>4, <2>1, <2>4, <2>5 DEF h, D
<1>10. CASE c \in CallsOn(Tables, h)
  <2>1. call[c].state # "none" /\ call[c].of = h
    BY <1>2, <1>10 DEF CallsOn
  <2>2. SpendMoved(c) = CountedSpend(c)
    BY <1>10 DEF SpendMoved, h
  <2>3. ChargeOf(Tables, c, {}) = 0 /\ NetCharge(Tables, c, {}) = 0
    BY <1>1, <1>2, <2>1 DEF ChargeOf, NetCharge
  <2>4. ChargeOf(u, c, D) = IF c \in D THEN CallMax ELSE Carried(call[c])
    BY <1>7, <2>1 DEF ChargeOf
  <2>5. ~ call[c].writtenOff
    BY <1>1, <1>2, <1>5, <2>1 DEF CallKept
  <2>6. (IF c \in D THEN CallMax ELSE Carried(call[c])) = CountedSpend(c)
    BY <1>3, <1>8, <2>5 DEF CountedSpend, Carried, CallSpend, Open
  <2>7. NetCharge(u, c, D) = IF Again(hold[h]) THEN 0 ELSE CountedSpend(c)
    BY <1>7, <2>1, <2>4, <2>6 DEF NetCharge
  <2>8. CountedSpend(c) \in Nat
    BY <1>6, <2>2
  <2> QED BY <2>2, <2>3, <2>4, <2>6, <2>7, <2>8 DEF h, D
<1> QED BY <1>6, <1>9, <1>10

\* And all of them, at the spend it recorded.
LEMMA CountMoves ==
    ASSUME OrderInv, MoneyInv, count.kind # "none", NEW u, CountsOnly(u)
    PROVE  /\ ChargeSum(u, ReleasedOf(u)) = ChargeSum(Tables, {}) + count.spent
           /\ NetChargeSum(u, ReleasedOf(u))
                = NetChargeSum(Tables, {}) + (IF Again(hold[count.of]) THEN 0 ELSE count.spent)
           /\ ReleasedOf(u) \in SUBSET Call /\ Owed(u, ReleasedOf(u))
<1> DEFINE D == ReleasedOf(u)
           H == CallsOn(Tables, count.of)
           s == [c \in Call |-> SpendMoved(c)]
<1>1. CountTyped /\ count.of \in Hold /\ count.spent \in Nat
  BY CountTells
<1>2. Tables \in TablesType /\ u \in TablesType /\ u.call = call
  BY OrderIs DEF CountsOnly
<1>3. /\ \A c \in Call : SpendMoved(c) \in Nat
      /\ \A c \in Call : ChargeOf(u, c, D) = ChargeOf(Tables, c, {}) + SpendMoved(c)
      /\ \A c \in Call : NetCharge(u, c, D) = NetCharge(Tables, c, {})
                            + (IF Again(hold[count.of]) THEN 0 ELSE SpendMoved(c))
  BY CountMovesEach
<1>4. IsFiniteSet(Call) /\ H \in SUBSET Call
  BY <1>1, <1>2, RowsAreFinite, CallsCostNat
<1>5. SumFunctionOnSet(s, Call) = count.spent
  <2> DEFINE f == [c \in Call |-> CountedSpend(c)]
  <2>1. count.spent = SumFunctionOnSet(f, H)
    BY DEF MoneyInv, CountHolds
  <2>2. \A c \in H : s[c] = f[c]
    BY <1>4 DEF SpendMoved
  <2>3. \A c \in Call \ H : s[c] = 0
    BY DEF SpendMoved
  <2>4. \A c \in Call : s[c] \in Int
    BY <1>3
  <2>5. IsFiniteSet(H) /\ IsFiniteSet(Call \ H)
    BY <1>4, FS_Subset
  <2> HIDE DEF f, s, H
  <2>6. SumFunctionOnSet(s, Call) = SumFunctionOnSet(s, H) + SumFunctionOnSet(s, Call \ H)
    BY <1>4, <2>4, SumOfParts
  <2>7. SumFunctionOnSet(s, H) = SumFunctionOnSet(f, H)
    BY <2>2, <2>5, SumSame
  <2>8. SumFunctionOnSet(s, Call \ H) = 0
    BY <2>3, <2>5, SumOfZeroes
  <2> QED BY <1>1, <2>1, <2>6, <2>7, <2>8
<1>6. \A c \in Call : ChargeOf(Tables, c, {}) \in Int /\ NetCharge(Tables, c, {}) \in Int
  BY <1>2, ChargesAre
<1>7. ChargeSum(u, D) = ChargeSum(Tables, {}) + count.spent
  <2> DEFINE f == [c \in Call |-> ChargeOf(Tables, c, {})]
             g == [c \in Call |-> ChargeOf(u, c, D)]
  <2>1. \A c \in Call : f[c] \in Int /\ s[c] \in Int /\ g[c] = f[c] + s[c]
    BY <1>3, <1>6
  <2> HIDE DEF f, g, s
  <2>2. SumFunctionOnSet(g, Call) = SumFunctionOnSet(f, Call) + SumFunctionOnSet(s, Call)
    BY <1>4, <2>1, SumOfSums
  <2> QED BY <1>5, <2>2 DEF ChargeSum, f, g
<1>8. NetChargeSum(u, D) = NetChargeSum(Tables, {}) + (IF Again(hold[count.of]) THEN 0 ELSE count.spent)
  <2> DEFINE f == [c \in Call |-> NetCharge(Tables, c, {})]
             g == [c \in Call |-> NetCharge(u, c, D)]
  <2>1. CASE Again(hold[count.of])
    <3>1. \A c \in Call : f[c] = g[c]
      BY <1>3, <1>6, <2>1
    <3>2. SumFunctionOnSet(f, Call) \in Int
      BY <1>4, <1>6, SumType
    <3> HIDE DEF f, g
    <3>3. SumFunctionOnSet(g, Call) = SumFunctionOnSet(f, Call)
      BY <1>4, <3>1, SumSame
    <3> QED BY <2>1, <3>2, <3>3 DEF NetChargeSum, f, g
  <2>2. CASE ~ Again(hold[count.of])
    <3>1. \A c \in Call : f[c] \in Int /\ s[c] \in Int /\ g[c] = f[c] + s[c]
      BY <1>3, <1>6, <2>2
    <3> HIDE DEF f, g, s
    <3>2. SumFunctionOnSet(g, Call) = SumFunctionOnSet(f, Call) + SumFunctionOnSet(s, Call)
      BY <1>4, <3>1, SumOfSums
    <3> QED BY <1>5, <2>2, <3>2 DEF NetChargeSum, f, g
  <2> QED BY <2>1, <2>2
<1>9. D \in SUBSET Call
  BY <1>1 DEF ReleasedOf, CountTyped
<1>10. Owed(u, D)
  <2>1. \A c \in D : call[c].of = count.of
    BY DEF ReleasedOf, MoneyInv, CountHolds
  <2> QED BY <1>2, <2>1 DEF Owed, CountsOnly
<1> QED BY <1>7, <1>8, <1>9, <1>10

\* The holds' sums, with one row of them another.
LEMMA RowSums ==
    ASSUME NEW t \in TablesType, NEW u \in TablesType, NEW h \in Hold,
           \A g \in Hold \ {h} : u.hold[g] = t.hold[g]
    PROVE  /\ HeldSum(u) = HeldSum(t) - HeldOf(t.hold[h]) + HeldOf(u.hold[h])
           /\ ActualSum(u) = ActualSum(t) - t.hold[h].actual + u.hold[h].actual
           /\ NetSum(u) = NetSum(t) - NetOf(t.hold[h]) + NetOf(u.hold[h])
<1>1. \A g \in Hold : t.hold[g] \in LooseRow /\ u.hold[g] \in LooseRow
  BY TablesAre
<1>2. \A g \in Hold :
         /\ t.hold[g].actual \in Int /\ HeldOf(t.hold[g]) \in Int /\ NetOf(t.hold[g]) \in Int
         /\ u.hold[g].actual \in Int /\ HeldOf(u.hold[g]) \in Int /\ NetOf(u.hold[g]) \in Int
  BY <1>1, HoldsAdd
<1>3. HeldSum(u) = HeldSum(t) - HeldOf(t.hold[h]) + HeldOf(u.hold[h])
  <2> DEFINE f == [g \in Hold |-> HeldOf(t.hold[g])]
             k == [g \in Hold |-> HeldOf(u.hold[g])]
  <2>1. /\ \A x \in Hold : f[x] \in Int /\ k[x] \in Int
        /\ \A x \in Hold \ {h} : f[x] = k[x]
        /\ f[h] = HeldOf(t.hold[h]) /\ k[h] = HeldOf(u.hold[h])
    BY <1>2
  <2> HIDE DEF f, k
  <2>2. SumFunctionOnSet(k, Hold) = SumFunctionOnSet(f, Hold) - f[h] + k[h]
    BY <2>1, RowSum
  <2> QED BY <2>1, <2>2 DEF HeldSum, f, k
<1>4. ActualSum(u) = ActualSum(t) - t.hold[h].actual + u.hold[h].actual
  <2> DEFINE f == [g \in Hold |-> t.hold[g].actual]
             k == [g \in Hold |-> u.hold[g].actual]
  <2>1. /\ \A x \in Hold : f[x] \in Int /\ k[x] \in Int
        /\ \A x \in Hold \ {h} : f[x] = k[x]
        /\ f[h] = t.hold[h].actual /\ k[h] = u.hold[h].actual
    BY <1>2
  <2> HIDE DEF f, k
  <2>2. SumFunctionOnSet(k, Hold) = SumFunctionOnSet(f, Hold) - f[h] + k[h]
    BY <2>1, RowSum
  <2> QED BY <2>1, <2>2 DEF ActualSum, f, k
<1>5. NetSum(u) = NetSum(t) - NetOf(t.hold[h]) + NetOf(u.hold[h])
  <2> DEFINE f == [g \in Hold |-> NetOf(t.hold[g])]
             k == [g \in Hold |-> NetOf(u.hold[g])]
  <2>1. /\ \A x \in Hold : f[x] \in Int /\ k[x] \in Int
        /\ \A x \in Hold \ {h} : f[x] = k[x]
        /\ f[h] = NetOf(t.hold[h]) /\ k[h] = NetOf(u.hold[h])
    BY <1>2
  <2> HIDE DEF f, k
  <2>2. SumFunctionOnSet(k, Hold) = SumFunctionOnSet(f, Hold) - f[h] + k[h]
    BY <2>1, RowSum
  <2> QED BY <2>1, <2>2 DEF NetSum, f, k
<1> QED BY <1>3, <1>4, <1>5

\* The end's count keeps the money, the calls released since still whole.
LEMMA EndedSound ==
    ASSUME OrderInv, MoneyInv, CeilingInv, count.kind = "end"
    PROVE  LET u == Ended(Tables) IN
           Sound(u, ReleasedOf(u), 0, 0) /\ Owed(u, ReleasedOf(u)) /\ ReleasedOf(u) \in SUBSET Call
<1> DEFINE t == Tables
           h == count.of
           o == t.hold[h]
           r == CountedRow(o)
           e == CountedEnvelope(t, h)
           u == Ended(t)
           D == ReleasedOf(u)
<1>1. /\ t \in TablesType /\ t.hold = hold /\ t.call = call /\ t.asks = asks
      /\ t.envelope = envelope
  BY OrderIs
<1>2. /\ CountTyped /\ count.spent \in Nat /\ count.spent <= hold[h].amount
      /\ h \in Hold /\ hold[h].state = "held" /\ ~ MovedIn(t, h)
      /\ ~ (count.amount > 0) /\ count.amount \in Nat
  BY CountTells DEF CountTyped
<1>3. u = With(t, h, r, e) /\ r \in LooseRow /\ e \in EnvelopeType
  BY <1>1, <1>2, EndedIs
<1>4. MoneyKept(t, {}) /\ CeilingsKept(t, {}, 0, 0)
  BY <1>2 DEF MoneyInv, CeilingInv
<1>5. o \in LooseRow /\ RowPaid(o)
  BY <1>1, <1>2, <1>4, TablesAre DEF MoneyKept, RowsKept
<1>6. /\ r.state = "abandoned" /\ r.ended /\ r.amount = o.amount /\ r.actual = o.actual
      /\ r.lease = o.lease /\ r.step = o.step /\ r.marked = o.marked /\ r.absent = o.absent
      /\ r.word = o.word
  BY <1>5 DEF CountedRow, LooseRow
<1>7. o.amount \in Nat /\ o.amount > 0 /\ o.actual = 0 /\ o.state = "held"
  BY <1>1, <1>2, <1>5 DEF RowPaid
<1>8. RowPaid(r) /\ Again(r) = Again(o)
  <2> HIDE DEF r, o
  <2> QED BY <1>5, <1>6, <1>7 DEF RowPaid, Again
<1>9. /\ e.held = t.envelope.held - o.amount /\ e.actual = t.envelope.actual + count.spent
      /\ e.maximum = t.envelope.maximum
  BY DEF CountedEnvelope
<1> HIDE DEF r, e
<1>10. /\ u \in TablesType /\ u.hold[h] = r /\ \A g \in Hold \ {h} : u.hold[g] = t.hold[g]
       /\ u.call = t.call /\ u.asks = t.asks /\ u.envelope = e
  BY <1>1, <1>2, <1>3, WithIs DEF With
<1> HIDE DEF u
<1>11. CountsOnly(u)
  <2>1. MovedIn(u, h)
    BY <1>6, <1>10 DEF MovedIn
  <2>2. \A g \in Hold \ {h} : MovedIn(u, g) = MovedIn(t, g)
    BY <1>10 DEF MovedIn, ToppedUpHeld
  <2>3. \A g \in Hold : Again(u.hold[g]) = Again(hold[g])
    BY <1>1, <1>8, <1>10
  <2> QED BY <1>1, <1>10, <2>1, <2>2, <2>3 DEF CountsOnly
<1>12. /\ ChargeSum(u, D) = ChargeSum(t, {}) + count.spent
       /\ NetChargeSum(u, D) = NetChargeSum(t, {}) + (IF Again(o) THEN 0 ELSE count.spent)
       /\ D \in SUBSET Call /\ Owed(u, D)
  BY <1>1, <1>11, CountMoves
<1> HIDE DEF D
<1>13. /\ HeldSum(u) = HeldSum(t) - HeldOf(o) + HeldOf(r)
       /\ ActualSum(u) = ActualSum(t) - o.actual + r.actual
       /\ NetSum(u) = NetSum(t) - NetOf(o) + NetOf(r)
  BY <1>1, <1>2, <1>10, RowSums
<1>14. TopUpsOf(u) = TopUpsOf(t)
  BY <1>10 DEF TopUpsOf
<1>15. /\ HeldSum(t) \in Int /\ ActualSum(t) \in Int /\ ChargeSum(t, {}) \in Int
       /\ NetSum(t) \in Int /\ NetChargeSum(t, {}) \in Int /\ TopUpsOf(t) \in Int /\ Approved \in Int
       /\ t.envelope.held \in Int /\ t.envelope.actual \in Int /\ t.envelope.maximum \in Int
       /\ Cap \in Int /\ count.spent \in Int
  BY <1>1, <1>2, SumsAre, SomePrices
<1>16. /\ HeldOf(o) = o.amount /\ HeldOf(r) = 0
       /\ NetOf(r) - NetOf(o) = o.amount /\ NetOf(r) \in Int /\ NetOf(o) \in Int
  <2>1. HeldOf(o) = o.amount /\ HeldOf(r) = 0
    BY <1>6, <1>7 DEF HeldOf
  <2> HIDE DEF o
  <2> QED BY <1>6, <1>7, <1>8, <2>1 DEF NetOf
<1>17. RowsKept(u)
  <2>1. \A g \in Hold : RowPaid(u.hold[g])
    BY <1>4, <1>8, <1>10 DEF MoneyKept, RowsKept
  <2>2. ASSUME NEW c \in Call PROVE CallKept(u, c)
    <3>1. CallKept(t, c) /\ t.call[c] \in CallRow
      BY <1>1, <1>4, ChargesAre DEF MoneyKept, RowsKept
    <3>2. t.call[c].of \in Hold
      BY <3>1 DEF CallRow
    <3>3. Counted(u, t.call[c].of) => MovedIn(u, t.call[c].of) \/ (Counted(t, t.call[c].of) /\ t.call[c].of # h)
      <4>1. \A g : ToppedUp(u, g) <=> ToppedUp(t, g)
        BY <1>10 DEF ToppedUp
      <4> QED BY <1>10, <1>11, <3>2, <4>1 DEF Counted, CountsOnly
    <3>4. MovedIn(t, t.call[c].of) => MovedIn(u, t.call[c].of)
      BY <1>11, <3>2 DEF CountsOnly
    <3>5. t.hold[t.call[c].of].lease # "none" => u.hold[u.call[c].of].lease # "none"
      BY <1>6, <1>10, <3>2
    <3>6. u.hold[u.call[c].of].state = "held" => t.hold[t.call[c].of].state = "held"
      BY <1>7, <1>10, <3>2
    <3>7. WrittenOff(t) => WrittenOff(u)
      BY <1>2, <1>6, <1>10 DEF WrittenOff
    <3> QED BY <1>10, <3>1, <3>3, <3>4, <3>5, <3>6, <3>7 DEF CallKept
  <2>3. CallsInOrder(u)
    BY <1>4, <1>10 DEF MoneyKept, RowsKept, CallsInOrder
  <2>4. StoppedOnce(u)
    <3>1. \A i \in DOMAIN t.asks : t.asks[i].of \in Hold
      BY <1>1, AsksAre DEF AskRow
    <3>2. \A i \in DOMAIN t.asks : u.hold[t.asks[i].of].state = "held" => t.hold[t.asks[i].of].state = "held"
      BY <1>7, <1>10, <3>1
    <3> QED BY <1>4, <1>10, <3>2 DEF MoneyKept, RowsKept, StoppedOnce
  <2>5. Covers(u)
    <3> SUFFICES ASSUME NEW g \in HeldIn(u) PROVE MovedIn(u, g) \/ SpentOn(u, g) <= u.hold[g].amount
      BY DEF Covers
    <3>1. g \in Hold /\ g # h /\ u.hold[g] = t.hold[g] /\ g \in HeldIn(t)
      BY <1>6, <1>10 DEF HeldIn
    <3>2. SpentOn(u, g) = SpentOn(t, g) /\ MovedIn(u, g) = MovedIn(t, g)
      BY <1>10, <1>11, <3>1 DEF SpentOn, CallsOn, CountsOnly
    <3> QED BY <1>4, <3>1, <3>2 DEF MoneyKept, RowsKept, Covers
  <2> QED BY <2>1, <2>2, <2>3, <2>4, <2>5 DEF RowsKept
<1>18. Balanced(u, D)
  BY <1>4, <1>6, <1>7, <1>9, <1>10, <1>12, <1>13, <1>15, <1>16 DEF MoneyKept, Balanced
<1>19. Spare(u, D) >= 0
  <2>1. Spare(t, {}) >= 0
    BY <1>4 DEF CeilingsKept
  <2>2. count.spent <= o.amount
    BY <1>1, <1>2
  <2> HIDE DEF o, t
  <2> QED BY <1>2, <1>7, <1>12, <1>13, <1>14, <1>15, <1>16, <2>1, <2>2 DEF Spare
<1>20. Committed(u) <= u.envelope.maximum /\ Committed(u) + 0 <= Cap
  <2>1. Committed(t) <= t.envelope.maximum /\ Committed(t) + 0 <= Cap
    BY <1>4 DEF CeilingsKept
  <2>2. count.spent <= o.amount
    BY <1>1, <1>2
  <2> HIDE DEF o, t
  <2> QED BY <1>7, <1>9, <1>10, <1>15, <2>1, <2>2 DEF Committed
<1> QED BY <1>10, <1>12, <1>17, <1>18, <1>19, <1>20 DEF Sound, MoneyKept, CeilingsKept, D, u

\* A top-up's count keeps the money: the hold, the envelope and the approved spend
\* rise together, and the calls released since are still carried whole.
LEMMA RaisedSound ==
    ASSUME OrderInv, MoneyInv, CeilingInv, count.kind = "top_up"
    PROVE  LET u == Raised(Answered(Tables, "top_up", count.amount, "held")) IN
           Sound(u, ReleasedOf(u), 0, 0) /\ Owed(u, ReleasedOf(u)) /\ ReleasedOf(u) \in SUBSET Call
<1> DEFINE t == Tables
           h == count.of
           w == Answered(t, "top_up", count.amount, "held")
           o == t.hold[h]
           r == RaisedRow(o)
           e == RaisedEnvelope(t.envelope)
           u == Raised(w)
           D == ReleasedOf(u)
           x == Len(t.asks)
           a == count.amount
           s == count.spent
<1>1. /\ t \in TablesType /\ t.hold = hold /\ t.call = call /\ t.asks = asks
      /\ t.envelope = envelope
  BY OrderIs
<1>2. /\ CountTyped /\ s \in Nat /\ s <= hold[h].amount
      /\ h \in Hold /\ hold[h].state = "held" /\ ~ MovedIn(t, h)
      /\ a > 0 /\ a \in Nat
      /\ t.asks # <<>> /\ t.asks[x].answer = "open" /\ t.asks[x].of = h
  BY <1>1, CountTells DEF CountTyped
<1>3. /\ w \in TablesType /\ w.hold = t.hold /\ w.call = t.call /\ w.run = t.run
      /\ w.envelope = t.envelope
      /\ DOMAIN w.asks = DOMAIN t.asks /\ x \in DOMAIN t.asks
      /\ \A i \in DOMAIN t.asks : w.asks[i].of = t.asks[i].of
      /\ \A i \in DOMAIN t.asks \ {x} : w.asks[i] = t.asks[i]
      /\ w.asks[x].answer = "top_up" /\ w.asks[x].found = "held"
      /\ TopUpsOf(w) = TopUpsOf(t) + (IF "top_up" = "top_up" THEN a ELSE 0)
  BY <1>1, <1>2, AnsweredAdds
<1> HIDE DEF w
<1>4. u = WithRun(With(w, h, r, e), w.asks, "planned") /\ r \in LooseRow /\ e \in EnvelopeType
  BY <1>2, <1>3, RaisedIs
<1>5. MoneyKept(t, {}) /\ CeilingsKept(t, {}, 0, a)
  BY DEF MoneyInv, CeilingInv
<1>6. o \in LooseRow /\ RowPaid(o)
  BY <1>1, <1>2, <1>5, TablesAre DEF MoneyKept, RowsKept
<1>7. o.amount \in Nat /\ o.amount > 0 /\ o.actual = 0 /\ o.state = "held" /\ s <= o.amount
  BY <1>1, <1>2, <1>6 DEF RowPaid
<1>8. /\ r.state = "held" /\ r.ended = o.ended /\ r.amount = o.amount + a - s
      /\ r.actual = o.actual /\ r.lease = o.lease /\ r.step = o.step /\ r.marked = o.marked
      /\ r.absent = o.absent /\ r.word = o.word
  BY <1>6, <1>7 DEF RaisedRow, LooseRow
<1>9. RowPaid(r) /\ Again(r) = Again(o)
  <2> HIDE DEF r, o, a, s
  <2>1. r.amount \in Nat /\ r.amount > 0
    BY <1>2, <1>7, <1>8
  <2> QED BY <1>6, <1>7, <1>8, <2>1 DEF RowPaid, Again
<1>10. /\ e.held = t.envelope.held + a - s /\ e.actual = t.envelope.actual + s
       /\ e.maximum = t.envelope.maximum + a
  BY DEF RaisedEnvelope
<1> HIDE DEF r, e
<1>11. /\ u.hold[h] = r /\ \A g \in Hold \ {h} : u.hold[g] = t.hold[g]
       /\ u.call = t.call /\ u.asks = w.asks /\ u.envelope = e
  <2> DEFINE v == With(w, h, r, e)
  <2>1. /\ v.hold[h] = r /\ \A g \in Hold \ {h} : v.hold[g] = w.hold[g]
    BY <1>2, <1>3, <1>4, WithIs
  <2>2. v.call = w.call /\ v.asks = w.asks /\ v.envelope = e
    BY DEF With
  <2>4. u = WithRun(v, w.asks, "planned")
    BY <1>4
  <2> HIDE DEF v, u
  <2>3. /\ u.hold = v.hold /\ u.call = v.call /\ u.asks = w.asks /\ u.envelope = v.envelope
    BY <2>4 DEF WithRun
  <2> QED BY <1>3, <2>1, <2>2, <2>3
<1>12. u \in TablesType
  <2>1. With(w, h, r, e) \in TablesType
    BY <1>2, <1>3, <1>4, WithIs
  <2>2. w.asks \in Seq(AskRow) /\ "planned" \in Runs
    BY <1>3, TablesAre DEF Runs
  <2> QED BY <1>4, <2>1, <2>2 DEF WithRun, TablesType, Runs
<1> HIDE DEF u
<1>13. CountsOnly(u)
  <2>1. MovedIn(u, h)
    BY <1>2, <1>3, <1>11 DEF MovedIn, ToppedUpHeld
  <2>2. ASSUME NEW g \in Hold \ {h} PROVE MovedIn(u, g) = MovedIn(t, g)
    <3>1. ToppedUpHeld(u, g) <=> ToppedUpHeld(t, g)
      BY <1>2, <1>3, <1>11 DEF ToppedUpHeld
    <3> QED BY <1>11, <3>1 DEF MovedIn
  <2>3. \A g \in Hold : Again(u.hold[g]) = Again(hold[g])
    BY <1>1, <1>9, <1>11
  <2> QED BY <1>1, <1>11, <1>12, <2>1, <2>2, <2>3 DEF CountsOnly
<1>14. /\ ChargeSum(u, D) = ChargeSum(t, {}) + s
       /\ NetChargeSum(u, D) = NetChargeSum(t, {}) + (IF Again(o) THEN 0 ELSE s)
       /\ D \in SUBSET Call /\ Owed(u, D)
  BY <1>1, <1>13, CountMoves
<1> HIDE DEF D
<1>15. /\ HeldSum(u) = HeldSum(t) - HeldOf(o) + HeldOf(r)
       /\ ActualSum(u) = ActualSum(t) - o.actual + r.actual
       /\ NetSum(u) = NetSum(t) - NetOf(o) + NetOf(r)
  BY <1>1, <1>2, <1>11, <1>12, RowSums
<1>16. TopUpsOf(u) = TopUpsOf(t) + a
  <2>1. TopUpsOf(u) = TopUpsOf(w)
    BY <1>11 DEF TopUpsOf
  <2> QED BY <1>3, <2>1
<1>17. /\ HeldSum(t) \in Int /\ ActualSum(t) \in Int /\ ChargeSum(t, {}) \in Int
       /\ NetSum(t) \in Int /\ NetChargeSum(t, {}) \in Int /\ TopUpsOf(t) \in Int /\ Approved \in Int
       /\ t.envelope.held \in Int /\ t.envelope.actual \in Int /\ t.envelope.maximum \in Int
       /\ Cap \in Int /\ s \in Int /\ a \in Int
  <2>1. s \in Int /\ a \in Int
    BY <1>2
  <2> HIDE DEF t, s, a
  <2>2. /\ HeldSum(t) \in Int /\ ActualSum(t) \in Int /\ ChargeSum(t, {}) \in Nat
        /\ NetSum(t) \in Int /\ NetChargeSum(t, {}) \in Nat /\ TopUpsOf(t) \in Nat
        /\ Approved \in Nat
        /\ t.envelope.held \in Int /\ t.envelope.actual \in Int /\ t.envelope.maximum \in Int
    BY <1>1, SumsAre
  <2>3. Cap \in Int
    BY SomePrices
  <2> QED BY <2>1, <2>2, <2>3
<1>18. HeldOf(o) = o.amount /\ HeldOf(r) = o.amount + a - s
  BY <1>7, <1>8 DEF HeldOf
<1>19. /\ NetOf(r) \in Int /\ NetOf(o) \in Int
       /\ NetOf(r) - NetOf(o) = IF Again(o) THEN 0 ELSE s - a
  <2> HIDE DEF o, a, s
  <2> QED BY <1>7, <1>8, <1>9, <1>17, <1>18 DEF NetOf
<1>20. RowsKept(u)
  <2>1. \A g \in Hold : RowPaid(u.hold[g])
    BY <1>5, <1>9, <1>11 DEF MoneyKept, RowsKept
  <2>2. ASSUME NEW c \in Call PROVE CallKept(u, c)
    <3>1. CallKept(t, c) /\ t.call[c] \in CallRow
      BY <1>1, <1>5, ChargesAre DEF MoneyKept, RowsKept
    <3>2. t.call[c].of \in Hold
      BY <3>1 DEF CallRow
    <3>3. Counted(u, t.call[c].of) => MovedIn(u, t.call[c].of) \/ (Counted(t, t.call[c].of) /\ t.call[c].of # h)
      <4>1. \A g : g # h => (ToppedUp(u, g) <=> ToppedUp(t, g))
        BY <1>2, <1>3, <1>11 DEF ToppedUp
      <4> QED BY <1>11, <1>13, <3>2, <4>1 DEF Counted, CountsOnly
    <3>4. MovedIn(t, t.call[c].of) => MovedIn(u, t.call[c].of)
      BY <1>13, <3>2 DEF CountsOnly
    <3>5. t.hold[t.call[c].of].lease # "none" => u.hold[u.call[c].of].lease # "none"
      BY <1>8, <1>11, <3>2
    <3>6. u.hold[u.call[c].of].state = "held" => t.hold[t.call[c].of].state = "held"
      BY <1>7, <1>11, <3>2
    <3>7. WrittenOff(t) => WrittenOff(u)
      BY <1>2, <1>8, <1>11 DEF WrittenOff
    <3> QED BY <1>11, <3>1, <3>3, <3>4, <3>5, <3>6, <3>7 DEF CallKept
  <2>3. CallsInOrder(u)
    BY <1>5, <1>11 DEF MoneyKept, RowsKept, CallsInOrder
  <2>4. StoppedOnce(u)
    <3>1. \A i \in DOMAIN t.asks : t.asks[i].of \in Hold
      BY <1>1, AsksAre DEF AskRow
    <3>2. \A i \in DOMAIN t.asks : u.hold[t.asks[i].of].state = "held" => t.hold[t.asks[i].of].state = "held"
      BY <1>7, <1>11, <3>1
    <3> QED BY <1>3, <1>5, <1>11, <3>2 DEF MoneyKept, RowsKept, StoppedOnce
  <2>5. Covers(u)
    <3> SUFFICES ASSUME NEW g \in HeldIn(u) PROVE MovedIn(u, g) \/ SpentOn(u, g) <= u.hold[g].amount
      BY DEF Covers
    <3>1. g \in Hold
      BY DEF HeldIn
    <3>2. CASE g = h
      BY <1>13, <3>2 DEF CountsOnly
    <3>3. CASE g # h
      <4>1. u.hold[g] = t.hold[g] /\ g \in HeldIn(t)
        BY <1>11, <3>1, <3>3 DEF HeldIn
      <4>2. SpentOn(u, g) = SpentOn(t, g) /\ MovedIn(u, g) = MovedIn(t, g)
        BY <1>11, <1>13, <3>1, <3>3 DEF SpentOn, CallsOn, CountsOnly
      <4> QED BY <1>5, <4>1, <4>2 DEF MoneyKept, RowsKept, Covers
    <3> QED BY <3>2, <3>3
  <2> QED BY <2>1, <2>2, <2>3, <2>4, <2>5 DEF RowsKept
<1>21. Balanced(u, D)
  <2>1. Balanced(t, {})
    BY <1>5 DEF MoneyKept
  <2> HIDE DEF o, a, s, t
  <2> QED BY <1>7, <1>8, <1>10, <1>11, <1>14, <1>15, <1>17, <1>18, <2>1 DEF Balanced
<1>22. Spare(u, D) >= 0
  <2>1. Spare(t, {}) >= 0
    BY <1>5 DEF CeilingsKept
  <2>2. /\ NetSum(u) = NetSum(t) - NetOf(o) + NetOf(r)
        /\ NetChargeSum(u, D) = NetChargeSum(t, {}) + (IF Again(o) THEN 0 ELSE s)
    BY <1>14, <1>15
  <2> HIDE DEF o, t, a, s
  <2>3. CASE Again(o)
    <3>1. NetSum(u) = NetSum(t) /\ NetChargeSum(u, D) = NetChargeSum(t, {})
      BY <1>17, <1>19, <2>2, <2>3
    <3> QED BY <1>2, <1>16, <1>17, <2>1, <3>1 DEF Spare
  <2>4. CASE ~ Again(o)
    <3>1. NetSum(u) = NetSum(t) + s - a /\ NetChargeSum(u, D) = NetChargeSum(t, {}) + s
      BY <1>17, <1>19, <2>2, <2>4
    <3> QED BY <1>16, <1>17, <2>1, <3>1 DEF Spare
  <2> QED BY <2>3, <2>4
<1>23. Committed(u) <= u.envelope.maximum /\ Committed(u) + 0 <= Cap
  <2>1. Committed(t) <= t.envelope.maximum /\ Committed(t) + a <= Cap
    BY <1>5 DEF CeilingsKept
  <2> HIDE DEF o, t, a, s
  <2> QED BY <1>10, <1>11, <1>17, <2>1 DEF Committed
<1> QED BY <1>12, <1>14, <1>20, <1>21, <1>22, <1>23 DEF Sound, MoneyKept, CeilingsKept, D, u, w

(***************************************************************************)
(* The money is kept by every action.                                      *)
(***************************************************************************)

\* Between transactions the tables are sound, with the cap a counted top-up needs.
LEMMA SoundIs ==
    ASSUME OrderInv, MoneyInv, CeilingInv
    PROVE  /\ Sound(Tables, {}, 0, count.amount) /\ Sound(Tables, {}, 0, 0)
           /\ RowsKept(Tables) /\ CountTyped
<1>1. Tables \in TablesType /\ CountTyped
  BY OrderIs, CountIs DEF OrderInv
<1>2. MoneyKept(Tables, {}) /\ CeilingsKept(Tables, {}, 0, count.amount)
  BY DEF MoneyInv, CeilingInv
<1>3. CeilingsKept(Tables, {}, 0, 0)
  <2>1. Committed(Tables) \in Int /\ Cap \in Int /\ count.amount \in Nat
    BY <1>1, SumsAre, SomePrices DEF CountTyped
  <2>2. Committed(Tables) + count.amount <= Cap
    BY <1>2 DEF CeilingsKept
  <2>3. Committed(Tables) + 0 <= Cap
    BY <2>1, <2>2
  <2> QED BY <1>2, <2>3 DEF CeilingsKept
<1> QED BY <1>1, <1>2, <1>3 DEF Sound, MoneyKept

\* A transaction under the lock that keeps the money leaves no count to disturb.
LEMMA AlterKeepsMoney ==
    ASSUME OrderInv, NEW t, Alter(t), Sound(t, {}, 0, 0)
    PROVE  MoneyInv' /\ CeilingInv'
<1>1. Tables' = t
  BY CommitIs DEF Sound, Alter
<1>2. MoneyKept(Tables, {})' /\ CeilingsKept(Tables', {}, 0, 0)
  BY <1>1 DEF Sound
<1>3. count = Uncounting /\ count' = count
  BY DEF Alter, Alone
<1>4. CountHolds' /\ count'.amount = 0
  BY <1>3 DEF CountHolds, Uncounting
<1> QED BY <1>2, <1>4 DEF MoneyInv, CeilingInv

\* Nor does a committed answer.
LEMMA CommitAnswerKeepsMoney ==
    ASSUME NEW kind, NEW t, CommitAnswer(kind, t), Sound(t, {}, 0, 0)
    PROVE  MoneyInv' /\ CeilingInv'
<1>1. Commit(t) /\ count' = Uncounting
  BY DEF CommitAnswer
<1>2. Tables' = t
  BY <1>1, CommitIs DEF Sound
<1>3. MoneyKept(Tables, {})' /\ CeilingsKept(Tables', {}, 0, 0)
  BY <1>2 DEF Sound
<1>4. CountHolds' /\ count'.amount = 0
  BY <1>1 DEF CountHolds, Uncounting
<1> QED BY <1>3, <1>4 DEF MoneyInv, CeilingInv

\* The top-up of a held hold.
LEMMA TopUpHeldMoney ==
    ASSUME OrderInv, MoneyInv, CeilingInv, TopUpHeld
    PROVE  MoneyInv' /\ CeilingInv'
<1> DEFINE r == Raised(Answered(Tables, "top_up", count.amount, "held"))
           u == ReleasedSince(r)
<1>1. CommitAnswer("top_up", u) /\ count.kind = "top_up"
  BY DEF TopUpHeld, ToppedUpNow, CommitAnswer
<1>2. Sound(r, ReleasedOf(r), 0, 0) /\ Owed(r, ReleasedOf(r)) /\ ReleasedOf(r) \in SUBSET Call
  BY <1>1, RaisedSound
<1> HIDE DEF r
<1>3. Sound(u, {}, 0, 0)
  BY <1>2, AllGivenBackSound DEF ReleasedSince, ReleasedOf
<1> HIDE DEF u
<1> QED BY <1>1, <1>3, CommitAnswerKeepsMoney

\* The end of a held one.
LEMMA EndHeldMoney ==
    ASSUME OrderInv, MoneyInv, CeilingInv, EndHeld
    PROVE  MoneyInv' /\ CeilingInv'
<1> DEFINE t == Tables
           e == Ended(t)
           r == ReleasedSince(e)
           h == count.of
           u == RunEnded(r, h)
<1>1. OrderKept(t) /\ t.hold = hold /\ t.asks = asks
  BY OrderIs
<1>2. CommitAnswer("end", u) /\ count.kind = "end"
  BY DEF EndHeld, CommitAnswer
<1>3. /\ CountTyped /\ hold[h].state = "held" /\ hold[h].lease = "over" /\ h \in Hold
      /\ asks # <<>> /\ asks[Len(asks)].answer = "open"
  BY <1>2, CountingIs, CountTells DEF CountTyped
<1>4. Sound(e, ReleasedOf(e), 0, 0) /\ Owed(e, ReleasedOf(e)) /\ ReleasedOf(e) \in SUBSET Call
  BY <1>2, EndedSound
<1> HIDE DEF t
<1>5. Quiet(t, e) /\ OrderKept(e)
  BY <1>1, <1>3, EndedKeeps, QuietKeeps DEF Running
<1> HIDE DEF e, h
<1>6. Quiet(e, r) /\ OrderKept(r)
  BY <1>3, <1>5, ReleasedSinceQuiet
<1>7. Sound(r, {}, 0, 0)
  BY <1>4, AllGivenBackSound DEF ReleasedSince, ReleasedOf
<1> HIDE DEF r
<1>8. r.asks = asks
  BY <1>1, <1>5, <1>6 DEF Quiet
<1>9. Sound(u, {}, 0, 0)
  BY <1>3, <1>6, <1>7, <1>8, RunEndedSound
<1> HIDE DEF u
<1> QED BY <1>2, <1>9, CommitAnswerKeepsMoney

\* The end of a closed one.
LEMMA EndClosedMoney ==
    ASSUME OrderInv, MoneyInv, CeilingInv, EndClosed
    PROVE  MoneyInv' /\ CeilingInv'
<1> DEFINE t == Tables
           h == Stop
           u == RunEnded(t, h)
<1>1. Answerable /\ Alter(u)
  BY DEF EndClosed
<1>2. OrderKept(t) /\ t.asks = asks /\ h \in Hold /\ asks # <<>> /\ asks[Len(asks)].answer = "open"
  BY <1>1, OrderIs, StopIs DEF Answerable
<1>3. Sound(t, {}, 0, 0)
  BY SoundIs
<1> HIDE DEF t, h
<1>4. Sound(u, {}, 0, 0)
  BY <1>2, <1>3, RunEndedSound
<1> HIDE DEF u
<1> QED BY <1>1, <1>4, AlterKeepsMoney

\* A closed hold's unsent calls, released before the answer counts it.
LEMMA UncountedReleasedSound ==
    ASSUME NEW t, NEW n \in Int, NEW k \in Int, Sound(t, {}, n, k), NEW h \in Hold
    PROVE  Sound(UncountedReleased(t, h), {}, n, k)
<1>1. CASE Counted(t, h) \/ ~ LeaseEnded(h)
  BY <1>1 DEF UncountedReleased
<1>2. CASE ~ (Counted(t, h) \/ ~ LeaseEnded(h))
  <2> DEFINE C == Unsent(t, h)
  <2>1. UncountedReleased(t, h) = CallsMoved(t, C, "released")
    BY <1>2 DEF UncountedReleased
  <2>2. ~ MovedIn(t, h)
    BY <1>2 DEF Counted, MovedIn, ToppedUp, ToppedUpHeld
  <2>3. Releases(t, C, {})
    BY <2>2 DEF Releases, Unsent, CallsOn, Open
  <2> HIDE DEF C
  <2> QED BY <2>1, <2>3, ReleasedSound
<1> QED BY <1>1, <1>2

\* What the top-up of a closed stop finds, once the unsent calls are released.
LEMMA NoneIsLeftOut ==
    ASSUME OrderInv, NEW h \in Hold, hold[h].state # "held", hold[h].lease = "over",
           ~ OutAtClose(h)
    PROVE  NoneLeftOut(UncountedReleased(Tables, h), h)
<1> DEFINE t == Tables
           w == UncountedReleased(t, h)
           C == Unsent(t, h)
<1>1. OrderKept(t) /\ t \in TablesType /\ t.hold = hold /\ t.call = call /\ LeaseEnded(h)
  BY OrderIs DEF LeaseEnded
<1>2. Quiet(t, w) /\ w.hold = t.hold
  BY <1>1, UncountedReleasedQuiet
<1>3. \A c \in CallsOn(t, h) : call[c].state \in Sent => Counted(t, h)
  BY DEF OutAtClose
<1>4. Counted(w, h) <=> Counted(t, h)
  BY <1>2 DEF Counted, ToppedUp, Quiet
<1>5. CASE Counted(t, h)
  BY <1>1, <1>2, <1>4, <1>5 DEF NoneLeftOut
<1>6. CASE ~ Counted(t, h)
  <2>1. w.call = MovedCalls(t, C, "released")
    <3>1. w = CallsMoved(t, C, "released")
      BY <1>1, <1>6 DEF UncountedReleased
    <3> HIDE DEF w, C, t
    <3> QED BY <1>1, <3>1, CallsMovedQuiet
  <2>2. ASSUME NEW c \in CallsOn(w, h), w.call[c].state \in Open PROVE FALSE
    <3>1. c \in Call /\ w.call[c].state # "none" /\ w.call[c].of = h
      BY <2>2 DEF CallsOn
    <3>2. t.call[c] \in CallRow
      BY <1>1, <3>1, ChargesAre
    <3>3. w.call[c] = IF c \in C THEN [t.call[c] EXCEPT !.state = "released"] ELSE t.call[c]
      BY <2>1, <3>1 DEF MovedCalls
    <3> HIDE DEF w, t
    <3>4. c \notin C /\ w.call[c] = t.call[c]
      BY <2>2, <3>2, <3>3 DEF Open, Sent, CallRow
    <3>5. c \in CallsOn(t, h) /\ t.call[c].state \in Open
      BY <2>2, <3>1, <3>4 DEF CallsOn
    <3>6. t.call[c].state \in Sent
      BY <3>4, <3>5 DEF Unsent, Open
    <3> QED BY <1>1, <1>3, <1>6, <3>5, <3>6
  <2> QED BY <1>1, <1>2, <2>2 DEF NoneLeftOut
<1> QED BY <1>5, <1>6

\* The top-up of a closed stop.
LEMMA TopUpClosedMoney ==
    ASSUME OrderInv, MoneyInv, CeilingInv, NEW amount \in TopUps, TopUpClosed(amount)
    PROVE  MoneyInv' /\ CeilingInv'
<1> DEFINE t == Tables
           h == Stop
           w == UncountedReleased(t, h)
           a == Answered(w, "top_up", amount, "closed")
           raised == TopUpTaken(a, amount)
<1>1. OrderKept(t) /\ t.asks = asks /\ Sound(t, {}, 0, 0)
  BY OrderIs, SoundIs
<1>2. /\ Answerable /\ asks # <<>> /\ asks[Len(asks)].answer = "open" /\ ~ OutAtClose(h)
      /\ hold[h].state # "held" /\ asks[Len(asks)].of = h
      /\ Reservable(raised, amount) /\ Alter(Reserved(raised, amount))
  BY DEF TopUpClosed, TopUpTaken, Answerable, Stop
<1>3. h \in Hold /\ amount \in Nat \ {0} /\ amount \in Nat /\ amount \in Int /\ hold[h].lease = "over"
  BY <1>2, StopIs, SomePrices
<1>4. NoneLeftOut(w, h)
  BY <1>2, <1>3, NoneIsLeftOut
<1> HIDE DEF t, h
<1>5. Quiet(t, w) /\ Sound(w, {}, 0, 0)
  BY <1>1, <1>3, UncountedReleasedQuiet, UncountedReleasedSound
<1> HIDE DEF w
<1>6. OrderKept(w) /\ w.asks = asks
  BY <1>1, <1>2, <1>5, QuietKeeps DEF Quiet
<1>7. OrderKept(a)
  BY <1>2, <1>3, <1>6, AnsweredKeeps
<1>8. Sound(raised, {}, 0 + amount, 0)
  BY <1>2, <1>3, <1>4, <1>5, <1>6, TopUpTakenSound
<1> HIDE DEF a
<1>9. OrderKept(raised)
  BY <1>3, <1>7, TopUpTakenKeeps
<1> HIDE DEF raised
<1>10. Sound(Reserved(raised, amount), {}, 0, 0)
  BY <1>2, <1>3, <1>8, <1>9, ReservedSound DEF Reservable
<1> QED BY <1>2, <1>10, AlterKeepsMoney

(***************************************************************************)
(* The worker's money.                                                     *)
(***************************************************************************)

\* A pickup fences and claims.
LEMMA PickUpMoney ==
    ASSUME OrderInv, MoneyInv, CeilingInv, NEW h \in Hold, PickUp(h)
    PROVE  MoneyInv' /\ CeilingInv'
<1> DEFINE t == Tables
           f == Fenced(t, h)
<1>1. OrderKept(t) /\ t.hold = hold /\ Sound(t, {}, 0, 0)
  BY OrderIs, SoundIs
<1>2. hold[h].state = "held" /\ Alter(Claimed(f, h))
  BY DEF PickUp
<1> HIDE DEF t
<1>3. f.hold[h] = t.hold[h] /\ Sound(f, {}, 0, 0)
  BY <1>1, FencedQuiet, FencedSound
<1> HIDE DEF f
<1>4. Sound(Claimed(f, h), {}, 0, 0)
  BY <1>1, <1>2, <1>3, ClaimedSound
<1> QED BY <1>2, <1>4, AlterKeepsMoney

\* The calls of a run are numbered without a gap.
LEMMA NextCallIs ==
    ASSUME OrderInv, MoneyInv, NextCall \in Call
    PROVE  /\ call[NextCall] = NoCall
           /\ \A c \in Call : c < NextCall => call[c].state # "none"
<1> DEFINE S == {c \in Call : call[c].state # "none"}
<1>1. RowsKept(Tables) /\ Tables.call = call
  BY OrderIs DEF MoneyInv, MoneyKept
<1>2. \A c, d \in 1 .. Calls : c < d /\ d \in S => c \in S
  BY <1>1 DEF RowsKept, CallsInOrder, Call
<1>3. Calls \in Nat /\ S \in SUBSET (1 .. Calls)
  BY SomeBounds DEF Call
<1> HIDE DEF S
<1>4. Cardinality(S) \in Nat /\ \A c \in 1 .. Calls : c \in S <=> c <= Cardinality(S)
  BY <1>2, <1>3, NumberedWithoutGap
<1>5. NextCall = Cardinality(S) + 1
  BY DEF NextCall, S
<1>6. NextCall \in 1 .. Calls /\ \A c \in Call : c \in 1 .. Calls
  BY DEF Call
<1>7. NextCall \notin S /\ \A c \in Call : c < NextCall => c \in S
  BY <1>4, <1>5, <1>6
<1>8. call[NextCall].state = "none" /\ \A c \in Call : c < NextCall => call[c].state # "none"
  BY <1>7 DEF S
<1> QED BY <1>1, <1>8 DEF RowsKept, CallKept

\* A call reserved in what the hold has room for adds nothing to what it holds.
LEMMA NewCallSound ==
    ASSUME OrderInv, MoneyInv, CeilingInv, NEW h \in Hold, Working(h), RoomFor(h), NextCall \in Call
    PROVE  Sound(WithCalls(Tables, NewCalls(Tables, NextCall, h)), {}, 0, 0)
<1> DEFINE t == Tables
           n == NextCall
           f == NewCalls(t, n, h)
           u == WithCalls(t, f)
           new == [NoCall EXCEPT !.state = "reserved", !.of = h]
<1>1. /\ OrderKept(t) /\ t \in TablesType /\ t.hold = hold /\ t.call = call
      /\ Sound(t, {}, 0, 0) /\ RowsKept(t)
  BY OrderIs, SoundIs
<1>2. call[n] = NoCall /\ \A c \in Call : c < n => call[c].state # "none"
  BY NextCallIs
<1>3. /\ hold[h].state = "held" /\ hold[h].lease = "live" /\ n \in Call
      /\ CallMax <= hold[h].amount - SpentOn(t, h)
  BY DEF Working, RoomFor
<1> HIDE DEF n
<1>4. /\ new.state = "reserved" /\ new.of = h /\ new.actual = 0 /\ ~ new.writtenOff
  BY DEF NoCall
<1>5. f \in [Call -> CallRow] /\ f[n] = new /\ \A c \in Call \ {n} : f[c] = t.call[c]
  <2>1. f \in [Call -> CallRow] /\ t.call \in [Call -> CallRow]
    BY <1>1, <1>3, NewCallIs, TablesAre
  <2> QED BY <1>3, <2>1 DEF NewCalls
<1> HIDE DEF f, new, t
<1>6. /\ u \in TablesType /\ u.hold = t.hold /\ u.call = f /\ u.asks = t.asks
      /\ u.envelope = t.envelope
  BY <1>1, <1>5, WithCallsIs DEF WithCalls
<1> HIDE DEF u
<1>7. ~ MovedIn(t, h) /\ ~ Counted(t, h)
  <2>1. ~ t.hold[h].ended
    BY <1>1, <1>3 DEF RowsKept, RowPaid
  <2>2. \A i \in DOMAIN t.asks : t.asks[i].of # h
    BY <1>1, <1>3 DEF OrderKept, AsksAreOver
  <2> QED BY <2>1, <2>2 DEF MovedIn, Counted, ToppedUp, ToppedUpHeld
<1>8. \A g \in Hold : MovedIn(u, g) = MovedIn(t, g) /\ Counted(u, g) = Counted(t, g)
  BY <1>6 DEF MovedIn, ToppedUpHeld, Counted, ToppedUp
<1>9. \A c \in Call : t.call[c].of \in Hold
  BY <1>1, ChargesAre DEF CallRow
<1>10. t.call[n].state = "none"
  BY <1>1, <1>2 DEF NoCall
<1>11. \A c \in Call : ChargeOf(u, c, {}) = ChargeOf(t, c, {}) /\ NetCharge(u, c, {}) = NetCharge(t, c, {})
  <2> SUFFICES ASSUME NEW c \in Call
               PROVE  ChargeOf(u, c, {}) = ChargeOf(t, c, {}) /\ NetCharge(u, c, {}) = NetCharge(t, c, {})
    OBVIOUS
  <2>1. CASE c = n
    <3>1. ChargeOf(t, c, {}) = 0 /\ ChargeOf(u, c, {}) = 0
      BY <1>4, <1>5, <1>6, <1>7, <1>8, <1>10, <2>1 DEF ChargeOf
    <3> QED BY <3>1 DEF NetCharge
  <2>2. CASE c # n
    <3>1. u.call[c] = t.call[c]
      BY <1>5, <1>6, <2>2
    <3>2. ChargeOf(u, c, {}) = ChargeOf(t, c, {})
      BY <1>8, <1>9, <3>1 DEF ChargeOf
    <3> QED BY <1>6, <3>1, <3>2 DEF NetCharge
  <2> QED BY <2>1, <2>2
<1>12. ChargeSum(u, {}) = ChargeSum(t, {})
  <2> DEFINE a == [c \in Call |-> ChargeOf(t, c, {})]
             b == [c \in Call |-> ChargeOf(u, c, {})]
  <2>1. \A c \in Call : b[c] = a[c]
    BY <1>11
  <2> HIDE DEF a, b
  <2>2. SumFunctionOnSet(b, Call) = SumFunctionOnSet(a, Call)
    BY <2>1, RowsAreFinite, SumSame
  <2> QED BY <2>2 DEF ChargeSum, a, b
<1>13. NetChargeSum(u, {}) = NetChargeSum(t, {})
  <2> DEFINE a == [c \in Call |-> NetCharge(t, c, {})]
             b == [c \in Call |-> NetCharge(u, c, {})]
  <2>1. \A c \in Call : b[c] = a[c]
    BY <1>11
  <2> HIDE DEF a, b
  <2>2. SumFunctionOnSet(b, Call) = SumFunctionOnSet(a, Call)
    BY <2>1, RowsAreFinite, SumSame
  <2> QED BY <2>2 DEF NetChargeSum, a, b
<1>14. HeldSum(u) = HeldSum(t) /\ ActualSum(u) = ActualSum(t) /\ NetSum(u) = NetSum(t)
       /\ TopUpsOf(u) = TopUpsOf(t)
  BY <1>6 DEF HeldSum, ActualSum, NetSum, TopUpsOf
<1>15. RowsKept(u)
  <2>1. \A g \in Hold : RowPaid(u.hold[g])
    BY <1>1, <1>6 DEF RowsKept
  <2>2. ASSUME NEW c \in Call PROVE CallKept(u, c)
    <3>1. CASE c = n
      <4>1. u.call[c] = new
        BY <1>5, <1>6, <3>1
      <4>2. u.hold[h].lease # "none"
        BY <1>1, <1>3, <1>6
      <4> QED BY <1>4, <1>7, <1>8, <4>1, <4>2 DEF CallKept
    <3>2. CASE c # n
      <4>1. u.call[c] = t.call[c] /\ CallKept(t, c) /\ t.call[c].of \in Hold
        BY <1>1, <1>5, <1>6, <1>9, <3>2 DEF RowsKept
      <4>2. WrittenOff(u) <=> WrittenOff(t)
        BY <1>6 DEF WrittenOff
      <4> QED BY <1>6, <1>8, <4>1, <4>2 DEF CallKept
    <3> QED BY <3>1, <3>2
  <2>3. CallsInOrder(u)
    <3> SUFFICES ASSUME NEW c \in Call, NEW d \in Call, c < d, u.call[d].state # "none"
                 PROVE  u.call[c].state # "none"
      BY DEF CallsInOrder
    <3>1. CASE c = n
      BY <1>4, <1>5, <1>6, <3>1
    <3>2. CASE c # n /\ d = n
      BY <1>1, <1>2, <1>5, <1>6, <3>2
    <3>3. CASE c # n /\ d # n
      BY <1>1, <1>5, <1>6, <3>3 DEF RowsKept, CallsInOrder
    <3> QED BY <3>1, <3>2, <3>3
  <2>4. StoppedOnce(u)
    BY <1>1, <1>6 DEF RowsKept, StoppedOnce
  <2>5. Covers(u)
    <3> SUFFICES ASSUME NEW g \in HeldIn(u) PROVE MovedIn(u, g) \/ SpentOn(u, g) <= u.hold[g].amount
      BY DEF Covers
    <3>1. g \in HeldIn(t) /\ g \in Hold /\ u.hold[g] = t.hold[g]
      BY <1>6 DEF HeldIn
    <3> DEFINE a == [c \in Call |-> CallSpend(t.call[c])]
               b == [c \in Call |-> CallSpend(u.call[c])]
               H == CallsOn(t, g)
    <3>2. n \notin H /\ IsFiniteSet(H) /\ H \in SUBSET Call /\ SpentOn(t, g) \in Nat
      BY <1>1, <1>10, <3>1, CallsCostNat DEF CallsOn
    <3>3. CallMax \in Nat /\ \A c \in Call : /\ CallSpend(t.call[c]) \in 0 .. CallMax
                                             /\ CallSpend(u.call[c]) \in 0 .. CallMax
      BY <1>1, <1>6, ChargesAre, SomePrices
    <3>4. \A c \in H : b[c] = a[c]
      BY <1>5, <1>6, <3>2
    <3>5. \A c \in Call : b[c] \in Int
      BY <3>3
    <3>6. SpentOn(t, g) = SumFunctionOnSet(a, H) /\ SpentOn(u, g) = SumFunctionOnSet(b, CallsOn(u, g))
      BY DEF SpentOn
    <3>7. CASE g # h
      <4>1. CallsOn(u, g) = H
        BY <1>4, <1>5, <1>6, <1>10, <3>7 DEF CallsOn
      <4> HIDE DEF a, b, H
      <4>2. SumFunctionOnSet(b, H) = SumFunctionOnSet(a, H)
        BY <3>2, <3>4, SumSame
      <4> QED BY <1>1, <1>8, <3>1, <3>6, <4>1, <4>2 DEF RowsKept, Covers
    <3>8. CASE g = h
      <4>1. CallsOn(u, g) = H \cup {n}
        BY <1>3, <1>4, <1>5, <1>6, <1>10, <3>8 DEF CallsOn
      <4>2. b[n] = CallMax
        BY <1>3, <1>4, <1>5, <1>6 DEF CallSpend, Open
      <4> HIDE DEF a, b, H
      <4>3. SumFunctionOnSet(b, H \cup {n}) = SumFunctionOnSet(b, H) + b[n]
        BY <1>3, <3>2, <3>5, SumWith
      <4>4. SumFunctionOnSet(b, H) = SumFunctionOnSet(a, H)
        BY <3>2, <3>4, SumSame
      <4>5. SpentOn(u, g) = SpentOn(t, g) + CallMax
        BY <3>6, <4>1, <4>2, <4>3, <4>4
      <4>6. t.hold[g].amount \in Int /\ CallMax <= t.hold[g].amount - SpentOn(t, g)
        BY <1>1, <1>3, <3>8, AmountsAre
      <4>7. SpentOn(u, g) <= t.hold[g].amount
        BY <3>2, <3>3, <4>5, <4>6
      <4> QED BY <3>1, <4>7
    <3> QED BY <3>7, <3>8
  <2> QED BY <2>1, <2>2, <2>3, <2>4, <2>5 DEF RowsKept
<1>16. Balanced(u, {})
  BY <1>1, <1>6, <1>12, <1>14 DEF Sound, MoneyKept, Balanced
<1>17. Spare(u, {}) = Spare(t, {})
  BY <1>13, <1>14 DEF Spare
<1> QED BY <1>1, <1>6, <1>15, <1>16, <1>17 DEF Sound, MoneyKept, CeilingsKept, Committed, u, f, t, n

\* A call reserved, refused, or stopped at the budget.
LEMMA ReserveCallMoney ==
    ASSUME OrderInv, MoneyInv, CeilingInv, NEW h \in Hold, ReserveCall(h)
    PROVE  MoneyInv' /\ CeilingInv'
<1> DEFINE t == Tables
           n == NextCall
           fresh == [t EXCEPT !.call[n] = [NoCall EXCEPT !.state = "reserved", !.of = h]]
<1>1. OrderKept(t) /\ t \in TablesType /\ t.hold = hold /\ Sound(t, {}, 0, 0)
  BY OrderIs, SoundIs
<1>2. /\ hold[h].lease = "live" /\ Working(h)
      /\ \/ Alter(Retired(t, h, "final"))
         \/ Alter(AtBudget(t, h))
         \/ n \in Call /\ RoomFor(h) /\ Alter(fresh)
  BY DEF ReserveCall, Working
<1>3. CASE Alter(Retired(t, h, "final"))
  <2>1. Sound(Retired(t, h, "final"), {}, 0, 0)
    BY <1>1, RetiredSound
  <2> QED BY <1>3, <2>1, AlterKeepsMoney
<1>4. CASE Alter(AtBudget(t, h))
  <2>1. \A i \in DOMAIN t.asks : t.asks[i].of # h
    BY <1>1, <1>2 DEF OrderKept, AsksAreOver
  <2> HIDE DEF t
  <2>2. Sound(AtBudget(t, h), {}, 0, 0)
    BY <1>1, <2>1, AtBudgetSound
  <2> QED BY <1>4, <2>2, AlterKeepsMoney
<1>5. CASE n \in Call /\ RoomFor(h) /\ Alter(fresh)
  <2>1. Sound(WithCalls(t, NewCalls(t, n, h)), {}, 0, 0)
    BY <1>2, <1>5, NewCallSound
  <2> HIDE DEF t, n
  <2>2. fresh = WithCalls(t, NewCalls(t, n, h))
    BY <1>1, <1>5, NewCallIs
  <2>3. Sound(fresh, {}, 0, 0)
    BY <2>1, <2>2
  <2> HIDE DEF fresh
  <2> QED BY <1>5, <2>3, AlterKeepsMoney
<1> QED BY <1>2, <1>3, <1>4, <1>5

\* Calls that stay open stay at their maximum.
LEMMA OpenCallsSound ==
    ASSUME NEW t, NEW n \in Int, NEW k \in Int, Sound(t, {}, n, k), NEW f \in [Call -> CallRow],
           StayOpen(t, f)
    PROVE  Sound(WithCalls(t, f), {}, n, k)
<1> DEFINE v == WithCalls(t, f)
<1>1. t \in TablesType /\ RowsKept(t)
  BY DEF Sound, MoneyKept
<1>2. v.hold = t.hold /\ v.call = f /\ v.asks = t.asks /\ v.envelope = t.envelope
  BY DEF WithCalls
<1> HIDE DEF v
<1>3. ASSUME NEW c \in Call
      PROVE  /\ f[c].of = t.call[c].of /\ (f[c].state = "none" <=> t.call[c].state = "none")
             /\ CallSpend(f[c]) = CallSpend(t.call[c]) /\ Carried(f[c]) = Carried(t.call[c])
  <2>1. CASE f[c] = t.call[c]
    BY <2>1
  <2>2. CASE StillOpen(t.call[c], f[c])
    <3>1. CallSpend(f[c]) = CallMax /\ CallSpend(t.call[c]) = CallMax
      BY <2>2 DEF StillOpen, CallSpend, Open, Sent
    <3> QED BY <2>2, <3>1 DEF StillOpen, Carried, Open, Sent
  <2> QED BY <2>1, <2>2 DEF StayOpen
<1>4. CallsGoOn(t, f)
  <2> SUFFICES ASSUME NEW c \in Call PROVE CallGoesOn(t, t.call[c], f[c])
    BY DEF CallsGoOn
  <2>1. CallKept(t, c) /\ CallSpend(t.call[c]) \in 0 .. CallMax /\ CallMax \in Nat
    BY <1>1, ChargesAre, SomePrices DEF RowsKept
  <2>2. CallSpend(f[c]) <= CallSpend(t.call[c])
    BY <1>3, <2>1
  <2>3. CASE f[c] = t.call[c]
    BY <2>1, <2>2, <2>3 DEF CallGoesOn, CallKept
  <2>4. CASE StillOpen(t.call[c], f[c])
    BY <1>3, <2>1, <2>2, <2>4 DEF CallGoesOn, CallKept, StillOpen, Open, Sent
  <2> QED BY <2>3, <2>4 DEF StayOpen
<1>5. ChargesStay(t, f, {}, {})
  <2>1. \A g : MovedIn(v, g) <=> MovedIn(t, g)
    BY <1>2 DEF MovedIn, ToppedUpHeld
  <2>2. \A c \in Call : ChargeOf(v, c, {}) = ChargeOf(t, c, {})
    BY <1>2, <1>3, <2>1 DEF ChargeOf
  <2> QED BY <2>2 DEF ChargesStay, v
<1> QED BY <1>4, <1>5, CallsSound

\* A call started, or refused with its work.
LEMMA StartMoney ==
    ASSUME OrderInv, MoneyInv, CeilingInv, NEW c \in Call, Start(c)
    PROVE  MoneyInv' /\ CeilingInv'
<1> DEFINE t == Tables
           h == call[c].of
           released == GivenBack(CallsMoved(t, {c}, "released"), c)
           sent == CallsMoved(t, {c}, "dispatched")
           f == MovedCalls(t, {c}, "dispatched")
<1>1. t \in TablesType /\ t.call = call /\ Sound(t, {}, 0, 0)
  BY OrderIs, SoundIs
<1>2. h \in Hold
  BY <1>1, GivenBackIs
<1>3. /\ call[c].state = "reserved"
      /\ Alter(sent) \/ Alter(Retired(released, h, "final")) \/ Alter(released)
  BY DEF Start
<1> HIDE DEF t, h
<1>4. t.call[c].state \in Open
  BY <1>1, <1>3 DEF Open
<1>5. Sound(released, {}, 0, 0)
  BY <1>1, <1>4, OneReleasedSound
<1>6. Sound(sent, {}, 0, 0)
  <2>1. sent = WithCalls(t, f) /\ f \in [Call -> CallRow] /\ t.call[c] \in CallRow
    BY <1>1, CallsMovedIs, ChargesAre
  <2>2. StayOpen(t, f)
    <3>1. f[c] = [t.call[c] EXCEPT !.state = "dispatched"]
      BY DEF MovedCalls
    <3>2. StillOpen(t.call[c], f[c])
      BY <1>4, <2>1, <3>1 DEF StillOpen, CallRow, Open, Sent
    <3>3. \A d \in Call \ {c} : f[d] = t.call[d]
      BY DEF MovedCalls
    <3> QED BY <3>2, <3>3 DEF StayOpen
  <2> HIDE DEF f, sent
  <2> QED BY <1>1, <2>1, <2>2, OpenCallsSound
<1> HIDE DEF released, sent
<1>7. CASE Alter(sent)
  BY <1>6, <1>7, AlterKeepsMoney
<1>8. CASE Alter(Retired(released, h, "final"))
  <2>1. Sound(Retired(released, h, "final"), {}, 0, 0)
    BY <1>2, <1>5, RetiredSound
  <2> QED BY <1>8, <2>1, AlterKeepsMoney
<1>9. CASE Alter(released)
  BY <1>5, <1>9, AlterKeepsMoney
<1> QED BY <1>3, <1>7, <1>8, <1>9

\* A call settled at its cost, the rest of its maximum given back.
LEMMA PriceMoney ==
    ASSUME OrderInv, MoneyInv, CeilingInv, NEW c \in Call, NEW cost \in Costs, Price(c, cost)
    PROVE  MoneyInv' /\ CeilingInv'
<1> DEFINE t == Tables
           f == PricedCalls(t, c, cost)
           p == WithCalls(t, f)
<1>1. t \in TablesType /\ t.call = call /\ Sound(t, {}, 0, 0) /\ RowsKept(t) /\ cost \in 0 .. CallMax
      /\ CallMax \in Nat
  BY OrderIs, SoundIs, SomePrices
<1>2. call[c].state \in Sent
      /\ Alter(GivenBack([t EXCEPT !.call[c].state = "settled", !.call[c].actual = cost], c))
  BY DEF Price
<1> HIDE DEF t
<1>3. f \in [Call -> CallRow] /\ Alter(GivenBack(p, c))
  BY <1>1, <1>2, PricedIs
<1>4. /\ \A d \in Call \ {c} : f[d] = t.call[d]
      /\ f[c].state = "settled" /\ f[c].actual = cost /\ f[c].of = t.call[c].of
      /\ f[c].writtenOff = t.call[c].writtenOff /\ t.call[c].state \in Open
  <2>1. t.call \in [Call -> CallRow] /\ t.call[c] \in CallRow
    BY <1>1, TablesAre
  <2>2. f[c] = [t.call[c] EXCEPT !.state = "settled", !.actual = cost]
    BY <2>1 DEF PricedCalls
  <2>3. \A d \in Call \ {c} : f[d] = t.call[d]
    BY <2>1 DEF PricedCalls
  <2> HIDE DEF f
  <2> QED BY <1>1, <1>2, <2>1, <2>2, <2>3 DEF CallRow, Open
<1> HIDE DEF f
<1>5. CallSpend(t.call[c]) = CallMax /\ CallSpend(f[c]) = cost /\ Carried(t.call[c]) = CallMax
  BY <1>4 DEF CallSpend, Carried, Open, Sent
<1>6. CallsGoOn(t, f)
  <2> SUFFICES ASSUME NEW d \in Call PROVE CallGoesOn(t, t.call[d], f[d])
    BY DEF CallsGoOn
  <2>1. CallKept(t, d) /\ CallSpend(t.call[d]) \in 0 .. CallMax
    BY <1>1, ChargesAre DEF RowsKept
  <2>2. CASE d # c
    BY <1>1, <1>4, <2>1, <2>2 DEF CallGoesOn, CallKept
  <2>3. CASE d = c
    BY <1>1, <1>4, <1>5, <2>3 DEF CallGoesOn, Open, Sent
  <2> QED BY <2>2, <2>3
<1>7. p.call = f /\ p.hold = t.hold /\ p.asks = t.asks
  BY DEF WithCalls
<1>8. \A g : (MovedIn(p, g) <=> MovedIn(t, g)) /\ (Counted(p, g) <=> Counted(t, g))
  BY <1>7 DEF MovedIn, ToppedUpHeld, Counted, ToppedUp
<1>9. ChargesStay(t, f, {}, {c})
  <2> HIDE DEF p
  <2> SUFFICES ASSUME NEW d \in Call PROVE ChargeOf(p, d, {c}) = ChargeOf(t, d, {})
    BY DEF ChargesStay, p
  <2>1. CASE d # c
    BY <1>4, <1>7, <1>8, <2>1 DEF ChargeOf
  <2>2. CASE d = c
    BY <1>4, <1>5, <1>7, <1>8, <2>2 DEF ChargeOf, Open, Sent
  <2> QED BY <2>1, <2>2
<1>10. Sound(p, {c}, 0, 0)
  BY <1>1, <1>3, <1>6, <1>9, CallsSound
<1>11. GivesBack(p, c) => MovedIn(p, p.call[c].of)
  <2>1. CallKept(t, c)
    BY <1>1 DEF RowsKept
  <2> QED BY <1>4, <1>7, <1>8, <2>1 DEF GivesBack, CallKept
<1> HIDE DEF p
<1>12. Sound(GivenBack(p, c), {c} \ {c}, 0, 0)
  BY <1>10, <1>11, GivenBackSound
<1>13. Sound(GivenBack(p, c), {}, 0, 0)
  <2>1. {c} \ {c} = {}
    OBVIOUS
  <2> QED BY <1>12, <2>1
<1> QED BY <1>3, <1>13, AlterKeepsMoney

\* Work that ends with its call keeps the money.
LEMMA StoppedSound ==
    ASSUME NEW t, NEW n \in Int, NEW k \in Int, Sound(t, {}, n, k), NEW h \in Hold
    PROVE  Sound(Stopped(t, h), {}, n, k)
  BY RetiredSound DEF Stopped

\* A call proved not to have happened.
LEMMA AnswerNothingMoney ==
    ASSUME OrderInv, MoneyInv, CeilingInv, NEW c \in Call, AnswerNothing(c)
    PROVE  MoneyInv' /\ CeilingInv'
<1> DEFINE t == Tables
           h == call[c].of
           released == GivenBack(CallsMoved(t, {c}, "released"), c)
<1>1. t \in TablesType /\ t.call = call /\ Sound(t, {}, 0, 0)
  BY OrderIs, SoundIs
<1>2. h \in Hold
  BY <1>1, GivenBackIs
<1>3. call[c].state \in Open /\ Alter(Stopped(released, h))
  BY DEF AnswerNothing, Open
<1> HIDE DEF t, h
<1>4. Sound(released, {}, 0, 0)
  BY <1>1, <1>3, OneReleasedSound
<1> HIDE DEF released
<1>5. Sound(Stopped(released, h), {}, 0, 0)
  BY <1>2, <1>4, StoppedSound
<1> QED BY <1>3, <1>5, AlterKeepsMoney

\* An unknown call proved absent.
LEMMA ProveCallMoney ==
    ASSUME OrderInv, MoneyInv, CeilingInv, NEW c \in Call, ProveCall(c)
    PROVE  MoneyInv' /\ CeilingInv'
<1> DEFINE t == Tables
           released == GivenBack(CallsMoved(t, {c}, "released"), c)
<1>1. t.call = call /\ Sound(t, {}, 0, 0)
  BY OrderIs, SoundIs
<1>2. call[c].state \in Open /\ Alter(released)
  BY DEF ProveCall, Open, Sent
<1> HIDE DEF t
<1>3. Sound(released, {}, 0, 0)
  BY <1>1, <1>2, OneReleasedSound
<1> QED BY <1>2, <1>3, AlterKeepsMoney

\* A row marked once more.
LEMMA MarkedSound ==
    ASSUME NEW t, NEW n \in Int, NEW k \in Int, Sound(t, {}, n, k), NEW h \in Hold,
           NEW v \in BOOLEAN, t.hold[h].marked => v
    PROVE  Sound(With(t, h, [t.hold[h] EXCEPT !.marked = v], t.envelope), {}, n, k)
<1> DEFINE o == t.hold[h]
           r == [o EXCEPT !.marked = v]
<1>1. o \in LooseRow /\ r \in LooseRow
  BY MarkedIs, TablesAre DEF Sound
<1>2. SameMoney(o, r)
  <2>1. /\ r.state = o.state /\ r.amount = o.amount /\ r.actual = o.actual /\ r.ended = o.ended
        /\ r.lease = o.lease /\ r.step = o.step /\ r.absent = o.absent /\ r.word = o.word
        /\ r.marked = v
    BY <1>1 DEF LooseRow
  <2> HIDE DEF r, o
  <2>2. RowPaid(o) => RowPaid(r)
    <3>1. o.marked => r.marked
      BY <2>1 DEF o
    <3> QED BY <2>1, <3>1 DEF RowPaid
  <2> QED BY <2>1, <2>2 DEF SameMoney, Again
<1> HIDE DEF r
<1> QED BY <1>1, <1>2, SameMoneySound DEF r

\* A call with no answer keeps its maximum.
LEMMA AnswerUnknownMoney ==
    ASSUME OrderInv, MoneyInv, CeilingInv, NEW c \in Call, AnswerUnknown(c)
    PROVE  MoneyInv' /\ CeilingInv'
<1> DEFINE t == Tables
           h == call[c].of
           m == hold[h].step = "dispatched"
           u == Unanswered(t, c, h, m)
           f == UnansweredCalls(t, c)
           w == WithCalls(t, f)
<1>1. t \in TablesType /\ t.call = call /\ t.hold = hold /\ Sound(t, {}, 0, 0)
  BY OrderIs, SoundIs
<1>2. h \in Hold /\ m \in BOOLEAN
  BY <1>1, GivenBackIs
<1>3. call[c].state = "dispatched" /\ Alter(Stopped(u, h))
  BY DEF AnswerUnknown, Unanswered
<1> HIDE DEF t, h, m
<1>4. /\ u = With(w, h, [t.hold[h] EXCEPT !.marked = t.hold[h].marked \/ m], t.envelope)
      /\ f \in [Call -> CallRow]
      /\ t.hold[h].marked \in BOOLEAN
  BY <1>1, <1>2, UnansweredIs
<1>5. Sound(w, {}, 0, 0)
  <2>1. t.call \in [Call -> CallRow] /\ t.call[c] \in CallRow
    BY <1>1, TablesAre
  <2>2. f[c] = [t.call[c] EXCEPT !.state = "unknown", !.lost = TRUE]
        /\ \A d \in Call \ {c} : f[d] = t.call[d]
    BY <2>1 DEF UnansweredCalls
  <2> HIDE DEF f
  <2>3. StillOpen(t.call[c], f[c])
    BY <1>1, <1>3, <2>1, <2>2 DEF StillOpen, CallRow, Open, Sent
  <2>4. StayOpen(t, f)
    BY <2>2, <2>3 DEF StayOpen
  <2> QED BY <1>1, <1>4, <2>4, OpenCallsSound
<1>6. w.hold = t.hold /\ w.envelope = t.envelope
  BY DEF WithCalls
<1> HIDE DEF u, w
<1>7. Sound(u, {}, 0, 0)
  <2> DEFINE v == t.hold[h].marked \/ m
  <2>1. v \in BOOLEAN /\ (w.hold[h].marked => v)
    BY <1>2, <1>4, <1>6
  <2>2. u = With(w, h, [w.hold[h] EXCEPT !.marked = v], w.envelope)
    BY <1>4, <1>6
  <2> HIDE DEF v
  <2>3. Sound(With(w, h, [w.hold[h] EXCEPT !.marked = v], w.envelope), {}, 0, 0)
    BY <1>2, <1>5, <2>1, MarkedSound
  <2> QED BY <2>2, <2>3
<1>8. Sound(Stopped(u, h), {}, 0, 0)
  BY <1>2, <1>7, StoppedSound
<1> QED BY <1>3, <1>8, AlterKeepsMoney

\* The effect marked.
LEMMA DispatchMoney ==
    ASSUME OrderInv, MoneyInv, CeilingInv, NEW h \in Hold, Dispatch(h)
    PROVE  MoneyInv' /\ CeilingInv'
<1> DEFINE t == Tables
           u == [t EXCEPT !.hold[h].marked = TRUE]
<1>1. t \in TablesType /\ Sound(t, {}, 0, 0)
  BY OrderIs, SoundIs
<1>2. Alter(u)
  BY DEF Dispatch
<1> HIDE DEF t
<1>3. u = With(t, h, [t.hold[h] EXCEPT !.marked = TRUE], t.envelope)
  BY <1>1, MarkedIs
<1>4. Sound(u, {}, 0, 0)
  <2> DEFINE v == TRUE
  <2>1. v \in BOOLEAN /\ (t.hold[h].marked => v)
    OBVIOUS
  <2>2. u = With(t, h, [t.hold[h] EXCEPT !.marked = v], t.envelope)
    BY <1>3
  <2> HIDE DEF v
  <2>3. Sound(With(t, h, [t.hold[h] EXCEPT !.marked = v], t.envelope), {}, 0, 0)
    BY <1>1, <2>1, MarkedSound
  <2> QED BY <2>2, <2>3
<1> HIDE DEF u
<1> QED BY <1>2, <1>4, AlterKeepsMoney

\* A row observed, or not.
LEMMA ObservedSound ==
    ASSUME NEW t, NEW n \in Int, NEW k \in Int, Sound(t, {}, n, k), NEW h \in Hold,
           NEW v \in BOOLEAN
    PROVE  LET u == [t EXCEPT !.hold[h].observed = v] IN
           /\ Sound(u, {}, n, k) /\ u.call = t.call /\ u.asks = t.asks
           /\ u.hold[h].state = t.hold[h].state /\ u.hold[h].amount = t.hold[h].amount
           /\ u.hold[h].step = t.hold[h].step
<1> DEFINE o == t.hold[h]
           r == [o EXCEPT !.observed = v]
           u == With(t, h, r, t.envelope)
<1>1. o \in LooseRow /\ r \in LooseRow /\ [t EXCEPT !.hold[h].observed = v] = u
      /\ t \in TablesType /\ t.envelope \in EnvelopeType
  BY ObservedIs, TablesAre DEF Sound
<1>2. /\ r.state = o.state /\ r.amount = o.amount /\ r.actual = o.actual /\ r.ended = o.ended
      /\ r.lease = o.lease /\ r.step = o.step /\ r.absent = o.absent /\ r.word = o.word
      /\ r.marked = o.marked
  BY <1>1 DEF LooseRow
<1>3. SameMoney(o, r)
  <2> HIDE DEF r, o
  <2> QED BY <1>2 DEF SameMoney, Again, RowPaid
<1> HIDE DEF r
<1>4. u.hold[h] = r /\ u.call = t.call /\ u.asks = t.asks
  <2>1. u.hold[h] = r
    BY <1>1, WithIs
  <2> QED BY <2>1 DEF With
<1>5. Sound(u, {}, n, k)
  BY <1>1, <1>3, SameMoneySound
<1> HIDE DEF u
<1> QED BY <1>1, <1>2, <1>4, <1>5

\* A step left unknown.
LEMMA StepUnknownSound ==
    ASSUME NEW t, NEW n \in Int, NEW k \in Int, Sound(t, {}, n, k), NEW h \in Hold,
           t.hold[h].step # "written_off"
    PROVE  Sound([t EXCEPT !.hold[h].step = "unknown"], {}, n, k)
<1> DEFINE o == t.hold[h]
           r == [o EXCEPT !.step = "unknown"]
           u == With(t, h, r, t.envelope)
<1>1. o \in LooseRow /\ r \in LooseRow /\ [t EXCEPT !.hold[h].step = "unknown"] = u
  BY StepIs, TablesAre DEF Sound
<1>2. /\ r.state = o.state /\ r.amount = o.amount /\ r.actual = o.actual /\ r.ended = o.ended
      /\ r.lease = o.lease /\ r.step = "unknown" /\ r.absent = o.absent /\ r.word = o.word
      /\ r.marked = o.marked
  BY <1>1 DEF LooseRow
<1>3. SameMoney(o, r)
  <2>1. o.step # "written_off"
    OBVIOUS
  <2> HIDE DEF r, o
  <2> QED BY <1>2, <2>1 DEF SameMoney, Again, RowPaid
<1> HIDE DEF r
<1>4. Sound(u, {}, n, k)
  BY <1>1, <1>3, SameMoneySound
<1> HIDE DEF u
<1> QED BY <1>1, <1>4

\* The effect observed: the hold closed within its amount, or left to a person.
LEMMA ObserveMoney ==
    ASSUME OrderInv, MoneyInv, CeilingInv, NEW h \in Hold, NEW ending \in {"completed", "failed"},
           NEW cost \in StepCosts, Observe(h, ending, cost)
    PROVE  MoneyInv' /\ CeilingInv'
<1> DEFINE t == Tables
           v == t.hold[h].observed \/ ending = "completed"
           seen == [t EXCEPT !.hold[h].observed = v]
           spent == cost + CallsCost(t, h)
<1>1. t \in TablesType /\ t.hold = hold /\ Sound(t, {}, 0, 0)
  BY OrderIs, SoundIs
<1>2. t.hold \in [Hold -> LooseRow]
  BY <1>1, TablesAre
<1>3. v \in BOOLEAN
  BY <1>2 DEF LooseRow
<1>4. [t EXCEPT !.hold[h].observed = @ \/ ending = "completed"] = seen
  BY <1>1, <1>2 DEF TablesType
<1>5. /\ hold[h].state = "held" /\ hold[h].step = "dispatched"
      /\ \/ spent <= hold[h].amount /\ Alter(Closed(seen, h, spent, ending))
         \/ Alter([seen EXCEPT !.hold[h].step = "unknown"])
  BY <1>4 DEF Observe
<1>6. spent \in Nat /\ hold[h].amount \in Int
  <2>1. CallsCost(t, h) \in Nat /\ hold[h].amount \in Int
    BY <1>1, CallsCostNat, AmountsAre
  <2>2. cost \in Nat
    BY SomePrices
  <2> QED BY <2>1, <2>2
<1> HIDE DEF t, v
<1>7. /\ Sound(seen, {}, 0, 0) /\ seen.hold[h].state = "held"
      /\ seen.hold[h].amount = hold[h].amount /\ seen.hold[h].step = "dispatched"
  BY <1>1, <1>3, <1>5, ObservedSound
<1> HIDE DEF seen, spent
<1>8. CASE spent <= hold[h].amount /\ Alter(Closed(seen, h, spent, ending))
  <2>1. Sound(Closed(seen, h, spent, ending), {}, 0 + seen.hold[h].amount - spent, 0)
    BY <1>6, <1>7, <1>8, ClosedSound
  <2>2. 0 + seen.hold[h].amount - spent \in Int /\ 0 <= 0 + seen.hold[h].amount - spent
    BY <1>6, <1>7, <1>8
  <2>3. Sound(Closed(seen, h, spent, ending), {}, 0, 0)
    BY <2>1, <2>2, SpareLess
  <2> QED BY <1>8, <2>3, AlterKeepsMoney
<1>9. CASE Alter([seen EXCEPT !.hold[h].step = "unknown"])
  <2>1. Sound([seen EXCEPT !.hold[h].step = "unknown"], {}, 0, 0)
    BY <1>7, StepUnknownSound
  <2> QED BY <1>9, <2>1, AlterKeepsMoney
<1> QED BY <1>5, <1>8, <1>9

(***************************************************************************)
(* Steps beside a count.                                                   *)
(***************************************************************************)

\* A step beside a count leaves what it counted, and what its hold has.
LEMMA BesideKeepsMoney ==
    ASSUME OrderInv, MoneyInv, NEW t, Tables' = t, Sound(t, {}, 0, count.amount), count' = count,
           CallsBeside(t),
           count.kind # "none" => t.hold[count.of].amount = hold[count.of].amount
    PROVE  MoneyInv' /\ CeilingInv'
<1>1. MoneyKept(Tables, {})' /\ CeilingInv'
  BY DEF Sound, CeilingInv
<1>2. t \in TablesType /\ Tables \in TablesType /\ Tables.call = call
  BY OrderIs DEF Sound
<1>3. CASE count.kind = "none"
  BY <1>1, <1>3 DEF MoneyInv, CountHolds
<1>4. CASE count.kind # "none"
  <2> DEFINE h == count.of
  <2>1. /\ Unsent(Tables, h) \subseteq count.unsent
        /\ \A c \in count.unsent : call[c].of = h /\ call[c].state \in {"reserved", "released"}
        /\ count.spent = SumFunctionOnSet([c \in Call |-> CountedSpend(c)], CallsOn(Tables, h))
        /\ count.spent <= hold[h].amount
        /\ (count.kind = "top_up" <=> count.amount > 0)
    BY <1>4 DEF MoneyInv, CountHolds
  <2>2. count.unsent \subseteq Call
    BY <1>4, CountingIs DEF CountTyped
  <2>3. t.call = call' /\ t.hold = hold'
    BY DEF Tables
  <2>4. CallsOn(t, h) = CallsOn(Tables, h)
    BY <1>2 DEF CallsOn, CallsBeside, CallBeside
  <2>5. Unsent(t, h) \subseteq Unsent(Tables, h)
    BY <1>2, <2>4 DEF Unsent, CallsOn, CallsBeside, CallBeside
  <2>6. \A c \in count.unsent : t.call[c].of = h /\ t.call[c].state \in {"reserved", "released"}
    BY <2>1, <2>2 DEF CallsBeside, CallBeside
  <2>7. ASSUME NEW c \in CallsOn(Tables, h)
        PROVE  CountedSpend(c)' = CountedSpend(c)
    <3>1. CASE c \in count.unsent
      BY <3>1 DEF CountedSpend
    <3>2. CASE c \notin count.unsent
      <4>1. c \in Call /\ call[c].state # "reserved"
        BY <1>2, <2>1, <3>2 DEF Unsent, CallsOn
      <4>2. CallSpend(t.call[c]) = CallSpend(call[c])
        BY <4>1 DEF CallsBeside, CallBeside, CallSpend, Open, Sent
      <4> QED BY <2>3, <3>2, <4>2 DEF CountedSpend
    <3> QED BY <3>1, <3>2
  <2>8. SumFunctionOnSet([c \in Call |-> CountedSpend(c)'], CallsOn(t, h))
          = SumFunctionOnSet([c \in Call |-> CountedSpend(c)], CallsOn(Tables, h))
    <3> DEFINE f == [c \in Call |-> CountedSpend(c)]
               g == [c \in Call |-> CountedSpend(c)']
               H == CallsOn(Tables, h)
    <3>1. IsFiniteSet(H) /\ H \in SUBSET Call
      BY <1>2, <1>4, CountTells, CallsCostNat
    <3>2. \A c \in H : f[c] = g[c]
      BY <2>7, <3>1
    <3> HIDE DEF f, g, H
    <3> QED BY <2>4, <3>1, <3>2, SumSame DEF f, g, H
  <2>9. CountHolds'
    BY <1>4, <2>1, <2>3, <2>5, <2>6, <2>8 DEF CountHolds
  <2> QED BY <1>1, <2>9 DEF MoneyInv
<1> QED BY <1>3, <1>4

\* A lease that runs out, beside a count or not.
LEMMA LapseMoney ==
    ASSUME OrderInv, MoneyInv, CeilingInv, NEW h \in Hold, Lapse(h)
    PROVE  MoneyInv' /\ CeilingInv'
<1> DEFINE t == Tables
           o == t.hold[h]
           r == [o EXCEPT !.lease = "lapsed"]
           u == With(t, h, r, t.envelope)
<1>1. t \in TablesType /\ t.hold = hold /\ t.call = call /\ Sound(t, {}, 0, count.amount) /\ CountTyped
  BY OrderIs, SoundIs
<1>2. t.hold \in [Hold -> LooseRow] /\ o \in LooseRow
  BY <1>1, TablesAre
<1>3. /\ hold[h].lease = "live" /\ hold' = [hold EXCEPT ![h].lease = "lapsed"]
      /\ call' = call /\ asks' = asks /\ run' = run /\ envelope' = envelope
      /\ count' = count
  BY DEF Lapse
<1>4. Tables' = u
  BY <1>1, <1>2, <1>3 DEF Tables, With
<1>5. /\ r \in LooseRow /\ r.lease = "lapsed" /\ r.state = o.state /\ r.amount = o.amount
      /\ r.actual = o.actual /\ r.ended = o.ended /\ r.step = o.step /\ r.marked = o.marked
      /\ r.absent = o.absent /\ r.word = o.word
  BY <1>2 DEF LooseRow
<1> HIDE DEF r
<1>6. SameMoney(o, r)
  BY <1>5 DEF SameMoney, Again, RowPaid
<1>7. u.call = call /\ \A g \in Hold : u.hold[g].amount = hold[g].amount
  BY <1>1, <1>2, <1>5 DEF With
<1>8. count.amount \in Int /\ count.of \in Hold
  BY <1>1 DEF CountTyped
<1> HIDE DEF o
<1>9. Sound(u, {}, 0, count.amount)
  BY <1>1, <1>5, <1>6, <1>8, SameMoneySound DEF o
<1>10. CallsBeside(u)
  BY <1>7 DEF CallsBeside, CallBeside
<1> HIDE DEF u
<1> QED BY <1>3, <1>4, <1>7, <1>8, <1>9, <1>10, BesideKeepsMoney

\* The sweep of one call with no answer.
LEMMA SweepUnansweredMoney ==
    ASSUME OrderInv, MoneyInv, CeilingInv, NEW c \in Call, SweepUnanswered(c)
    PROVE  MoneyInv' /\ CeilingInv'
<1> DEFINE t == Tables
           k == UnansweredCalls(t, c)
           u == WithCalls(t, k)
<1>1. t \in TablesType /\ t.hold = hold /\ t.call = call /\ Sound(t, {}, 0, count.amount) /\ CountTyped
  BY OrderIs, SoundIs
<1>2. t.call \in [Call -> CallRow] /\ t.call[c] \in CallRow
  BY <1>1, TablesAre
<1>3. /\ call[c].state = "dispatched"
      /\ call' = [call EXCEPT ![c].state = "unknown", ![c].lost = TRUE]
      /\ hold' = hold /\ asks' = asks /\ run' = run /\ envelope' = envelope
      /\ count' = count
  BY DEF SweepUnanswered
<1>4. call' = k
  BY <1>1, <1>2, <1>3 DEF UnansweredCalls
<1>5. /\ k[c] = [t.call[c] EXCEPT !.state = "unknown", !.lost = TRUE]
      /\ \A d \in Call \ {c} : k[d] = t.call[d]
      /\ k \in [Call -> CallRow]
  <2>1. [t.call[c] EXCEPT !.state = "unknown", !.lost = TRUE] \in CallRow
    BY <1>2 DEF CallRow
  <2> QED BY <1>2, <2>1 DEF UnansweredCalls
<1>6. Tables' = u
  BY <1>1, <1>3, <1>4 DEF Tables, WithCalls
<1> HIDE DEF k
<1>7. StayOpen(t, k)
  <2>1. StillOpen(t.call[c], k[c])
    BY <1>1, <1>2, <1>3, <1>5 DEF StillOpen, CallRow, Open, Sent
  <2> QED BY <1>5, <2>1 DEF StayOpen
<1>8. u.hold = hold /\ u.call = k
  BY <1>1 DEF WithCalls
<1>9. CallsBeside(u)
  <2>1. k[c].of = call[c].of /\ k[c].state = "unknown"
    BY <1>1, <1>2, <1>5 DEF CallRow
  <2> QED BY <1>1, <1>3, <1>5, <1>8, <2>1 DEF CallsBeside, CallBeside
<1>10. count.amount \in Int
  BY <1>1 DEF CountTyped
<1>11. Sound(u, {}, 0, count.amount)
  BY <1>1, <1>5, <1>7, <1>10, OpenCallsSound
<1> HIDE DEF u
<1> QED BY <1>3, <1>6, <1>8, <1>9, <1>11, BesideKeepsMoney

\* The sweep's own steps write no table.
LEMMA UntouchedMoney ==
    ASSUME MoneyInv, CeilingInv, UNCHANGED <<hold, call, asks, run, envelope, count>>
    PROVE  MoneyInv' /\ CeilingInv'
<1>1. Tables' = Tables
  BY DEF Tables
<1>2. MoneyKept(Tables, {})' /\ CeilingInv'
  BY <1>1 DEF MoneyInv, CeilingInv
<1>3. CountHolds'
  <2>1. \A c : CountedSpend(c)' = CountedSpend(c)
    BY DEF CountedSpend
  <2>2. [c \in Call |-> CountedSpend(c)'] = [c \in Call |-> CountedSpend(c)]
    BY <2>1
  <2> QED BY <1>1, <2>2 DEF MoneyInv, CountHolds
<1> QED BY <1>2, <1>3 DEF MoneyInv

\* Nothing given back leaves the tables.
LEMMA NoneGivenBack ==
    ASSUME NEW t \in TablesType
    PROVE  AllGivenBack(t, {}) = t
<1> DEFINE P == {<<{}, t>>}
<1>1. GivesOn({}, P)
  BY DEF GivesOn
<1>2. <<{}, AllGivenBack(t, {})>> \in P
  <2>1. {} \in SUBSET Call /\ <<{}, t>> \in P
    OBVIOUS
  <2> HIDE DEF P
  <2> QED BY <1>1, <2>1, GivenBackInTurn
<1> QED BY <1>2

\* The sweep releases unsent calls, beside a count only those it did not take.
LEMMA SweepReleasesMoney ==
    ASSUME OrderInv, MoneyInv, CeilingInv, SweepReleases
    PROVE  MoneyInv' /\ CeilingInv'
<1> DEFINE t == Tables
           C == SweptUnsent \cap (sweep.counted
                    \cup {c \in sweep.locked : ~ Counted(Tables, call[c].of)})
           E == C \cap sweep.counted
           m == CallsMoved(t, C, "released")
           u == AllGivenBack(m, E)
<1>1. /\ OrderKept(t) /\ t \in TablesType /\ t.hold = hold /\ t.call = call
      /\ Sound(t, {}, 0, count.amount) /\ CountTyped
  BY OrderIs, SoundIs
<1>2. Commit(u) /\ count' = count
  BY DEF SweepReleases, SweptReleased
<1>3. \A c \in C : c \in Call /\ t.call[c].state = "reserved"
  BY <1>1 DEF SweptUnsent
<1>4. Releases(t, C, E)
  <2>1. \A c \in C \ E : ~ MovedIn(t, t.call[c].of)
    BY <1>1 DEF MovedIn, Counted, ToppedUp, ToppedUpHeld
  <2> QED BY <1>3, <2>1 DEF Releases, Open
<1>5. count.amount \in Int
  BY <1>1 DEF CountTyped
<1>6. count.kind # "none" => E = {}
  BY DEF OrderInv, CountStands
<1> HIDE DEF C, E
<1>7. Sound(u, {}, 0, count.amount)
  BY <1>1, <1>4, <1>5, ReleasedBackSound
<1>8. Quiet(t, m) /\ m.hold = t.hold /\ m.call = MovedCalls(t, C, "released")
  BY <1>1, CallsMovedQuiet
<1> HIDE DEF m
<1>9. OrderKept(m)
  BY <1>1, <1>8, QuietKeeps
<1>10. u.call = m.call
  <2>1. E \in SUBSET Call
    BY <1>3 DEF E
  <2> QED BY <1>9, <2>1, AllGivenBackQuiet DEF OnlyAmounts
<1>11. count.kind # "none" => u.hold = hold
  BY <1>1, <1>6, <1>8, <1>9, NoneGivenBack DEF OrderKept
<1> HIDE DEF u
<1>12. CallsBeside(u)
  <2> SUFFICES ASSUME NEW c \in Call PROVE CallBeside(call[c], u.call[c])
    BY DEF CallsBeside
  <2>1. t.call[c] \in CallRow
    BY <1>1, ChargesAre
  <2>2. u.call[c] = IF c \in C THEN [t.call[c] EXCEPT !.state = "released"] ELSE t.call[c]
    BY <1>8, <1>10 DEF MovedCalls
  <2>3. CASE c \in C
    BY <1>1, <1>3, <2>1, <2>2, <2>3 DEF CallBeside, CallRow
  <2>4. CASE c \notin C
    BY <1>1, <2>2, <2>4 DEF CallBeside
  <2> QED BY <2>3, <2>4
<1>13. Tables' = u
  BY <1>2, <1>7, CommitIs DEF Sound
<1> QED BY <1>2, <1>7, <1>11, <1>12, <1>13, BesideKeepsMoney

\* The passes' classifier, of an ended lease's hold.
LEMMA ReplayMoney ==
    ASSUME OrderInv, MoneyInv, CeilingInv, NEW h \in Hold, Replay(h)
    PROVE  MoneyInv' /\ CeilingInv'
<1>1. Sound(Tables, {}, 0, 0) /\ Alter(Classified(Tables, h))
  BY SoundIs DEF Replay
<1>2. Sound(Classified(Tables, h), {}, 0, 0)
  BY <1>1, ClassifiedSound
<1> QED BY <1>1, <1>2, AlterKeepsMoney

\* An effect proved absent keeps its hold beside the step's next.
LEMMA ProveAbsentMoney ==
    ASSUME OrderInv, MoneyInv, CeilingInv, NEW h \in Hold, ProveAbsent(h)
    PROVE  MoneyInv' /\ CeilingInv'
<1> DEFINE t == Tables
           u == Resumed(t, h, Left(t, h), TRUE)
<1>1. OrderKept(t) /\ t.hold = hold /\ Sound(t, {}, 0, 0)
  BY OrderIs, SoundIs
<1>2. /\ hold[h].state = "held" /\ hold[h].lease = "over" /\ hold[h].marked /\ ~ hold[h].absent
      /\ Alter(u)
  BY DEF ProveAbsent, Reconcilable
<1> HIDE DEF t
<1>3. Sound(u, {}, 0, 0)
  BY <1>1, <1>2, ResumedBesideSound
<1> HIDE DEF u
<1> QED BY <1>2, <1>3, AlterKeepsMoney

\* An effect proved present closes its hold within its amount.
LEMMA ProvePresentMoney ==
    ASSUME OrderInv, MoneyInv, CeilingInv, NEW h \in Hold, NEW cost \in StepCosts, ProvePresent(h, cost)
    PROVE  MoneyInv' /\ CeilingInv'
<1> DEFINE t == Tables
           v == TRUE
           seen == [t EXCEPT !.hold[h].observed = v]
           spent == cost + CallsCost(t, h)
<1>1. t \in TablesType /\ t.hold = hold /\ Sound(t, {}, 0, 0)
  BY OrderIs, SoundIs
<1>2. /\ hold[h].state = "held" /\ spent <= hold[h].amount
      /\ Alter(Closed(seen, h, spent, "completed"))
  BY DEF ProvePresent, Reconcilable
<1>3. spent \in Nat /\ hold[h].amount \in Int
  <2>1. CallsCost(t, h) \in Nat /\ hold[h].amount \in Int
    BY <1>1, CallsCostNat, AmountsAre
  <2>2. cost \in Nat
    BY SomePrices
  <2> QED BY <2>1, <2>2
<1>4. v \in BOOLEAN
  OBVIOUS
<1> HIDE DEF t, v
<1>5. Sound(seen, {}, 0, 0) /\ seen.hold[h].state = "held" /\ seen.hold[h].amount = hold[h].amount
  BY <1>1, <1>2, <1>4, ObservedSound
<1> HIDE DEF seen, spent
<1>6. Sound(Closed(seen, h, spent, "completed"), {}, 0 + seen.hold[h].amount - spent, 0)
  BY <1>2, <1>3, <1>5, ClosedSound
<1>7. 0 + seen.hold[h].amount - spent \in Int /\ 0 <= 0 + seen.hold[h].amount - spent
  BY <1>2, <1>3, <1>5
<1>8. Sound(Closed(seen, h, spent, "completed"), {}, 0, 0)
  BY <1>6, <1>7, SpareLess
<1> QED BY <1>2, <1>8, AlterKeepsMoney

\* A held hold whose run waits on it was moved by no count.
LEMMA StopIsNotMoved ==
    ASSUME OrderInv, MoneyInv, Answerable, hold[Stop].state = "held"
    PROVE  ~ MovedIn(Tables, Stop)
<1> DEFINE h == Stop
<1>1. /\ h \in Hold /\ asks # <<>> /\ asks[Len(asks)].answer = "open" /\ asks[Len(asks)].of = h
      /\ hold[h].state = "held"
  BY StopIs DEF Answerable, Stop
<1>2. Tables \in TablesType /\ Tables.hold = hold /\ Tables.asks = asks
  BY OrderIs
<1>3. RowPaid(hold[h]) /\ StoppedOnce(Tables)
  BY <1>1, <1>2 DEF MoneyInv, MoneyKept, RowsKept
<1> HIDE DEF h
<1>4. ~ hold[h].ended
  BY <1>1, <1>3 DEF RowPaid
<1>5. ASSUME NEW i \in DOMAIN asks, asks[i].of = h PROVE asks[i].answer = "open"
  <2>1. Len(asks) \in DOMAIN asks
    BY <1>1, <1>2, AsksAre
  <2>2. i = Len(asks)
    BY <1>1, <1>2, <1>3, <1>5, <2>1 DEF StoppedOnce
  <2> QED BY <1>1, <2>2
<1> QED BY <1>2, <1>4, <1>5 DEF MovedIn, ToppedUpHeld, h

\* A count records what the calls of a held hold come to, within what it has.
LEMMA CountingMoney ==
    ASSUME OrderInv, MoneyInv, CeilingInv, Answerable, hold[Stop].state = "held",
           NEW kind \in {"top_up", "end"}, NEW amount \in Nat, count' = Counting(kind, amount),
           kind = "top_up" <=> amount > 0, CapAllows(amount),
           UNCHANGED <<hold, call, asks, run, envelope>>
    PROVE  MoneyInv' /\ CeilingInv'
<1> DEFINE h == Stop
           H == CallsOn(Tables, h)
<1>1. /\ Tables \in TablesType /\ Tables.hold = hold /\ Tables.call = call
      /\ Tables.envelope = envelope /\ h \in Hold
  BY OrderIs, StopIs
<1>2. Tables' = Tables
  BY DEF Tables
<1>3. /\ count'.kind = kind /\ count'.of = h /\ count'.amount = amount
      /\ count'.spent = SpentOn(Tables, h) /\ count'.unsent = Unsent(Tables, h)
  BY DEF Counting
<1>4. Sound(Tables, {}, 0, 0) /\ RowsKept(Tables)
  BY SoundIs
<1>5. CeilingInv'
  <2>1. Committed(Tables) + amount <= Cap
    BY <1>1 DEF CapAllows, Committed
  <2> QED BY <1>2, <1>3, <1>4, <2>1 DEF Sound, CeilingsKept, CeilingInv
<1>6. MoneyKept(Tables, {})'
  BY <1>2 DEF MoneyInv
<1>7. SpentOn(Tables, h) <= hold[h].amount
  BY <1>1, <1>4, StopIsNotMoved DEF RowsKept, Covers, HeldIn
<1>8. SpentOn(Tables, h) = SumFunctionOnSet([c \in Call |-> CountedSpend(c)'], H)
  <2> DEFINE f == [c \in Call |-> CallSpend(Tables.call[c])]
             g == [c \in Call |-> CountedSpend(c)']
  <2>1. IsFiniteSet(H) /\ H \in SUBSET Call
    BY <1>1, CallsCostNat
  <2>2. ASSUME NEW c \in H PROVE f[c] = g[c]
    <3>1. c \in Call /\ call' = call
      BY <2>1
    <3>2. c \in Unsent(Tables, h) => CallSpend(call[c]) = CallMax
      BY <1>1 DEF Unsent, CallSpend, Open
    <3>3. CountedSpend(c)' = CallSpend(call[c])
      BY <1>3, <3>1, <3>2 DEF CountedSpend
    <3> QED BY <1>1, <3>1, <3>3
  <2>3. SpentOn(Tables, h) = SumFunctionOnSet(f, H)
    BY DEF SpentOn
  <2> HIDE DEF f, g, H
  <2>4. SumFunctionOnSet(f, H) = SumFunctionOnSet(g, H)
    BY <2>1, <2>2, SumSame
  <2> QED BY <2>3, <2>4 DEF g
<1>9. \A c \in Unsent(Tables, h) : call[c].of = h /\ call[c].state \in {"reserved", "released"}
  BY <1>1 DEF Unsent, CallsOn
<1>10. CountHolds'
  BY <1>2, <1>3, <1>7, <1>8, <1>9 DEF CountHolds
<1> QED BY <1>5, <1>6, <1>10 DEF MoneyInv

\* The count of a top-up, and of an end.
LEMMA CountForTopUpMoney ==
    ASSUME OrderInv, MoneyInv, CeilingInv, NEW amount \in TopUps, CountForTopUp(amount)
    PROVE  MoneyInv' /\ CeilingInv'
<1>1. amount \in Nat /\ amount > 0
  BY SomePrices
<1>2. ("top_up" = "top_up" <=> amount > 0) /\ "top_up" \in {"top_up", "end"}
  BY <1>1
<1> QED BY <1>1, <1>2, CountingMoney DEF CountForTopUp

\* The same count for the end.
LEMMA CountForEndMoney ==
    ASSUME OrderInv, MoneyInv, CeilingInv, CountForEnd
    PROVE  MoneyInv' /\ CeilingInv'
<1>1. CapAllows(0)
  <2>1. Committed(Tables) + 0 <= Cap /\ Tables.envelope = envelope
    BY SoundIs, OrderIs DEF Sound, CeilingsKept
  <2> QED BY <2>1 DEF CapAllows, Committed
<1>2. ("end" = "top_up" <=> 0 > 0) /\ "end" \in {"top_up", "end"} /\ 0 \in Nat
  OBVIOUS
<1> QED BY <1>1, <1>2, CountingMoney DEF CountForEnd

\* A lost worker: its hold closed at its calls' cost, and its step back on the rest.
LEMMA LoseWorkerMoney ==
    ASSUME OrderInv, MoneyInv, CeilingInv, NEW h \in Hold, LoseWorker(h)
    PROVE  MoneyInv' /\ CeilingInv'
<1> DEFINE t == Tables
           a == CallsLost(t, h)
           b == Retired(a, h, "open")
           u == Classified(b, h)
           v == "dropped"
           d == [u EXCEPT !.hold[h].step = v]
           left == Left(u, h)
<1>1. OrderKept(t) /\ t.hold = hold /\ Sound(t, {}, 0, 0)
  BY OrderIs, SoundIs
<1>2. /\ hold[h].lease = "lapsed" /\ hold[h].state = "held"
      /\ Alter(IF u.hold[h].step = "abandoned" THEN Resumed(d, h, left, FALSE) ELSE u)
  BY DEF LoseWorker
<1> HIDE DEF t
<1>3. /\ Quiet(t, a) /\ a.hold[h].lease = "lapsed" /\ OrderKept(a) /\ Sound(a, {}, 0, 0)
      /\ a.hold[h].state = "held"
  <2>1. Quiet(t, a) /\ a.hold[h].lease = t.hold[h].lease /\ a.hold[h].state = t.hold[h].state
    BY <1>1, <1>2, CallsLostTouches
  <2> QED BY <1>1, <1>2, <2>1, QuietKeeps, CallsLostSound
<1> HIDE DEF a
<1>4. b.hold[h].lease = "over" /\ OrderKept(b) /\ Sound(b, {}, 0, 0) /\ b.hold[h].state = "held"
  <2>1. Touches(a, b, h) /\ b.hold[h] = RetiredRow(a.hold[h], "open") /\ b.hold[h].lease = "over"
    BY <1>3, RetiredTouches
  <2>2. a.hold[h] \in LooseRow
    BY <1>3, TablesAre DEF OrderKept
  <2>3. b.hold[h].state = "held"
    BY <1>3, <2>1, <2>2 DEF RetiredRow, LooseRow
  <2> QED BY <1>3, <2>1, <2>3, QuietKeeps, RetiredSound DEF Touches
<1> HIDE DEF b
<1>5. OrderKept(u) /\ Sound(u, {}, 0, 0) /\ u.hold[h].lease = "over"
  <2>1. Touches(b, u, h) /\ u.hold[h].lease = "over"
    BY <1>4, ClassifiedTouches
  <2> QED BY <1>4, <2>1, QuietKeeps, ClassifiedSound DEF Touches
<1>6. CASE u.hold[h].step # "abandoned"
  <2> HIDE DEF u
  <2> QED BY <1>2, <1>5, <1>6, AlterKeepsMoney
<1>7. CASE u.hold[h].step = "abandoned"
  <2> DEFINE o == b.hold[h]
  <2>1. b \in TablesType /\ o \in LooseRow /\ RowsKept(b) /\ RowPaid(o)
    BY <1>4, TablesAre DEF Sound, MoneyKept, RowsKept
  <2>2. o.step \in {"reserved", "dispatched", "unknown"}
    BY <1>4, <2>1 DEF RowPaid
  <2>3. ~ KeepsHold(b, h)
    <3> SUFFICES ASSUME KeepsHold(b, h) PROVE FALSE
      OBVIOUS
    <3>1. u = With(b, h, UnknownRow(o), b.envelope) /\ UnknownRow(o) \in LooseRow
      BY <1>4, <2>1, ClassifiedIs
    <3>3. b.envelope \in EnvelopeType
      BY <2>1, TablesAre
    <3> HIDE DEF u, o
    <3>2. u.hold[h] = UnknownRow(o)
      BY <2>1, <3>1, <3>3, WithIs
    <3> QED BY <1>7, <2>1, <2>2, <3>2 DEF UnknownRow, LooseRow
  <2>4. CallsCost(b, h) \in Nat /\ CallsCost(b, h) <= o.amount
    BY <1>4, <2>1, CostIsCovered
  <2>5. Sound(u, {}, 0 + o.amount - CallsCost(b, h), 0)
    BY <1>4, <2>3, ClassifiedSound
  <2>6. /\ u.hold[h] = ClosedRow(o, CallsCost(b, h), "abandoned")
        /\ ClosedRow(o, CallsCost(b, h), "abandoned") \in LooseRow
    <3>1. u = Closed(b, h, CallsCost(b, h), "abandoned") /\ o.state # "none"
      BY <1>4, <2>1, <2>3, ClassifiedIs
    <3> HIDE DEF u
    <3> QED BY <1>4, <2>1, <2>4, <3>1, ClosedTouches, ClosedIs DEF Running
  <2>7. /\ u.hold[h].amount = o.amount /\ u.hold[h].actual = CallsCost(b, h)
        /\ u.hold[h].state \in {"actual", "abandoned"} /\ u.hold[h] \in LooseRow
    BY <2>1, <2>4, <2>6 DEF ClosedRow, LooseRow
  <2> HIDE DEF u
  <2>8. left = o.amount - CallsCost(b, h)
    BY <2>7 DEF Left
  <2>9. left \in Int /\ left >= 0 /\ Sound(u, {}, left, 0)
    <3>1. o.amount \in Int
      BY <2>1 DEF LooseRow
    <3>2. 0 + o.amount - CallsCost(b, h) = left
      BY <2>4, <2>8, <3>1
    <3>3. left \in Int /\ left >= 0
      BY <2>4, <2>8, <3>1
    <3> QED BY <2>5, <3>2, <3>3
  <2> HIDE DEF left
  <2>10. Sound(d, {}, left, 0) /\ d.hold[h].state # "held"
    <3> DEFINE p == u.hold[h]
               r == [p EXCEPT !.step = v]
    <3>1. v \in {"unknown", "dropped"}
      OBVIOUS
    <3> HIDE DEF v
    <3>2. /\ d = With(u, h, r, u.envelope) /\ r \in LooseRow /\ u \in TablesType
      BY <1>5, <3>1, StepIs DEF OrderKept
    <3>3. /\ r.state = p.state /\ r.amount = p.amount /\ r.actual = p.actual /\ r.ended = p.ended
          /\ r.lease = p.lease /\ r.absent = p.absent /\ r.word = p.word
          /\ r.marked = p.marked
      BY <2>7, <3>2 DEF LooseRow
    <3>4. p.step = "abandoned" /\ p.state \in {"actual", "abandoned"}
      BY <1>7, <2>7
    <3> HIDE DEF r, p
    <3>5. SameMoney(p, r)
      BY <3>3, <3>4 DEF SameMoney, Again, RowPaid
    <3>6. Sound(With(u, h, r, u.envelope), {}, left, 0)
      BY <2>9, <3>2, <3>5, SameMoneySound DEF p
    <3>8. u.envelope \in EnvelopeType
      BY <3>2, TablesAre
    <3>7. With(u, h, r, u.envelope).hold[h] = r
      BY <3>2, <3>8, WithIs
    <3> QED BY <3>2, <3>3, <3>4, <3>6, <3>7
  <2>11. OrderKept(d)
    <3>1. v \in {"unknown", "dropped"} /\ u.hold[h].lease \notin Running
      BY <1>5 DEF Running
    <3> HIDE DEF v
    <3>2. Touches(u, d, h)
      BY <1>5, <3>1, StepTouches
    <3> HIDE DEF d
    <3> QED BY <1>5, <3>2, QuietKeeps DEF Touches
  <2> HIDE DEF d
  <2>12. Sound(Resumed(d, h, left, FALSE), {}, 0, 0)
    <3>1. left \in Int /\ left >= 0 /\ left <= left
      BY <2>9
    <3>2. Sound(d, {}, left, 0) /\ (left <= 0 => d.hold[h].state # "held")
      BY <2>10
    <3> HIDE DEF v, o
    <3> QED BY <2>11, <3>1, <3>2, ResumedSound
  <2> QED BY <1>2, <1>7, <2>12, AlterKeepsMoney
<1> QED BY <1>6, <1>7

(***************************************************************************)
(* A person's word.                                                        *)
(***************************************************************************)

\* A closed hold with a word on it; one said to have happened differently leaves
\* its amount to be spent again, unless its absence did.
LEMMA WordedSound ==
    ASSUME NEW t, NEW n \in Int, NEW k \in Int, Sound(t, {}, n, k), NEW h \in Hold,
           t.hold[h].state \in {"actual", "abandoned"}, t.hold[h].word = "none",
           NEW word \in {"nothing", "happened", "differently"}
    PROVE  /\ Sound(Worded(t, h, word), {}, n + Regained(t.hold[h], word), k)
           /\ Regained(t.hold[h], word) \in Nat
           /\ Worded(t, h, word).hold[h].state = t.hold[h].state
           /\ Worded(t, h, word).hold[h].amount = t.hold[h].amount
           /\ Worded(t, h, word).hold[h].actual = t.hold[h].actual
<1> DEFINE o == t.hold[h]
           r == [o EXCEPT !.word = word]
           m == n + Regained(o, word)
           u == Worded(t, h, word)
<1>1. t \in TablesType /\ RowsKept(t) /\ t.hold[h] \in LooseRow /\ t.envelope \in EnvelopeType
  BY TablesAre DEF Sound, MoneyKept
<1>2. u = With(t, h, r, t.envelope) /\ r \in LooseRow
  BY <1>1, WordIs DEF Worded
<1>3. RowPaid(o) /\ o.amount \in Nat /\ o.actual \in Nat
  BY <1>1 DEF RowsKept, RowPaid
<1>4. /\ r.state = o.state /\ r.amount = o.amount /\ r.actual = o.actual /\ r.ended = o.ended
      /\ r.lease = o.lease /\ r.step = o.step /\ r.absent = o.absent /\ r.word = word
      /\ r.marked = o.marked
  BY <1>1 DEF LooseRow
<1>5. o.state \in {"actual", "abandoned"} /\ o.word = "none"
  OBVIOUS
<1>6. u.hold[h] = r
  <2> HIDE DEF u, r
  <2> QED BY <1>1, <1>2, WithIs
<1> HIDE DEF r, u, o
<1>7. RowPaid(r)
  BY <1>3, <1>4, <1>5 DEF RowPaid
<1>8. RowGoesOn(t, h, r) /\ LeavesCharges(t, h, r)
  BY <1>4, <1>5, <1>7 DEF RowGoesOn, LeavesCharges, Again, o
<1>9. HeldOf(o) = 0 /\ HeldOf(r) = 0
  BY <1>4, <1>5 DEF HeldOf
<1>10. t.envelope.held \in Int /\ t.envelope.actual \in Int
  BY <1>1 DEF EnvelopeType
<1>11. EnvelopeFor(t, h, r, t.envelope)
  BY <1>3, <1>4, <1>9, <1>10 DEF EnvelopeFor, o
<1>12. m \in Int /\ Regained(o, word) \in Nat /\ m <= n - NetOf(o) + NetOf(r) /\ NetOf(o) \in Int
  <2>1. CASE word = "differently" /\ ~ o.absent
    <3>1. Again(r) /\ ~ Again(o)
      BY <1>4, <1>5, <2>1 DEF Again
    <3>2. NetOf(o) = 0 - o.actual /\ NetOf(r) = o.amount - o.actual
      BY <1>3, <1>4, <1>9, <3>1 DEF NetOf
    <3> QED BY <1>3, <2>1, <3>2 DEF Regained
  <2>2. CASE ~ (word = "differently" /\ ~ o.absent)
    <3>1. Again(r) <=> Again(o)
      BY <1>4, <1>5, <2>2 DEF Again
    <3>2. NetOf(o) = NetOf(r) /\ NetOf(o) \in Int
      BY <1>3, <1>4, <1>9, <3>1 DEF NetOf
    <3> QED BY <2>2, <3>2 DEF Regained
  <2> QED BY <2>1, <2>2
<1>13. HeldOf(r) + r.actual <= HeldOf(o) + o.actual
  BY <1>3, <1>4, <1>9
<1> HIDE DEF m
<1>14. Sound(With(t, h, r, t.envelope), {}, m, k)
  BY <1>1, <1>2, <1>8, <1>11, <1>12, <1>13, WithSound DEF o
<1> QED BY <1>2, <1>4, <1>6, <1>12, <1>14 DEF o, m, u

\* A held hold closed at a charge.
LEMMA ClosedAt ==
    ASSUME NEW t, NEW n \in Int, NEW k \in Int, Sound(t, {}, n, k), NEW h \in Hold,
           t.hold[h].state = "held", NEW charge \in Nat, charge <= t.hold[h].amount,
           NEW step \in {"completed", "failed", "written_off", "abandoned"}
    PROVE  LET u == Closed(t, h, charge, step) IN
           /\ Sound(u, {}, n + t.hold[h].amount - charge, k) /\ Sound(u, {}, n, k)
           /\ u.hold[h].state \in {"actual", "abandoned"} /\ u.hold[h].word = "none"
           /\ u.hold[h].amount = t.hold[h].amount /\ u.hold[h].actual = charge
           /\ u.hold[h].absent = t.hold[h].absent /\ u.hold[h].step = step
           /\ \A g \in Hold \ {h} : u.hold[g] = t.hold[g]
<1> DEFINE o == t.hold[h]
           r == ClosedRow(o, charge, step)
           u == Closed(t, h, charge, step)
<1>1. t \in TablesType /\ o \in LooseRow /\ RowPaid(o)
  BY TablesAre DEF Sound, MoneyKept, RowsKept
<1>2. /\ u = With(t, h, r, ClosedEnvelope(t, h, charge)) /\ r \in LooseRow
      /\ ClosedEnvelope(t, h, charge) \in EnvelopeType
  BY <1>1, ClosedIs
<1>3. Sound(u, {}, n + o.amount - charge, k)
  BY ClosedSound
<1>4. /\ r.state = (IF charge > 0 THEN "actual" ELSE "abandoned") /\ r.word = o.word
      /\ r.amount = o.amount /\ r.actual = charge /\ r.absent = o.absent /\ r.step = step
  BY <1>1 DEF ClosedRow, LooseRow
<1>5. o.word = "none" /\ o.amount \in Nat
  BY <1>1 DEF RowPaid
<1>6. charge <= o.amount
  OBVIOUS
<1> HIDE DEF r, u
<1>7. u.hold[h] = r /\ \A g \in Hold \ {h} : u.hold[g] = t.hold[g]
  BY <1>1, <1>2, WithIs
<1>8. Sound(u, {}, n, k)
  <2>1. n + o.amount - charge \in Int /\ n <= n + o.amount - charge
    BY <1>5, <1>6
  <2> QED BY <1>3, <2>1, SpareLess
<1>9. u.hold[h].state \in {"actual", "abandoned"}
  BY <1>4, <1>7
<1> QED BY <1>3, <1>4, <1>5, <1>7, <1>8, <1>9 DEF u

\* A person says the effect happened,
LEMMA SayHappenedMoney ==
    ASSUME OrderInv, MoneyInv, CeilingInv, NEW h \in Hold, SayHappened(h)
    PROVE  MoneyInv' /\ CeilingInv'
<1> DEFINE t == Tables
           s == StoppedBeside(t, Beside(h))
           charge == hold[h].amount
           k == Closed(s, h, charge, "completed")
           w == Worded(k, h, "happened")
           u == CallsResolved(w, h, "happened")
<1>1. OrderKept(t) /\ t.hold = hold /\ Sound(t, {}, 0, 0) /\ RowsKept(t)
  BY OrderIs, SoundIs
<1>2. hold[h].state = "held" /\ Alter(u)
  BY DEF SayHappened, Answers, Worded
<1>3. Beside(h) \in SUBSET Hold /\ h \notin Beside(h) /\ \A g \in Beside(h) : t.hold[g].state = "held"
  BY DEF Beside, HeldIn
<1>4. charge \in Nat
  BY <1>1 DEF RowsKept, RowPaid
<1> HIDE DEF t
<1>5. Quiet(t, s) /\ s.hold[h] = t.hold[h] /\ Sound(s, {}, 0, 0)
  <2>1. \A g \in Beside(h) : t.hold[g].state # "none"
    BY <1>3
  <2> QED BY <1>1, <1>3, <2>1, StoppedBesideQuiet, StoppedBesideSound
<1> HIDE DEF s
<1>6. /\ Sound(k, {}, 0, 0) /\ k.hold[h].state \in {"actual", "abandoned"}
      /\ k.hold[h].word = "none"
  <2>1. s.hold[h].state = "held" /\ charge <= s.hold[h].amount
    BY <1>1, <1>2, <1>4, <1>5
  <2> HIDE DEF charge
  <2> QED BY <1>4, <1>5, <2>1, ClosedAt
<1> HIDE DEF k, charge
<1>7. Sound(w, {}, 0, 0)
  <2>1. Sound(w, {}, 0 + Regained(k.hold[h], "happened"), 0)
    <3>1. 0 \in Int /\ "happened" \in {"nothing", "happened", "differently"}
      OBVIOUS
    <3> QED BY <1>6, <3>1, WordedSound
  <2> QED BY <2>1 DEF Regained
<1> HIDE DEF w
<1>8. Sound(u, {}, 0, 0)
  BY <1>7, CallsResolvedSound
<1> HIDE DEF u
<1> QED BY <1>2, <1>8, AlterKeepsMoney

\* What a hold closed on a person's word and its calls leave.
LEMMA ResolvedLeaves ==
    ASSUME NEW w, OrderKept(w), NEW n \in Int, Sound(w, {}, n, 0), NEW h \in Hold,
           w.hold[h].state \in {"actual", "abandoned"},
           NEW word \in {"nothing", "happened", "differently"}
    PROVE  LET u == CallsResolved(w, h, word) IN
           /\ Sound(u, {}, n, 0) /\ u.hold[h].state # "held"
           /\ u.hold[h].amount = w.hold[h].amount /\ u.hold[h].actual = w.hold[h].actual
<1> DEFINE u == CallsResolved(w, h, word)
<1>1. w.hold[h] \in LooseRow
  BY TablesAre DEF OrderKept
<1>2. u.hold[h] = [w.hold[h] EXCEPT !.amount = u.hold[h].amount]
  BY CallsResolvedQuiet
<1>3. Sound(u, {}, n, 0) /\ u.hold[h].amount = w.hold[h].amount
  BY CallsResolvedSound
<1> HIDE DEF u
<1>4. u.hold[h].state = w.hold[h].state /\ u.hold[h].actual = w.hold[h].actual
  BY <1>1, <1>2 DEF LooseRow
<1> QED BY <1>3, <1>4 DEF u

\* that nothing happened,
LEMMA SayNothingMoney ==
    ASSUME OrderInv, MoneyInv, CeilingInv, NEW h \in Hold, SayNothing(h)
    PROVE  MoneyInv' /\ CeilingInv'
<1> DEFINE t == Tables
           o == hold[h]
           charge == CallsCost(t, h)
           k == Closed(t, h, charge, "abandoned")
           w == Worded(k, h, "nothing")
           u == CallsResolved(w, h, "nothing")
           left == Left(u, h)
           n == o.amount - charge
<1>1. /\ OrderKept(t) /\ t.hold = hold /\ Sound(t, {}, 0, 0) /\ RowsKept(t) /\ t \in TablesType
  BY OrderIs, SoundIs
<1>2. /\ o.state = "held" /\ o.lease # "none" /\ (o.lease \in Running => o.marked)
      /\ Alter(IF o.absent THEN u ELSE Resumed(u, h, left, FALSE))
  BY AnswersAre DEF SayNothing, NothingSaid, Worded
<1>3. charge \in Nat /\ charge <= o.amount /\ o.amount \in Nat
  <2>1. o.amount \in Nat
    BY <1>1 DEF RowsKept, RowPaid
  <2> QED BY <1>1, <1>2, <2>1, CostIsCovered
<1>4. n \in Int /\ n >= 0
  <2> HIDE DEF charge
  <2> QED BY <1>3
<1> HIDE DEF t
<1>5. OrderKept(w) /\ OrderKept(u)
  <2>1. charge \in Int
    BY <1>3
  <2> HIDE DEF charge
  <2> QED BY <1>1, <1>2, <2>1, WordedKeeps DEF Worded
<1> HIDE DEF charge
<1>6. /\ Sound(k, {}, n, 0) /\ k.hold[h].state \in {"actual", "abandoned"}
      /\ k.hold[h].word = "none" /\ k.hold[h].amount = o.amount /\ k.hold[h].actual = charge
  <2>1. /\ Sound(k, {}, 0 + t.hold[h].amount - charge, 0) /\ k.hold[h].state \in {"actual", "abandoned"}
        /\ k.hold[h].word = "none" /\ k.hold[h].amount = t.hold[h].amount /\ k.hold[h].actual = charge
    <3>1. t.hold[h].state = "held" /\ charge \in Nat /\ charge <= t.hold[h].amount
      BY <1>1, <1>2, <1>3
    <3> QED BY <1>1, <3>1, ClosedAt
  <2> HIDE DEF k
  <2>2. 0 + t.hold[h].amount - charge = n
    BY <1>1, <1>3
  <2> QED BY <1>1, <2>1, <2>2
<1> HIDE DEF k, n
<1>7. /\ Sound(w, {}, n, 0) /\ w.hold[h].state \in {"actual", "abandoned"}
      /\ w.hold[h].amount = o.amount /\ w.hold[h].actual = charge
  <2>1. /\ Sound(w, {}, n + Regained(k.hold[h], "nothing"), 0)
        /\ w.hold[h].state = k.hold[h].state
        /\ w.hold[h].amount = k.hold[h].amount /\ w.hold[h].actual = k.hold[h].actual
    BY <1>4, <1>6, WordedSound
  <2>2. n + Regained(k.hold[h], "nothing") = n
    BY <1>4 DEF Regained
  <2> QED BY <1>6, <2>1, <2>2
<1> HIDE DEF w
<1>8. /\ Sound(u, {}, n, 0) /\ u.hold[h].state # "held"
      /\ u.hold[h].amount = o.amount /\ u.hold[h].actual = charge
  BY <1>4, <1>5, <1>7, ResolvedLeaves
<1> HIDE DEF u
<1>9. left = n
  BY <1>8 DEF Left, n
<1> HIDE DEF left
<1>10. CASE o.absent
  <2>1. Sound(u, {}, 0, 0)
    BY <1>4, <1>8, SpareLess
  <2> QED BY <1>2, <1>10, <2>1, AlterKeepsMoney
<1>11. CASE ~ o.absent
  <2>1. n <= n /\ n \in Int
    BY <1>4
  <2>2. Sound(Resumed(u, h, n, FALSE), {}, 0, 0)
    BY <1>4, <1>5, <1>8, <2>1, ResumedSound
  <2> QED BY <1>2, <1>9, <1>11, <2>2, AlterKeepsMoney
<1> QED BY <1>10, <1>11

\* that it happened differently,
LEMMA SayDifferentlyMoney ==
    ASSUME OrderInv, MoneyInv, CeilingInv, NEW h \in Hold, SayDifferently(h)
    PROVE  MoneyInv' /\ CeilingInv'
<1> DEFINE t == Tables
           o == hold[h]
           charge == o.amount
           k == Closed(t, h, charge, "completed")
           w == Worded(k, h, "differently")
           u == CallsResolved(w, h, "differently")
           n == 0 + Regained(k.hold[h], "differently")
<1>1. /\ OrderKept(t) /\ t.hold = hold /\ Sound(t, {}, 0, 0) /\ RowsKept(t)
  BY OrderIs, SoundIs
<1>2. /\ o.state = "held" /\ o.lease # "none" /\ (o.lease \in Running => o.marked)
      /\ Alter(IF o.absent THEN u ELSE Resumed(u, h, charge, FALSE))
  BY AnswersAre DEF SayDifferently, Worded
<1>3. charge \in Nat /\ charge > 0 /\ charge <= t.hold[h].amount /\ charge \in Int
  BY <1>1, <1>2 DEF RowsKept, RowPaid
<1> HIDE DEF t, charge
<1>4. OrderKept(w) /\ OrderKept(u)
  BY <1>1, <1>2, <1>3, WordedKeeps DEF Worded
<1>5. /\ Sound(k, {}, 0, 0) /\ k.hold[h].state \in {"actual", "abandoned"}
      /\ k.hold[h].word = "none" /\ k.hold[h].amount = charge /\ k.hold[h].absent = o.absent
  <2>1. /\ Sound(k, {}, 0, 0) /\ k.hold[h].state \in {"actual", "abandoned"}
        /\ k.hold[h].word = "none" /\ k.hold[h].amount = t.hold[h].amount
        /\ k.hold[h].absent = t.hold[h].absent
    BY <1>1, <1>2, <1>3, ClosedAt
  <2> QED BY <1>1, <2>1 DEF charge
<1> HIDE DEF k
<1>6. Sound(w, {}, n, 0) /\ n \in Int /\ n >= 0 /\ w.hold[h].state \in {"actual", "abandoned"}
  <2>1. /\ Sound(w, {}, n, 0) /\ Regained(k.hold[h], "differently") \in Nat
        /\ w.hold[h].state = k.hold[h].state
    <3>1. 0 \in Int /\ "differently" \in {"nothing", "happened", "differently"}
      OBVIOUS
    <3> QED BY <1>5, <3>1, WordedSound
  <2> QED BY <1>5, <2>1
<1> HIDE DEF w, n
<1>7. Sound(u, {}, n, 0) /\ u.hold[h].state # "held"
  BY <1>4, <1>6, ResolvedLeaves
<1> HIDE DEF u
<1>8. CASE o.absent
  <2>1. Sound(u, {}, 0, 0)
    BY <1>6, <1>7, SpareLess
  <2> QED BY <1>2, <1>8, <2>1, AlterKeepsMoney
<1>9. CASE ~ o.absent
  <2>1. charge <= n
    BY <1>3, <1>5, <1>9 DEF n, Regained
  <2>2. Sound(Resumed(u, h, charge, FALSE), {}, 0, 0)
    BY <1>3, <1>4, <1>6, <1>7, <2>1, ResumedSound
  <2> QED BY <1>2, <1>9, <2>2, AlterKeepsMoney
<1> QED BY <1>8, <1>9

\* or writes it off.
LEMMA WriteOffMoney ==
    ASSUME OrderInv, MoneyInv, CeilingInv, NEW h \in Hold, NEW figure \in {0, hold[h].amount},
           WriteOff(h, figure)
    PROVE  MoneyInv' /\ CeilingInv'
<1> DEFINE t == Tables
           charge == Max({figure, CallsCost(t, h)})
           k == Closed(t, h, charge, "written_off")
           G == {g \in Beside(h) : ~ hold[g].marked}
           s == StoppedBeside(k, G)
           u == CallsResolved(s, h, "written_off")
<1>1. OrderKept(t) /\ t \in TablesType /\ t.hold = hold /\ Sound(t, {}, 0, 0) /\ RowsKept(t)
  BY OrderIs, SoundIs
<1>2. hold[h].state = "held" /\ (hold[h].lease \in Running => hold[h].marked) /\ Alter(u)
  BY AnswersAre DEF WriteOff
<1>3. G \in SUBSET Hold /\ \A g \in G : g # h /\ t.hold[g].state = "held"
  BY DEF Beside, HeldIn
<1>4. charge \in Nat /\ charge <= hold[h].amount
  <2>1. CallsCost(t, h) \in Nat /\ CallsCost(t, h) <= hold[h].amount /\ hold[h].amount \in Nat
    BY <1>1, <1>2, CostIsCovered DEF RowsKept, RowPaid
  <2>2. figure \in Int /\ figure \in Nat /\ figure <= hold[h].amount
    BY <2>1
  <2> DEFINE cost == CallsCost(t, h)
  <2>4. cost \in Int
    BY <2>1
  <2> HIDE DEF cost
  <2>5. Max({figure, cost}) \in {figure, cost}
    BY <2>2, <2>4, OfTwo
  <2>3. charge \in {figure, CallsCost(t, h)}
    BY <2>5 DEF cost
  <2> HIDE DEF charge, t
  <2> QED BY <2>1, <2>2, <2>3
<1> HIDE DEF t, G, charge
<1>5. OrderKept(k)
  <2>1. t.hold[h].state # "none" /\ (t.hold[h].lease \in Running => t.hold[h].marked) /\ charge \in Int
    BY <1>1, <1>2, <1>4
  <2>2. Touches(t, k, h)
    BY <1>1, <2>1, ClosedTouches
  <2> HIDE DEF k
  <2> QED BY <1>1, <2>2, QuietKeeps DEF Touches
<1>6. /\ Sound(k, {}, 0, 0) /\ k.hold[h].state \in {"actual", "abandoned"}
      /\ k.hold[h].step = "written_off" /\ \A g \in Hold \ {h} : k.hold[g] = t.hold[g]
  BY <1>1, <1>2, <1>4, ClosedAt
<1> HIDE DEF k
<1>7. \A g \in G : k.hold[g].state = "held" /\ k.hold[g].state # "none"
  BY <1>3, <1>6
<1>8. Sound(s, {}, 0, 0) /\ s.hold[h] = k.hold[h]
  <2>1. h \notin G
    BY <1>3
  <2> QED BY <1>3, <1>5, <1>6, <1>7, <2>1, StoppedBesideQuiet, StoppedBesideSound
<1> HIDE DEF s
<1>9. WrittenOff(s) /\ s.hold[h].state # "held"
  BY <1>6, <1>8 DEF WrittenOff
<1>10. Sound(u, {}, 0, 0)
  BY <1>8, <1>9, CallsResolvedSound
<1> HIDE DEF u
<1> QED BY <1>2, <1>10, AlterKeepsMoney

(***************************************************************************)
(* The room the version has left.                                          *)
(***************************************************************************)

\* A hold none of whose calls the envelope carries adds nothing.
LEMMA NothingOn ==
    ASSUME NEW t \in TablesType, NEW g \in Hold,
           \/ CallsOn(t, g) = {}
           \/ ~ MovedIn(t, g)
           \/ Again(t.hold[g])
    PROVE  NetOn(t, g) = 0
<1> DEFINE f == [c \in Call |-> NetCharge(t, c, {})]
           S == {c \in Call : t.call[c].of = g}
<1>1. IsFiniteSet(S) /\ S \in SUBSET Call
  BY RowsAreFinite, FS_Subset
<1>2. ASSUME NEW c \in S PROVE f[c] = 0
  <2>1. c \in Call /\ t.call[c].of = g
    OBVIOUS
  <2>2. CallsOn(t, g) = {} => t.call[c].state = "none"
    BY <2>1 DEF CallsOn
  <2>3. NetCharge(t, c, {}) = 0
    BY <2>1, <2>2 DEF NetCharge, ChargeOf
  <2> QED BY <2>1, <2>3
<1> HIDE DEF f, S
<1>3. SumFunctionOnSet(f, S) = 0
  BY <1>1, <1>2, SumOfZeroes
<1> QED BY <1>3 DEF NetOn, f, S

\* Of one with no written-off call it adds no more than they come to.
LEMMA SpentCoversCharges ==
    ASSUME NEW t \in TablesType, NEW g \in Hold, \A c \in Call : ~ t.call[c].writtenOff
    PROVE  NetOn(t, g) \in Int /\ NetOn(t, g) <= SpentOn(t, g)
<1> DEFINE f == [c \in Call |-> NetCharge(t, c, {})]
           S == {c \in Call : t.call[c].of = g}
           e == [c \in Call |-> CallSpend(t.call[c])]
           H == CallsOn(t, g)
<1>1. IsFiniteSet(S) /\ IsFiniteSet(S \ H) /\ IsFiniteSet(H) /\ H \in SUBSET S /\ S \in SUBSET Call
  <2>1. S \in SUBSET Call /\ H \in SUBSET S
    BY DEF CallsOn
  <2> HIDE DEF S, H
  <2> QED BY <2>1, RowsAreFinite, FS_Subset
<1>2. \A c \in Call : f[c] \in Nat /\ e[c] \in Nat /\ f[c] <= e[c]
  <2> SUFFICES ASSUME NEW c \in Call PROVE f[c] \in Nat /\ e[c] \in Nat /\ f[c] <= e[c]
    OBVIOUS
  <2>1. /\ CallSpend(t.call[c]) \in 0 .. CallMax /\ CallMax \in Nat
        /\ ChargeOf(t, c, {}) \in Nat /\ NetCharge(t, c, {}) \in Nat
        /\ NetCharge(t, c, {}) <= ChargeOf(t, c, {})
    BY ChargesAre, SomePrices
  <2>2. ChargeOf(t, c, {}) <= CallSpend(t.call[c])
    BY <2>1 DEF ChargeOf, Carried
  <2> QED BY <2>1, <2>2
<1>3. \A c \in S \ H : f[c] = 0
  BY DEF CallsOn, NetCharge, ChargeOf
<1>4. SpentOn(t, g) = SumFunctionOnSet(e, H) /\ NetOn(t, g) = SumFunctionOnSet(f, S)
  BY DEF SpentOn, NetOn
<1> HIDE DEF f, S, e, H
<1>5. SumFunctionOnSet(f, S) = SumFunctionOnSet(f, H) + SumFunctionOnSet(f, S \ H)
  <2>1. \A c \in S : f[c] \in Int
    BY <1>1, <1>2
  <2> QED BY <1>1, <2>1, SumOfParts
<1>6. SumFunctionOnSet(f, S \ H) = 0
  BY <1>1, <1>3, SumOfZeroes
<1>7. SumFunctionOnSet(f, H) <= SumFunctionOnSet(e, H) /\ SumFunctionOnSet(f, H) \in Int
  <2>1. \A c \in H : f[c] \in Int /\ e[c] \in Int /\ f[c] <= e[c]
    BY <1>1, <1>2
  <2> QED BY <1>1, <2>1, SumNoMore, SumType
<1> QED BY <1>4, <1>5, <1>6, <1>7

\* What the version's room takes of a hold covers what the hold and its calls add to
\* the spend, where those held beside are proved absent and nothing was written off.
LEMMA CommittedCovers ==
    ASSUME NEW t, OrderKept(t), RowsKept(t), ~ WrittenOff(t),
           \A g \in HeldIn(t) : Again(t.hold[g]), NEW g \in Hold
    PROVE  /\ NetOn(t, g) \in Int
           /\ t.hold[g].state = "none" => NetOn(t, g) <= NetOf(t.hold[g])
           /\ t.hold[g].state # "none" => CommittedBy(t, g) \in Int
                                          /\ NetOn(t, g) <= CommittedBy(t, g) + NetOf(t.hold[g])
<1> DEFINE o == t.hold[g]
           s == SpentOn(t, g)
           net == NetOn(t, g)
<1>1. t \in TablesType /\ o \in LooseRow /\ RowPaid(o) /\ RowKept(o)
  BY TablesAre DEF OrderKept, RowsKept
<1>2. \A c \in Call : CallKept(t, c) /\ ~ t.call[c].writtenOff
  BY DEF RowsKept, CallKept
<1>3. net \in Int /\ net <= s /\ s \in Nat
  BY <1>1, <1>2, SpentCoversCharges, CallsCostNat
<1>4. o.amount \in Nat /\ o.actual \in Nat
  BY <1>1 DEF RowPaid
<1>5. CASE o.state = "none"
  <2>1. o = NoHold
    BY <1>1, <1>5 DEF RowKept
  <2>2. o.lease = "none" /\ o.amount = 0 /\ o.actual = 0 /\ o.word = "none" /\ ~ o.absent
    BY <2>1 DEF NoHold
  <2>3. CallsOn(t, g) = {}
    BY <1>2, <2>2 DEF CallKept, CallsOn
  <2>4. net = 0
    BY <1>1, <2>3, NothingOn
  <2> HIDE DEF o, net
  <2>5. NetOf(o) = 0
    BY <1>5, <2>2 DEF NetOf, HeldOf
  <2> QED BY <1>3, <1>5, <2>4, <2>5 DEF o, net
<1>6. CASE o.state = "held"
  <2>1. Again(o) /\ net = 0 /\ CommittedBy(t, g) = o.amount
    <3>1. Again(o)
      BY <1>6 DEF HeldIn
    <3> QED BY <1>1, <1>6, <3>1, NothingOn DEF CommittedBy
  <2>2. o.actual = 0
    BY <1>1, <1>6 DEF RowPaid
  <2>3. NetOf(o) = 0
    BY <1>4, <1>6, <2>1, <2>2 DEF NetOf, HeldOf
  <2> QED BY <1>3, <1>4, <1>6, <2>1, <2>3
<1>7. CASE o.state \notin {"none", "held"}
  <2>1. NetOf(o) >= 0 - o.actual /\ NetOf(o) \in Int
    <3>1. HeldOf(o) = 0
      BY <1>7 DEF HeldOf
    <3> QED BY <1>4, <3>1 DEF NetOf
  <2>2. CASE ~ Counted(t, g)
    <3>1. ~ MovedIn(t, g)
      BY <2>2 DEF Counted, MovedIn, ToppedUp, ToppedUpHeld
    <3>2. net = 0 /\ CommittedBy(t, g) = o.actual
      BY <1>1, <1>7, <2>2, <3>1, NothingOn DEF CommittedBy
    <3> QED BY <1>3, <1>4, <1>7, <2>1, <3>2
  <2>3. CASE Counted(t, g) /\ o.state = "actual" /\ ~ ToppedUpHeld(t, g)
    <3>1. ~ MovedIn(t, g)
      BY <1>1, <2>3 DEF RowPaid, MovedIn
    <3>2. net = 0 /\ CommittedBy(t, g) = Max({o.actual, s})
      BY <1>1, <1>7, <2>3, <3>1, NothingOn DEF CommittedBy
    <3>3. Max({o.actual, s}) \in Int /\ Max({o.actual, s}) >= o.actual
      <4>1. o.actual \in Int /\ s \in Int
        BY <1>3, <1>4
      <4> HIDE DEF s, o
      <4> QED BY <4>1, OfTwo
    <3> QED BY <1>3, <1>4, <1>7, <2>1, <3>2, <3>3
  <2>4. CASE Counted(t, g) /\ ~ (o.state = "actual" /\ ~ ToppedUpHeld(t, g))
    <3>1. CommittedBy(t, g) = o.actual + s
      BY <1>7, <2>4 DEF CommittedBy
    <3> QED BY <1>3, <1>4, <1>7, <2>1, <3>1
  <2> QED BY <2>2, <2>3, <2>4
<1> QED BY <1>5, <1>6, <1>7

\* With every hold covered so, the version's room is approved spend that is left.
LEMMA RoomIsSpare ==
    ASSUME NEW t, OrderKept(t), RowsKept(t), ~ WrittenOff(t),
           \A g \in HeldIn(t) : Again(t.hold[g])
    PROVE  VersionRoom(t) \in Int /\ VersionRoom(t) <= Spare(t, {})
<1> DEFINE f == [c \in Call |-> NetCharge(t, c, {})]
           col == [c \in Call |-> t.call[c].of]
           on == [g \in Hold |-> NetOn(t, g)]
           com == [g \in Hold |-> CommittedBy(t, g)]
           net == [g \in Hold |-> NetOf(t.hold[g])]
           W == Written(t)
           b == [g \in Hold |-> IF g \in W THEN com[g] ELSE 0]
           k == [g \in Hold |-> b[g] + net[g]]
<1>1. t \in TablesType /\ IsFiniteSet(Hold) /\ IsFiniteSet(Call)
  BY RowsAreFinite DEF OrderKept
<1>2. \A c \in Call : f[c] \in Int /\ col[c] \in Hold
  <2> SUFFICES ASSUME NEW c \in Call PROVE f[c] \in Int /\ col[c] \in Hold
    OBVIOUS
  <2>1. NetCharge(t, c, {}) \in Nat /\ t.call[c] \in CallRow
    BY <1>1, ChargesAre
  <2> QED BY <2>1 DEF CallRow
<1>3. \A g \in Hold : net[g] \in Int
  <2> SUFFICES ASSUME NEW g \in Hold PROVE net[g] \in Int
    OBVIOUS
  <2>1. t.hold[g] \in LooseRow
    BY <1>1, TablesAre
  <2> QED BY <2>1, HoldsAdd
<1>4. \A g \in Hold : /\ b[g] \in Int /\ on[g] \in Int
                      /\ k[g] \in Int /\ on[g] <= k[g] /\ k[g] = b[g] + net[g]
  <2> SUFFICES ASSUME NEW g \in Hold
               PROVE  b[g] \in Int /\ on[g] \in Int /\ k[g] \in Int /\ on[g] <= k[g]
    OBVIOUS
  <2>1. /\ NetOn(t, g) \in Int
        /\ t.hold[g].state = "none" => NetOn(t, g) <= NetOf(t.hold[g])
        /\ t.hold[g].state # "none" => CommittedBy(t, g) \in Int
                                       /\ NetOn(t, g) <= CommittedBy(t, g) + NetOf(t.hold[g])
    BY CommittedCovers
  <2>2. NetOf(t.hold[g]) \in Int
    BY <1>3
  <2>3. g \in W <=> t.hold[g].state # "none"
    BY DEF Written
  <2>4. CASE g \in W
    BY <2>1, <2>2, <2>3, <2>4
  <2>5. CASE g \notin W
    BY <2>1, <2>2, <2>3, <2>5
  <2> QED BY <2>4, <2>5
<1>5. W \in SUBSET Hold /\ IsFiniteSet(W)
  BY <1>1, FS_Subset DEF Written
<1>6. \A g \in W : b[g] = com[g]
  BY <1>5
<1>7. \A g \in Hold \ W : b[g] = 0
  OBVIOUS
<1>8. SumFunctionOnSet([g \in Hold |-> SumFunctionOnSet(f, {c \in Call : col[c] = g})], Hold)
        = SumFunctionOnSet(f, Call)
  <2> HIDE DEF f, col
  <2> QED BY <1>1, <1>2, SumByColumn
<1>9. [g \in Hold |-> SumFunctionOnSet(f, {c \in Call : col[c] = g})] = on
  <2> SUFFICES ASSUME NEW g \in Hold
               PROVE  SumFunctionOnSet(f, {c \in Call : col[c] = g}) = NetOn(t, g)
    OBVIOUS
  <2>1. {c \in Call : col[c] = g} = {c \in Call : t.call[c].of = g}
    OBVIOUS
  <2> HIDE DEF col
  <2> QED BY <2>1 DEF NetOn
<1>10. /\ NetChargeSum(t, {}) = SumFunctionOnSet(f, Call)
       /\ NetSum(t) = SumFunctionOnSet(net, Hold)
       /\ VersionRoom(t) = Approved + TopUpsOf(t) - SumFunctionOnSet(com, W)
       /\ Spare(t, {}) = Approved + TopUpsOf(t) + NetSum(t) - NetChargeSum(t, {})
  BY DEF NetChargeSum, NetSum, VersionRoom, Spare
<1>11. NetSum(t) \in Int /\ NetChargeSum(t, {}) \in Nat /\ TopUpsOf(t) \in Nat /\ Approved \in Nat
  BY <1>1, SumsAre
<1> HIDE DEF f, col, on, com, net, W, b, k
<1>12. SumFunctionOnSet(b, Hold) = SumFunctionOnSet(com, W)
  <2>1. \A g \in W : b[g] = com[g] /\ com[g] \in Int
    BY <1>4, <1>5, <1>6
  <2> QED BY <1>1, <1>5, <1>7, <2>1, SumOfChosen
<1>13. SumFunctionOnSet(k, Hold) = SumFunctionOnSet(b, Hold) + SumFunctionOnSet(net, Hold)
  <2>1. \A g \in Hold : b[g] \in Int /\ net[g] \in Int /\ k[g] = b[g] + net[g]
    BY <1>3, <1>4
  <2> QED BY <1>1, <2>1, SumOfSums
<1>14. SumFunctionOnSet(on, Hold) <= SumFunctionOnSet(k, Hold)
  <2>1. \A g \in Hold : on[g] \in Int /\ k[g] \in Int /\ on[g] <= k[g]
    BY <1>4
  <2> QED BY <1>1, <2>1, SumNoMore
<1>15. SumFunctionOnSet(on, Hold) = SumFunctionOnSet(f, Call)
  BY <1>8, <1>9
<1>16. SumFunctionOnSet(b, Hold) \in Int
  <2>1. \A g \in Hold : b[g] \in Int
    BY <1>4
  <2> QED BY <1>1, <2>1, SumType
<1> QED BY <1>10, <1>11, <1>12, <1>13, <1>14, <1>15, <1>16

\* Fencing leases whose holds are not held moves no money.
LEMMA FencedEnvelope ==
    ASSUME NEW t \in TablesType, NEW h \in Hold,
           \A g \in Hold \ {h} : t.hold[g].lease = "lapsed" => t.hold[g].state # "held"
    PROVE  Fenced(t, h).envelope = t.envelope
<1> DEFINE C == {g \in Hold \ {h} : t.hold[g].lease = "lapsed"}
           P == {p \in (SUBSET C) \X TablesType :
                    /\ p[2].envelope = t.envelope
                    /\ \A g \in Hold : p[2].hold[g].state = t.hold[g].state}
<1>1. <<{}, t>> \in P
  OBVIOUS
<1>2. FencesOn(C, P)
  <2> SUFFICES ASSUME NEW v, NEW s \in SUBSET C, NEW x \in C, x \in s, <<s \ {x}, v>> \in P
               PROVE  v \in TablesType /\ <<s, Classified(Retired(v, x, "open"), x)>> \in P
    BY DEF FencesOn
  <2> DEFINE w == Retired(v, x, "open")
             k == MovedCalls(v, Releasable(v, x), "released")
             r == RetiredRow(v.hold[x], "open")
  <2>1. /\ v \in TablesType /\ x \in Hold /\ v.envelope = t.envelope
        /\ \A g \in Hold : v.hold[g].state = t.hold[g].state
        /\ t.hold[x].state # "held"
    OBVIOUS
  <2>2. w = With(WithCalls(v, k), x, r, v.envelope) /\ r \in LooseRow
    BY <2>1, RetiredIs
  <2>3. k \in [Call -> CallRow] /\ v.envelope \in EnvelopeType
    BY <2>1, CallsMovedIs, TablesAre
  <2>4. r.state = v.hold[x].state
    <3>1. v.hold[x] \in LooseRow
      BY <2>1, TablesAre
    <3> QED BY <3>1 DEF RetiredRow, LooseRow
  <2> HIDE DEF w, k, r
  <2>5. WithCalls(v, k) \in TablesType /\ WithCalls(v, k).hold = v.hold
    BY <2>1, <2>3, WithCallsIs DEF WithCalls
  <2>6. /\ w \in TablesType /\ w.hold[x] = r /\ w.envelope = v.envelope
        /\ \A g \in Hold \ {x} : w.hold[g] = v.hold[g]
    <3>1. With(WithCalls(v, k), x, r, v.envelope).envelope = v.envelope
      BY DEF With
    <3> QED BY <2>1, <2>2, <2>3, <2>5, <3>1, WithIs
  <2>7. \A g \in Hold : w.hold[g].state = t.hold[g].state
    BY <2>1, <2>4, <2>6
  <2>8. Classified(w, x) = w
    BY <2>1, <2>6, <2>7, ClassifiedIs
  <2> HIDE DEF C
  <2>9. <<s, w>> \in P
    BY <2>1, <2>6, <2>7
  <2> QED BY <2>1, <2>8, <2>9 DEF w
<1> HIDE DEF P
<1>3. C \in SUBSET Hold
  OBVIOUS
<1>4. Fenced(t, h) = FoldSet(LAMBDA g, u : Classified(Retired(u, g, "open"), g), t, C)
  BY DEF Fenced
<1>5. <<C, FoldSet(LAMBDA g, u : Classified(Retired(u, g, "open"), g), t, C)>> \in P
  BY <1>1, <1>2, <1>3, FencedInTurn
<1>6. <<C, Fenced(t, h)>> \in P
  BY <1>4, <1>5, Zenon
<1> QED BY <1>6 DEF P

\* What a replacing pickup replaces: its own hold is closed, the step is not written
\* off, and what is held beside is proved absent, its lease over.
LEMMA ReplacedIs ==
    ASSUME OrderInv, MoneyInv, CeilingInv, NEW h \in Hold, PickUpReplacing(h)
    PROVE  LET own == IF hold[h].state # "held" THEN Tables
                      ELSE Classified(IF hold[h].lease = "lapsed" THEN Retired(Tables, h, "open")
                                      ELSE Tables, h)
           IN /\ Sound(own, {}, 0, 0) /\ ~ WrittenOff(own) /\ own.hold[h].state # "held"
              /\ \A g \in HeldIn(own) : Again(own.hold[g])
              /\ \A g \in Hold \ {h} : own.hold[g].lease = "lapsed" => own.hold[g].state # "held"
<1> DEFINE t == Tables
           w == IF hold[h].lease = "lapsed" THEN Retired(t, h, "open") ELSE t
           own == IF hold[h].state # "held" THEN t ELSE Classified(w, h)
<1>1. OrderKept(t) /\ t.hold = hold /\ Sound(t, {}, 0, 0) /\ RowsKept(t)
  BY OrderIs, SoundIs
<1>2. /\ ~ hold[h].marked /\ ~ WrittenOff(t)
      /\ own.hold[h].state # "held"
      /\ \/ hold[h].state = "held" /\ hold[h].lease \in {"lapsed", "over"}
         \/ hold[h].state # "held" /\ HeldIn(t) = {}
  BY DEF PickUpReplacing, Claimable, Replaceable
<1>3. Touches(t, own, h)
  BY OwnClosed
<1> HIDE DEF t
<1>4. CASE hold[h].state # "held"
  <2>1. own = t /\ HeldIn(t) = {}
    BY <1>2, <1>4
  <2>2. \A g \in Hold : t.hold[g].state # "held"
    BY <2>1 DEF HeldIn
  <2> HIDE DEF own
  <2> QED BY <1>1, <1>2, <2>1, <2>2 DEF own, t, w
<1>5. CASE hold[h].state = "held"
  <2>1. own = Classified(w, h)
    BY <1>5
  <2>2. Sound(w, {}, 0, 0) /\ OrderKept(w) /\ w.hold[h].lease = "over" /\ w.hold[h].step = t.hold[h].step
    <3>1. CASE hold[h].lease = "lapsed"
      <4>1. w = Retired(t, h, "open") /\ t.hold[h].lease # "none"
        BY <1>1, <3>1
      <4>2. Sound(Retired(t, h, "open"), {}, 0, 0)
        BY <1>1, RetiredSound
      <4>3. /\ Touches(t, Retired(t, h, "open"), h)
            /\ Retired(t, h, "open").hold[h] = RetiredRow(t.hold[h], "open")
            /\ RetiredRow(t.hold[h], "open").lease = "over"
        BY <1>1, <4>1, RetiredTouches
      <4>4. t.hold[h] \in LooseRow
        BY <1>1, TablesAre DEF OrderKept
      <4>5. RetiredRow(t.hold[h], "open").step = t.hold[h].step
        BY <4>4 DEF RetiredRow, LooseRow
      <4>6. OrderKept(Retired(t, h, "open"))
        BY <1>1, <4>3, QuietKeeps DEF Touches
      <4> QED BY <4>1, <4>2, <4>3, <4>5, <4>6
    <3>2. CASE hold[h].lease = "over"
      BY <1>1, <3>2
    <3> QED BY <1>2, <1>5, <3>1, <3>2
  <2> HIDE DEF w
  <2>3. Sound(own, {}, 0, 0)
    BY <2>1, <2>2, ClassifiedSound
  <2>4. own.hold[h].step \in {t.hold[h].step, "unknown", "abandoned"}
    BY <2>1, <2>2, ClassifiedTouches
  <2> HIDE DEF own
  <2>5. ~ WrittenOff(own)
    BY <1>2, <1>3, <2>4 DEF WrittenOff, Touches
  <2>6. t.hold[h].state = "held" /\ ~ t.hold[h].absent /\ t.hold[h].lease \in {"lapsed", "over"}
    <3>1. RowPaid(t.hold[h])
      BY <1>1 DEF RowsKept
    <3> QED BY <1>1, <1>2, <1>5, <3>1 DEF RowPaid
  <2>7. ASSUME NEW g \in Hold \ {h}, t.hold[g].state = "held"
        PROVE  t.hold[g].absent /\ t.hold[g].lease # "lapsed"
    <3>1. HoldsInOrder(t)
      BY <1>1 DEF OrderKept
    <3>2. g < h \/ h < g
      BY DEF Hold
    <3>3. CASE g < h
      BY <2>6, <2>7, <3>1, <3>3 DEF HoldsInOrder, Running
    <3>4. CASE h < g
      BY <2>6, <2>7, <3>1, <3>4 DEF HoldsInOrder
    <3> QED BY <3>2, <3>3, <3>4
  <2>8. \A g \in Hold \ {h} : own.hold[g] = t.hold[g]
    BY <1>3 DEF Touches
  <2>9. \A g \in HeldIn(own) : Again(own.hold[g])
    BY <1>2, <2>7, <2>8 DEF HeldIn, Again
  <2> QED BY <1>2, <2>3, <2>5, <2>7, <2>8, <2>9 DEF own, t, w
<1> QED BY <1>4, <1>5

\* A replacing pickup reserves within the room its version has left.
LEMMA PickUpReplacingMoney ==
    ASSUME OrderInv, MoneyInv, CeilingInv, NEW h \in Hold, PickUpReplacing(h)
    PROVE  MoneyInv' /\ CeilingInv'
<1> DEFINE t == Tables
           own == IF hold[h].state # "held" THEN t
                  ELSE Classified(IF hold[h].lease = "lapsed" THEN Retired(t, h, "open")
                                  ELSE t, h)
           f == Fenced(own, h)
           left == Left(own, h)
           size == Min({left, VersionRoom(own)})
           n == NextHold(f)
           u == Reserved(f, size)
<1>1. OrderKept(t)
  BY OrderIs
<1>2. Touches(t, own, h)
  BY OwnClosed
<1>3. /\ Sound(own, {}, 0, 0) /\ ~ WrittenOff(own) /\ own.hold[h].state # "held"
      /\ \A g \in HeldIn(own) : Again(own.hold[g])
      /\ \A g \in Hold \ {h} : own.hold[g].lease = "lapsed" => own.hold[g].state # "held"
  BY ReplacedIs
<1>4. IF size <= 0 THEN Alter(AtSpentHold(f, h))
      ELSE Reservable(own, size) /\ Alter(Claimed(u, n))
  BY DEF PickUpReplacing
<1> HIDE DEF t, own
<1>5. OrderKept(own) /\ own \in TablesType /\ RowsKept(own) /\ CeilingsKept(own, {}, 0, 0)
  BY <1>1, <1>2, <1>3, QuietKeeps DEF Touches, OrderKept, Sound, MoneyKept
<1>6. VersionRoom(own) \in Int /\ VersionRoom(own) <= Spare(own, {})
  BY <1>3, <1>5, RoomIsSpare
<1>7. left \in Int
  BY <1>5, AmountsAre
<1> HIDE DEF left
<1>8. size \in Int /\ size <= VersionRoom(own)
  BY <1>6, <1>7, OfTwo
<1> HIDE DEF size
<1>9. /\ Quiet(own, f) /\ f.hold[h] = own.hold[h] /\ f.envelope = own.envelope
      /\ Sound(f, {}, 0, 0)
  BY <1>3, <1>5, FencedQuiet, FencedEnvelope, FencedSound
<1>10. OrderKept(f) /\ Written(f) = Written(own)
  BY <1>5, <1>9, QuietKeeps, FollowsKeepsOrder DEF Quiet
<1>11. CASE size <= 0
  <2> HIDE DEF f
  <2>1. Sound(AtSpentHold(f, h), {}, 0, 0)
    BY <1>3, <1>9, AtSpentHoldSound
  <2> QED BY <1>4, <1>11, <2>1, AlterKeepsMoney
<1>12. CASE ~ (size <= 0)
  <2>1. Reservable(own, size) /\ Alter(Claimed(u, n)) /\ size \in Nat \ {0}
    BY <1>4, <1>8, <1>12
  <2>2. Sound(own, {}, 0 + size, 0)
    <3>1. Spare(own, {}) \in Int
      BY <1>5, SumsAre
    <3>2. Spare(own, {}) >= 0 + size
      BY <1>6, <1>8, <3>1
    <3> QED BY <1>3, <1>5, <3>2 DEF Sound, CeilingsKept
  <2>3. Sound(f, {}, 0 + size, 0)
    <3>1. 0 + size \in Int /\ 0 \in Int
      BY <1>8
    <3> QED BY <2>2, <3>1, FencedSound
  <2> HIDE DEF f
  <2>4. NextHold(f) \in Hold /\ Fits(f, size)
    BY <1>9, <1>10, <2>1 DEF Reservable, NextHold, Fits
  <2>5. Sound(u, {}, 0, 0)
    BY <1>10, <2>1, <2>3, <2>4, ReservedSound
  <2>6. u.hold[n].state = "held"
    <3>1. f \in TablesType
      BY <1>10 DEF OrderKept
    <3>2. /\ u = With(f, n, FreshHold(size), ReservedEnvelope(f, size))
          /\ FreshHold(size) \in LooseRow /\ ReservedEnvelope(f, size) \in EnvelopeType
      BY <1>8, <3>1, ReservedIs
    <3>3. n \in Hold
      BY <2>4
    <3> HIDE DEF n
    <3>4. u.hold[n] = FreshHold(size)
      BY <3>1, <3>2, <3>3, WithIs
    <3> QED BY <3>4 DEF FreshHold, NoHold
  <2>7. n \in Hold
    BY <2>4
  <2> HIDE DEF n, u
  <2>8. Sound(Claimed(u, n), {}, 0, 0)
    BY <2>5, <2>6, <2>7, ClaimedSound
  <2> QED BY <2>1, <2>8, AlterKeepsMoney
<1> QED BY <1>11, <1>12

(***************************************************************************)
(* The money and the ceilings, from the first state on.                    *)
(***************************************************************************)

\* Nothing but the first hold adds to a sum that is zero on the others.
LEMMA FirstAlone ==
    ASSUME NEW f, NEW a \in Int, f[1] = a, \A h \in Hold \ {1} : f[h] = 0
    PROVE  SumFunctionOnSet(f, Hold) = a
<1>1. 1 \in Hold /\ IsFiniteSet(Hold)
  BY SomeBounds, RowsAreFinite DEF Hold
<1>2. \A h \in Hold : f[h] \in Int
  <2> SUFFICES ASSUME NEW h \in Hold PROVE f[h] \in Int
    OBVIOUS
  <2>1. CASE h = 1
    BY <2>1
  <2>2. CASE h # 1
    BY <2>2
  <2> QED BY <2>1, <2>2
<1>3. SumFunctionOnSet(f, Hold) = f[1] + SumFunctionOnSet(f, Hold \ {1})
  BY <1>1, <1>2, SumWithout
<1>4. SumFunctionOnSet(f, Hold \ {1}) = 0
  <2>1. IsFiniteSet(Hold \ {1})
    BY <1>1, FS_Difference
  <2> QED BY <2>1, SumOfZeroes
<1> QED BY <1>3, <1>4

\* The first state: the first hold holds what was approved, and nothing is spent.
LEMMA InitMoney ==
    ASSUME Init
    PROVE  MoneyInv /\ CeilingInv
<1> DEFINE r == [NoHold EXCEPT !.state = "held", !.amount = Approved, !.step = "reserved"]
           t == Tables
<1>1. Approved \in Nat \ {0} /\ EnvelopeMax \in Nat /\ Approved <= EnvelopeMax /\ Approved <= Cap
      /\ Cap \in Nat
  BY SomePrices
<1>2. /\ RowPaid(r) /\ r.state = "held" /\ r.amount = Approved /\ r.actual = 0 /\ r.step = "reserved"
      /\ ~ r.ended /\ HeldOf(r) = Approved /\ NetOf(r) = 0 - Approved
  BY <1>1 DEF RowPaid, NoHold, HeldOf, NetOf, Again
<1>3. /\ RowPaid(NoHold) /\ NoHold.state = "none" /\ NoHold.step = "none" /\ NoHold.actual = 0
      /\ ~ NoHold.ended /\ HeldOf(NoHold) = 0 /\ NetOf(NoHold) = 0
  BY DEF RowPaid, NoHold, HeldOf, NetOf, Again
<1> HIDE DEF r
<1>4. /\ t.hold = [h \in Hold |-> IF h = 1 THEN r ELSE NoHold]
      /\ t.call = [c \in Call |-> NoCall] /\ t.asks = <<>> /\ DOMAIN t.asks = {}
      /\ t.envelope = [held |-> Approved, actual |-> 0, maximum |-> EnvelopeMax]
      /\ count = Uncounting
  BY DEF Init, Tables, r
<1>5. 1 \in Hold /\ t \in TablesType
  BY SomeBounds, InitOrder, OrderIs DEF Hold
<1> HIDE DEF t
<1>6. t.hold[1] = r /\ \A h \in Hold \ {1} : t.hold[h] = NoHold
  BY <1>4, <1>5
<1>7. \A c \in Call : t.call[c] = NoCall /\ t.call[c].state = "none" /\ t.call[c].actual = 0
                      /\ ~ t.call[c].writtenOff
  BY <1>4 DEF NoCall
<1>8. RowsKept(t)
  <2>1. \A h \in Hold : RowPaid(t.hold[h])
    <3> SUFFICES ASSUME NEW h \in Hold PROVE RowPaid(t.hold[h])
      OBVIOUS
    <3>1. t.hold[h] \in {r, NoHold}
      BY <1>6
    <3> QED BY <1>2, <1>3, <3>1
  <2>2. \A c \in Call : CallKept(t, c)
    BY <1>7 DEF CallKept, Open, Sent
  <2>3. CallsInOrder(t)
    BY <1>7 DEF CallsInOrder
  <2>4. StoppedOnce(t)
    BY <1>4 DEF StoppedOnce
  <2>5. Covers(t)
    <3> SUFFICES ASSUME NEW h \in Hold, t.hold[h].state = "held"
                 PROVE  SpentOn(t, h) <= t.hold[h].amount
      BY DEF Covers, HeldIn
    <3>1. CallsOn(t, h) = {}
      BY <1>7 DEF CallsOn
    <3>2. SpentOn(t, h) = 0
      BY <3>1, SumOfNothing DEF SpentOn
    <3>3. h = 1
      BY <1>3, <1>6
    <3> QED BY <1>1, <1>2, <1>6, <3>2, <3>3
  <2> QED BY <2>1, <2>2, <2>3, <2>4, <2>5 DEF RowsKept
<1>9. HeldSum(t) = Approved
  <2> DEFINE f == [h \in Hold |-> HeldOf(t.hold[h])]
  <2>1. f[1] = Approved /\ \A h \in Hold \ {1} : f[h] = 0
    BY <1>2, <1>3, <1>5, <1>6
  <2>2. HeldSum(t) = SumFunctionOnSet(f, Hold)
    BY DEF HeldSum
  <2> HIDE DEF f
  <2> QED BY <1>1, <2>1, <2>2, FirstAlone
<1>10. ActualSum(t) = 0
  <2> DEFINE f == [h \in Hold |-> t.hold[h].actual]
  <2>1. f[1] = 0 /\ \A h \in Hold \ {1} : f[h] = 0
    BY <1>2, <1>3, <1>5, <1>6
  <2>2. ActualSum(t) = SumFunctionOnSet(f, Hold)
    BY DEF ActualSum
  <2> HIDE DEF f
  <2> QED BY <2>1, <2>2, FirstAlone
<1>11. NetSum(t) = 0 - Approved
  <2> DEFINE f == [h \in Hold |-> NetOf(t.hold[h])]
             a == 0 - Approved
  <2>1. f[1] = a /\ (\A h \in Hold \ {1} : f[h] = 0) /\ a \in Int
    BY <1>1, <1>2, <1>3, <1>5, <1>6
  <2>2. NetSum(t) = SumFunctionOnSet(f, Hold)
    BY DEF NetSum
  <2> HIDE DEF f, a
  <2>3. SumFunctionOnSet(f, Hold) = a
    BY <2>1, FirstAlone
  <2> QED BY <2>2, <2>3 DEF a
<1>12. ChargeSum(t, {}) = 0 /\ NetChargeSum(t, {}) = 0
  <2> DEFINE f == [c \in Call |-> ChargeOf(t, c, {})]
             g == [c \in Call |-> NetCharge(t, c, {})]
  <2>1. \A c \in Call : f[c] = 0 /\ g[c] = 0
    BY <1>7 DEF ChargeOf, NetCharge
  <2>2. ChargeSum(t, {}) = SumFunctionOnSet(f, Call) /\ NetChargeSum(t, {}) = SumFunctionOnSet(g, Call)
    BY DEF ChargeSum, NetChargeSum
  <2> HIDE DEF f, g
  <2> QED BY <2>1, <2>2, RowsAreFinite, SumOfZeroes
<1>13. TopUpsOf(t) = 0
  BY <1>4, SumOfNothing DEF TopUpsOf
<1>14. Balanced(t, {})
  BY <1>4, <1>9, <1>10, <1>12 DEF Balanced
<1>15. CeilingsKept(t, {}, 0, 0)
  <2>1. Spare(t, {}) = Approved + 0 + (0 - Approved) - 0
    BY <1>11, <1>12, <1>13 DEF Spare
  <2>2. Committed(t) = Approved + 0
    BY <1>4 DEF Committed
  <2> QED BY <1>1, <1>4, <2>1, <2>2 DEF CeilingsKept
<1>16. CountHolds /\ count.amount = 0
  BY <1>4 DEF CountHolds, Uncounting
<1> QED BY <1>8, <1>14, <1>15, <1>16 DEF MoneyInv, MoneyKept, CeilingInv, t

\* Every step keeps the money and the ceilings.
LEMMA NextMoney ==
    ASSUME OrderInv, MoneyInv, CeilingInv, [Next]_vars
    PROVE  MoneyInv' /\ CeilingInv'
<1>1. CASE Works
  BY <1>1, PickUpMoney, PickUpReplacingMoney, ReserveCallMoney, LapseMoney, StartMoney,
     AnswerUnknownMoney, AnswerNothingMoney, PriceMoney DEF Works
<1>2. CASE Acts
  BY <1>2, DispatchMoney, ObserveMoney DEF Acts
<1>3. CASE Proves
  BY <1>3, ProveCallMoney, ProveAbsentMoney, ProvePresentMoney DEF Proves
<1>4. CASE Passes
  <2>1. CASE SweepCounted
    BY <2>1, UntouchedMoney DEF SweepCounted
  <2>2. CASE SweepLocked
    BY <2>2, UntouchedMoney DEF SweepLocked
  <2> QED BY <1>4, <2>1, <2>2, LoseWorkerMoney, ReplayMoney, SweepUnansweredMoney,
             SweepReleasesMoney DEF Passes
<1>5. CASE StopIsAnswered
  BY <1>5, CountForTopUpMoney, TopUpClosedMoney, CountForEndMoney, TopUpHeldMoney, EndHeldMoney,
     EndClosedMoney DEF StopIsAnswered
<1>6. CASE StepIsAnswered
  BY <1>6, SayHappenedMoney, SayNothingMoney, SayDifferentlyMoney, WriteOffMoney DEF StepIsAnswered
<1>7. CASE UNCHANGED vars
  BY <1>7, UntouchedMoney DEF vars
<1> QED BY <1>1, <1>2, <1>3, <1>4, <1>5, <1>6, <1>7 DEF Next

\* The money of the step's holds, calls and answers adds up, and stays within what
\* was approved, in every order of pickups, counts, sweeps, settlements and words.
THEOREM MoneyStaysKept == Spec => []BudgetInv
<1>1. Init => BudgetInv
  BY InitOrder, InitMoney DEF BudgetInv
<1>2. BudgetInv /\ [Next]_vars => BudgetInv'
  BY NextOrder, NextMoney DEF BudgetInv
<1> QED BY <1>1, <1>2, PTL DEF Spec

(***************************************************************************)
(* What the money's being kept says of the three properties.               *)
(***************************************************************************)

\* What the envelope carries of the calls of some holds, summed over every call.
LEMMA CarriedSum ==
    ASSUME OrderInv, NEW H \in SUBSET Hold
    PROVE  /\ CarriedOf(H) = SumFunctionOnSet(
                  [c \in Call |-> IF call[c].state # "none" /\ call[c].of \in H
                                  THEN Carried(call[c]) ELSE 0], Call)
           /\ CarriedOf(H) \in Nat
<1> DEFINE f == [c \in Call |-> Carried(call[c])]
           S == {c \in Call : call[c].state # "none" /\ call[c].of \in H}
           g == [c \in Call |-> IF call[c].state # "none" /\ call[c].of \in H
                                THEN Carried(call[c]) ELSE 0]
<1>1. \A c \in Call : f[c] \in Nat
  <2> SUFFICES ASSUME NEW c \in Call PROVE Carried(call[c]) \in Nat
    OBVIOUS
  <2>1. Carried(call[c]) \in 0 .. CallMax /\ CallMax \in Nat
    BY OrderIs, ChargesAre, SomePrices
  <2> QED BY <2>1
<1>2. S \in SUBSET Call
  OBVIOUS
<1>3. (\A c \in S : g[c] = f[c]) /\ \A c \in Call \ S : g[c] = 0
  OBVIOUS
<1>4. CarriedOf(H) = SumFunctionOnSet(f, S)
  BY DEF CarriedOf
<1> HIDE DEF f, S, g
<1>5. SumFunctionOnSet(g, Call) = SumFunctionOnSet(f, S)
  <2>1. \A c \in S : g[c] = f[c] /\ f[c] \in Int
    BY <1>1, <1>2, <1>3
  <2> QED BY <1>2, <1>3, <2>1, RowsAreFinite, SumOfChosen
<1>6. SumFunctionOnSet(f, S) \in Nat
  <2>1. IsFiniteSet(S) /\ \A c \in S : f[c] \in Nat
    BY <1>1, <1>2, RowsAreFinite, FS_Subset
  <2> QED BY <2>1, SumOfNaturals
<1> QED BY <1>4, <1>5, <1>6 DEF g

\* The amounts of some holds, summed over every hold.
LEMMA AmountSum ==
    ASSUME BudgetInv, NEW H \in SUBSET Hold
    PROVE  /\ SumFunctionOnSet([h \in Hold |-> hold[h].amount], H) \in Nat
           /\ SumFunctionOnSet([h \in Hold |-> hold[h].amount], H)
                = SumFunctionOnSet([h \in Hold |-> IF h \in H THEN hold[h].amount ELSE 0], Hold)
<1> DEFINE f == [h \in Hold |-> hold[h].amount]
           g == [h \in Hold |-> IF h \in H THEN hold[h].amount ELSE 0]
<1>1. \A h \in Hold : f[h] \in Nat
  BY OrderIs DEF BudgetInv, MoneyInv, MoneyKept, RowsKept, RowPaid
<1>2. (\A h \in H : g[h] = f[h]) /\ \A h \in Hold \ H : g[h] = 0
  OBVIOUS
<1>3. IsFiniteSet(H) /\ IsFiniteSet(Hold)
  BY RowsAreFinite, FS_Subset
<1> HIDE DEF f, g
<1>4. SumFunctionOnSet(g, Hold) = SumFunctionOnSet(f, H)
  <2>1. \A h \in H : g[h] = f[h] /\ f[h] \in Int
    BY <1>1, <1>2
  <2> QED BY <1>2, <1>3, <2>1, SumOfChosen
<1>5. SumFunctionOnSet(f, H) \in Nat
  <2>1. \A h \in H : f[h] \in Nat
    BY <1>1
  <2> QED BY <1>3, <2>1, SumOfNaturals
<1> QED BY <1>4, <1>5 DEF f, g

\* The envelope's totals are what the holds and the calls they moved come to.
LEMMA TotalsAre ==
    ASSUME BudgetInv
    PROVE  /\ envelope.held = SumFunctionOnSet([h \in Hold |-> hold[h].amount], HeldIn(Tables))
           /\ envelope.actual = SumFunctionOnSet([h \in Hold |-> hold[h].actual], Hold)
                                + CarriedOf({h \in Hold : Moved(h)})
           /\ envelope.held \in Nat /\ envelope.actual \in Nat
<1> DEFINE t == Tables
           H == HeldIn(Tables)
           M == {h \in Hold : Moved(h)}
           a == [h \in Hold |-> hold[h].actual]
<1>1. /\ OrderInv /\ t \in TablesType /\ t.hold = hold /\ t.call = call /\ t.envelope = envelope
      /\ RowsKept(t) /\ Balanced(t, {})
  BY OrderIs DEF BudgetInv, MoneyInv, MoneyKept
<1>2. envelope.held = HeldSum(t) /\ envelope.actual = ActualSum(t) + ChargeSum(t, {})
  BY <1>1 DEF Balanced
<1>3. H \in SUBSET Hold /\ M \in SUBSET Hold
  BY DEF HeldIn
<1>4. [h \in Hold |-> HeldOf(t.hold[h])] = [h \in Hold |-> IF h \in H THEN hold[h].amount ELSE 0]
  BY <1>1 DEF HeldOf, HeldIn
<1>5. HeldSum(t) = SumFunctionOnSet([h \in Hold |-> hold[h].amount], H)
  <2> HIDE DEF H, t
  <2> QED BY <1>3, <1>4, AmountSum DEF HeldSum
<1>6. [c \in Call |-> ChargeOf(t, c, {})]
        = [c \in Call |-> IF call[c].state # "none" /\ call[c].of \in M THEN Carried(call[c]) ELSE 0]
  <2> SUFFICES ASSUME NEW c \in Call
               PROVE  ChargeOf(t, c, {}) = IF call[c].state # "none" /\ call[c].of \in M
                                           THEN Carried(call[c]) ELSE 0
    OBVIOUS
  <2>1. call[c].of \in Hold
    BY <1>1, TablesAre DEF CallRow
  <2>2. MovedIn(t, call[c].of) <=> call[c].of \in M
    BY <1>1, <2>1 DEF MovedIn, Moved
  <2> QED BY <1>1, <2>2 DEF ChargeOf
<1>7. ChargeSum(t, {}) = CarriedOf(M) /\ CarriedOf(M) \in Nat
  <2> HIDE DEF M, t
  <2> QED BY <1>1, <1>3, <1>6, CarriedSum DEF ChargeSum
<1>8. ActualSum(t) = SumFunctionOnSet(a, Hold) /\ ActualSum(t) \in Nat
  <2>1. ActualSum(t) = SumFunctionOnSet(a, Hold)
    BY <1>1 DEF ActualSum
  <2>2. \A h \in Hold : a[h] \in Nat
    BY <1>1 DEF RowsKept, RowPaid
  <2> HIDE DEF a
  <2> QED BY <2>1, <2>2, RowsAreFinite, SumOfNaturals
<1>9. HeldSum(t) \in Nat
  <2> HIDE DEF H, t
  <2> QED BY <1>3, <1>5, AmountSum
<1> HIDE DEF t, H, M, a
<1> QED BY <1>2, <1>5, <1>7, <1>8, <1>9 DEF H, M, a

\* Every row is of its type, and nothing is below zero.
LEMMA BudgetTyped ==
    ASSUME BudgetInv
    PROVE  TypeOK
<1>1. /\ OrderInv /\ Tables \in TablesType /\ Tables.hold = hold /\ Tables.call = call
      /\ Tables.asks = asks /\ Tables.run = run /\ Tables.envelope = envelope
      /\ RowsKept(Tables) /\ CountHolds /\ CountType /\ CeilingInv
  BY OrderIs DEF BudgetInv, MoneyInv, MoneyKept, OrderInv
<1>2. hold \in [Hold -> HoldRow]
  <2>1. hold \in [Hold -> LooseRow]
    BY <1>1, TablesAre
  <2>2. \A h \in Hold : hold[h] \in HoldRow
    <3> SUFFICES ASSUME NEW h \in Hold PROVE hold[h] \in HoldRow
      OBVIOUS
    <3>1. hold[h] \in LooseRow /\ hold[h].amount \in Nat /\ hold[h].actual \in Nat
      BY <1>1, <2>1 DEF RowsKept, RowPaid
    <3> QED BY <3>1 DEF HoldRow, LooseRow
  <2> QED BY <2>1, <2>2
<1>3. call \in [Call -> CallRow] /\ asks \in Seq(AskRow)
      /\ run \in {"planned", "claimed", "waiting", "cancelled"}
  BY <1>1, TablesAre
<1>4. envelope.held \in Nat /\ envelope.actual \in Nat /\ envelope.maximum \in Nat
  <2>1. envelope.held \in Nat /\ envelope.actual \in Nat
    BY TotalsAre
  <2>2. envelope.maximum \in Int
    BY <1>1, SumsAre
  <2>3. envelope.held + envelope.actual <= envelope.maximum
    BY <1>1 DEF CeilingInv, CeilingsKept, Committed
  <2> QED BY <2>1, <2>2, <2>3
<1>5. count.spent \in Nat
  <2>1. CASE count.kind = "none"
    BY <1>1, <2>1 DEF CountType, Uncounting
  <2>2. CASE count.kind # "none"
    <3> DEFINE f == [c \in Call |-> CountedSpend(c)]
               S == CallsOn(Tables, count.of)
    <3>1. count.spent = SumFunctionOnSet(f, S) /\ count.of \in Hold
      BY <1>1, <2>2 DEF CountHolds, CountType
    <3>2. S \in SUBSET Call /\ IsFiniteSet(S)
      BY <1>1, <3>1, CallsCostNat
    <3>3. \A c \in Call : f[c] \in Nat
      <4> SUFFICES ASSUME NEW c \in Call PROVE CountedSpend(c) \in Nat
        OBVIOUS
      <4>1. CallSpend(call[c]) \in 0 .. CallMax /\ CallMax \in Nat
        BY <1>1, ChargesAre, SomePrices
      <4> QED BY <4>1 DEF CountedSpend
    <3> HIDE DEF f, S
    <3>4. \A c \in S : f[c] \in Nat
      BY <3>2, <3>3
    <3> QED BY <3>1, <3>2, <3>4, SumOfNaturals
  <2> QED BY <2>1, <2>2
<1>6. /\ count.kind \in {"none", "top_up", "end"} /\ count.of \in Hold /\ count.unsent \subseteq Call
      /\ sweep.counted \subseteq Call /\ sweep.locked \subseteq Call
  BY <1>1 DEF CountType
<1> QED BY <1>2, <1>3, <1>4, <1>5, <1>6 DEF TypeOK

\* What is left of the approval is what the property says of the spend.
LEMMA ApprovedCovers ==
    ASSUME BudgetInv
    PROVE  SpendIsApproved
<1> DEFINE t == Tables
           A == {h \in Hold : hold[h].word = "differently" \/ hold[h].absent}
           R == {h \in A : Moved(h)}
           held == [h \in Hold |-> HeldOf(t.hold[h])]
           spent == [h \in Hold |-> t.hold[h].actual]
           net == [h \in Hold |-> NetOf(t.hold[h])]
           both == [h \in Hold |-> held[h] + spent[h]]
           again == [h \in Hold |-> IF h \in A THEN hold[h].amount ELSE 0]
           charge == [c \in Call |-> ChargeOf(t, c, {})]
           beside == [c \in Call |-> NetCharge(t, c, {})]
           carried == [c \in Call |-> IF call[c].state # "none" /\ call[c].of \in R
                                      THEN Carried(call[c]) ELSE 0]
<1>1. /\ OrderInv /\ t \in TablesType /\ t.hold = hold /\ t.call = call /\ t.envelope = envelope
      /\ RowsKept(t) /\ Balanced(t, {}) /\ CeilingsKept(t, {}, 0, count.amount)
      /\ count.amount \in Nat
  BY OrderIs DEF BudgetInv, MoneyInv, MoneyKept, CeilingInv, OrderInv, CountType
<1>2. \A h \in Hold : /\ held[h] \in Int /\ spent[h] \in Int /\ net[h] \in Int /\ both[h] \in Int
                      /\ again[h] = both[h] + net[h]
  <2> SUFFICES ASSUME NEW h \in Hold
               PROVE  /\ held[h] \in Int /\ spent[h] \in Int /\ net[h] \in Int /\ both[h] \in Int
                      /\ again[h] = both[h] + net[h]
    OBVIOUS
  <2> DEFINE o == t.hold[h]
  <2>1. o.amount \in Int /\ o.actual \in Int /\ HeldOf(o) \in Int /\ NetOf(o) \in Int
    <3>1. o \in LooseRow
      BY <1>1, TablesAre
    <3> HIDE DEF o
    <3> QED BY <3>1, HoldsAdd
  <2>2. again[h] = IF Again(o) THEN o.amount ELSE 0
    BY <1>1 DEF Again
  <2>3. NetOf(o) = (IF Again(o) THEN o.amount ELSE 0) - HeldOf(o) - o.actual
    BY DEF NetOf
  <2>4. held[h] = HeldOf(o) /\ spent[h] = o.actual /\ net[h] = NetOf(o)
        /\ both[h] = HeldOf(o) + o.actual
    OBVIOUS
  <2> HIDE DEF o, again, held, spent, net, both
  <2> QED BY <2>1, <2>2, <2>3, <2>4
<1>3. \A c \in Call : /\ beside[c] \in Int /\ carried[c] \in Int
                      /\ charge[c] = beside[c] + carried[c]
  <2> SUFFICES ASSUME NEW c \in Call
               PROVE  /\ beside[c] \in Int /\ carried[c] \in Int
                      /\ charge[c] = beside[c] + carried[c]
    OBVIOUS
  <2>1. /\ ChargeOf(t, c, {}) \in Nat /\ NetCharge(t, c, {}) \in Nat
        /\ Carried(t.call[c]) \in 0 .. CallMax
    BY <1>1, ChargesAre
  <2>2. call[c].of \in Hold
    BY <1>1, TablesAre DEF CallRow
  <2>3. call[c].of \in R <=> Again(t.hold[call[c].of]) /\ MovedIn(t, call[c].of)
    BY <1>1, <2>2 DEF Again, MovedIn, Moved
  <2>4. carried[c] = IF Again(t.hold[call[c].of]) THEN ChargeOf(t, c, {}) ELSE 0
    BY <1>1, <2>3 DEF ChargeOf
  <2>5. NetCharge(t, c, {}) = IF Again(t.hold[call[c].of]) THEN 0 ELSE ChargeOf(t, c, {})
    BY <1>1 DEF NetCharge
  <2>6. charge[c] = ChargeOf(t, c, {}) /\ beside[c] = NetCharge(t, c, {})
    OBVIOUS
  <2> HIDE DEF charge, beside, carried
  <2> QED BY <2>1, <2>4, <2>5, <2>6
<1>4. A \in SUBSET Hold /\ R \in SUBSET Hold
  OBVIOUS
<1>5. /\ HeldSum(t) = SumFunctionOnSet(held, Hold) /\ ActualSum(t) = SumFunctionOnSet(spent, Hold)
      /\ NetSum(t) = SumFunctionOnSet(net, Hold) /\ ChargeSum(t, {}) = SumFunctionOnSet(charge, Call)
      /\ NetChargeSum(t, {}) = SumFunctionOnSet(beside, Call)
  BY DEF HeldSum, ActualSum, NetSum, ChargeSum, NetChargeSum
<1>6. Reopened = SumFunctionOnSet([h \in Hold |-> hold[h].amount], A) + CarriedOf(R)
  BY DEF Reopened
<1>7. /\ SumFunctionOnSet([h \in Hold |-> hold[h].amount], A) = SumFunctionOnSet(again, Hold)
      /\ SumFunctionOnSet([h \in Hold |-> hold[h].amount], A) \in Nat
  <2> HIDE DEF A
  <2> QED BY <1>4, AmountSum
<1>8. CarriedOf(R) = SumFunctionOnSet(carried, Call) /\ CarriedOf(R) \in Nat
  <2> HIDE DEF R
  <2> QED BY <1>1, <1>4, CarriedSum
<1>9. \A h \in Hold : both[h] = held[h] + spent[h]
  OBVIOUS
<1> HIDE DEF A, R, held, spent, net, both, again, charge, beside, carried
<1>10. /\ SumFunctionOnSet(both, Hold) = SumFunctionOnSet(held, Hold) + SumFunctionOnSet(spent, Hold)
       /\ SumFunctionOnSet(again, Hold) = SumFunctionOnSet(both, Hold) + SumFunctionOnSet(net, Hold)
  <2>1. \A h \in Hold : held[h] \in Int /\ spent[h] \in Int /\ both[h] = held[h] + spent[h]
    BY <1>2, <1>9
  <2>2. \A h \in Hold : both[h] \in Int /\ net[h] \in Int /\ again[h] = both[h] + net[h]
    BY <1>2
  <2>3. SumFunctionOnSet(both, Hold) = SumFunctionOnSet(held, Hold) + SumFunctionOnSet(spent, Hold)
    BY <2>1, RowsAreFinite, SumOfSums
  <2>4. SumFunctionOnSet(again, Hold) = SumFunctionOnSet(both, Hold) + SumFunctionOnSet(net, Hold)
    BY <2>2, RowsAreFinite, SumOfSums
  <2> QED BY <2>3, <2>4
<1>11. SumFunctionOnSet(charge, Call) = SumFunctionOnSet(beside, Call) + SumFunctionOnSet(carried, Call)
  BY <1>3, RowsAreFinite, SumOfSums
<1>12. /\ HeldSum(t) \in Int /\ ActualSum(t) \in Int /\ NetSum(t) \in Int
       /\ ChargeSum(t, {}) \in Nat /\ NetChargeSum(t, {}) \in Nat
       /\ TopUpsOf(t) \in Nat /\ Approved \in Nat
       /\ envelope.held \in Int /\ envelope.actual \in Int /\ envelope.maximum \in Int
  <2> HIDE DEF t
  <2> QED BY <1>1, SumsAre
<1>13. /\ envelope.held = HeldSum(t) /\ envelope.actual = ActualSum(t) + ChargeSum(t, {})
       /\ Approved + TopUpsOf(t) + NetSum(t) - NetChargeSum(t, {}) >= 0
       /\ envelope.held + envelope.actual <= envelope.maximum
       /\ envelope.held + envelope.actual + count.amount <= Cap
  BY <1>1 DEF Balanced, CeilingsKept, Spare, Committed
<1> DEFINE reopened == SumFunctionOnSet(again, Hold) + SumFunctionOnSet(carried, Call)
<1>14. Reopened = reopened
  BY <1>6, <1>7, <1>8
<1>15. SumFunctionOnSet(again, Hold) \in Int /\ SumFunctionOnSet(carried, Call) \in Int
  BY <1>7, <1>8
<1>16. envelope.held + envelope.actual <= Approved + TopUpsOf(t) + reopened
  <2> HIDE DEF t
  <2> QED BY <1>5, <1>10, <1>11, <1>12, <1>13, <1>15
<1>17. envelope.held + envelope.actual <= Cap
  <2>1. Cap \in Nat
    BY SomePrices
  <2> QED BY <1>1, <1>12, <1>13, <2>1
<1> HIDE DEF reopened
<1> QED BY <1>13, <1>14, <1>16, <1>17 DEF SpendIsApproved

\* The envelope holds exactly its held holds, and has spent exactly what its closed
\* holds closed at and what the counted calls carry: nothing is given back twice, or
\* left behind, whoever ends the call (broker-give-back.ts).
THEOREM EnvelopeStaysBalanced == Spec => []EnvelopeBalances
<1>1. BudgetInv => EnvelopeBalances
  BY BudgetTyped, TotalsAre DEF EnvelopeBalances
<1> QED BY <1>1, MoneyStaysKept, PTL

\* The version's holds and spend stay within its approved ceiling, a person's top-ups
\* and what a word reopened, and within the envelope and the cap, however often the
\* run stops, lapses and is picked up (budget-answer.ts, versionRoom).
THEOREM SpendStaysApproved == Spec => []SpendIsApproved
<1>1. BudgetInv => SpendIsApproved
  BY ApprovedCovers
<1> QED BY <1>1, MoneyStaysKept, PTL

\* A held hold covers what its calls may still cost, or a count moved them to the
\* envelope: no call is charged to nothing (broker-facts.ts committedMinor).
THEOREM HoldsCoverTheirCalls == Spec => []HeldCoversCalls
<1>1. BudgetInv => HeldCoversCalls
  BY OrderIs DEF BudgetInv, MoneyInv, MoneyKept, RowsKept, Covers, HeldCoversCalls, Moved, MovedIn
<1> QED BY <1>1, MoneyStaysKept, PTL
=============================================================================
