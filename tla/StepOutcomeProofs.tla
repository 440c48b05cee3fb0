------------------------- MODULE StepOutcomeProofs -------------------------
(***************************************************************************)
(* Proofs about the outcome of one step: its invariant, and the properties *)
(* of its holds, its effect and its answers.                               *)
(***************************************************************************)
EXTENDS StepInvariant, SumLemmas

(***************************************************************************)
(* One row of the tables.                                                  *)
(***************************************************************************)

\* What no transaction takes back: a closed hold's charge, a word, an outcome, a
\* settlement, that a call was lost; and what none but a dispatch marks without a
\* loss.
Steps(r, s) ==
    /\ r.hold \in {"actual", "abandoned"} => s.hold = r.hold /\ s.actual = r.actual
    /\ r.word # "none" => s.word = r.word
    /\ r.outcome # "none" => s.outcome = r.outcome
    /\ r.state = "settled" => s.state = "settled"
    /\ r.lost => s.lost
    /\ s.marked => r.marked \/ (s.lost /\ ~ r.lost)

\* And what none but a claim gives a live lease.
Goes(r, s) ==
    /\ Steps(r, s)
    /\ s.lease \in {"live", "lapsed"} => r.lease \in {"live", "lapsed"}

\* A row that stays of its kind, written, and past if it was.
Stays(r, s) ==
    /\ s \in Row /\ RowKept(s) /\ s.state # "none"
    /\ Past(r) => Past(s)

\* What its closing leaves of an attempt: its work, its lease and its answers.
SameWork(r, s) ==
    /\ s.amount = r.amount /\ s.marked = r.marked /\ s.observed = r.observed
    /\ s.absent = r.absent /\ s.drop = r.drop /\ s.lease = r.lease /\ s.worker = r.worker
    /\ s.note = r.note /\ s.call = r.call /\ s.lost = r.lost /\ s.word = r.word

HeldOf(r) == IF r.hold = "held" THEN r.amount ELSE 0

\* The tables with one row rewritten, and the envelope with it.
WithRow(t, a, s, now) ==
    [att |-> [t.att EXCEPT ![a] = s], run |-> now,
     envelope |-> [held |-> t.envelope.held - HeldOf(t.att[a]) + HeldOf(s),
                   actual |-> t.envelope.actual - t.att[a].actual + s.actual]]

Moving(t, u) == \A a \in Attempt : Goes(t.att[a], u.att[a])

\* There are finitely many attempts to count and to sum over.
LEMMA AttemptsAreFinite == IsFiniteSet(Attempt)
  BY SomeAttempts, FS_Interval DEF Attempt

\* Rewriting one row keeps the invariant if the row stays.
LEMMA WithRowKeeps ==
    ASSUME NEW t, StepKept(t), NEW a \in Attempt, t.att[a].state # "none"
    PROVE  \A s \in Row, now \in RunStates :
               Stays(t.att[a], s) => StepKept(WithRow(t, a, s, now))
<1> SUFFICES ASSUME NEW s \in Row, NEW now \in RunStates, Stays(t.att[a], s)
             PROVE  StepKept(WithRow(t, a, s, now))
  OBVIOUS
<1> DEFINE u == WithRow(t, a, s, now)
<1>1. t \in TablesType /\ t.att \in [Attempt -> Row]
  BY DEF StepKept, TablesType
<1>2. u.att = [t.att EXCEPT ![a] = s] /\ u.run = now
  BY DEF WithRow
<1>3. u.att \in [Attempt -> Row] /\ u.att[a] = s /\ \A b \in Attempt \ {a} : u.att[b] = t.att[b]
  BY <1>1, <1>2
<1>4. Written(u) = Written(t) /\ a \in Written(t)
  BY <1>3 DEF Written, Stays
<1>5. Newest(u) = Newest(t) /\ InOrder(u)
  BY <1>4 DEF Newest, InOrder, StepKept
<1>6. ASSUME NEW b \in Attempt
      PROVE  RowKept(u.att[b])
  BY <1>3 DEF StepKept, Stays
<1>7. ASSUME NEW b \in Written(u), b # Newest(u)
      PROVE  Past(u.att[b])
  <2>1. Past(t.att[b]) /\ b \in Attempt
    BY <1>4, <1>5, <1>7 DEF StepKept, Written
  <2> QED BY <1>3, <2>1 DEF Stays
<1>8. \A b \in Attempt : /\ t.att[b].amount \in Nat /\ t.att[b].actual \in Nat
                         /\ u.att[b].amount \in Nat /\ u.att[b].actual \in Nat
  BY <1>1, <1>3 DEF Row
<1> DEFINE am == [b \in Attempt |-> t.att[b].amount]
           an == [b \in Attempt |-> u.att[b].amount]
           cm == [b \in Attempt |-> t.att[b].actual]
           cn == [b \in Attempt |-> u.att[b].actual]
<1>9. u.envelope.held = t.envelope.held - HeldOf(t.att[a]) + HeldOf(s)
      /\ u.envelope.actual = t.envelope.actual - t.att[a].actual + s.actual
      /\ u.envelope = [held |-> u.envelope.held, actual |-> u.envelope.actual]
      /\ u = [att |-> u.att, run |-> u.run, envelope |-> u.envelope]
  BY DEF WithRow
<1>10. u.envelope.held = SumFunctionOnSet(an, Held(u))
  <2>1. \A b \in Attempt : am[b] \in Int /\ an[b] \in Int
    BY <1>8
  <2>2. \A b \in Attempt : b # a => am[b] = an[b]
    BY <1>3
  <2>3. Held(t) \ {a} = Held(u) \ {a} /\ Held(t) \in SUBSET Attempt /\ Held(u) \in SUBSET Attempt
    BY <1>3 DEF Held
  <2>4. SumFunctionOnSet(am, Held(t)) - (IF a \in Held(t) THEN am[a] ELSE 0)
        = SumFunctionOnSet(an, Held(u)) - (IF a \in Held(u) THEN an[a] ELSE 0)
    <3> HIDE DEF am, an, u
    <3> QED BY <2>1, <2>2, <2>3, AttemptsAreFinite, SumBeside
  <2>5. (IF a \in Held(t) THEN am[a] ELSE 0) = HeldOf(t.att[a])
        /\ (IF a \in Held(u) THEN an[a] ELSE 0) = HeldOf(s)
    BY <1>3 DEF Held, HeldOf
  <2>6. SumFunctionOnSet(am, Held(t)) = t.envelope.held
    BY DEF StepKept, Balanced
  <2>7. SumFunctionOnSet(an, Held(u)) \in Int /\ SumFunctionOnSet(am, Held(t)) \in Int
    <3>1. IsFiniteSet(Held(t)) /\ IsFiniteSet(Held(u))
      BY <2>3, AttemptsAreFinite, FS_Subset
    <3> HIDE DEF am, an, u
    <3> QED BY <2>1, <2>3, <3>1, SumType
  <2>8. HeldOf(t.att[a]) \in Int /\ HeldOf(s) \in Int
    BY <1>3, <1>8 DEF HeldOf
  <2> HIDE DEF am, an, u
  <2> QED BY <1>9, <2>4, <2>5, <2>6, <2>7, <2>8
<1>11. u.envelope.actual = SumFunctionOnSet(cn, Attempt)
  <2>1. \A b \in Attempt : cm[b] \in Int /\ cn[b] \in Int
    BY <1>8
  <2>2. \A b \in Attempt : b # a => cm[b] = cn[b]
    BY <1>3
  <2>4. SumFunctionOnSet(cm, Attempt) - (IF a \in Attempt THEN cm[a] ELSE 0)
        = SumFunctionOnSet(cn, Attempt) - (IF a \in Attempt THEN cn[a] ELSE 0)
    <3> HIDE DEF cm, cn, u
    <3> QED BY <2>1, <2>2, AttemptsAreFinite, SumBeside
  <2>5. cm[a] = t.att[a].actual /\ cn[a] = s.actual
    BY <1>3
  <2>6. SumFunctionOnSet(cm, Attempt) = t.envelope.actual
    BY DEF StepKept, Balanced
  <2>7. SumFunctionOnSet(cn, Attempt) \in Int /\ SumFunctionOnSet(cm, Attempt) \in Int
    <3> HIDE DEF cm, cn, u
    <3> QED BY <2>1, AttemptsAreFinite, SumType
  <2>8. t.att[a].actual \in Int /\ s.actual \in Int
    BY <1>3, <1>8
  <2> HIDE DEF cm, cn, u
  <2> QED BY <1>9, <2>4, <2>5, <2>6, <2>7, <2>8
<1>12. u.envelope.held \in Nat /\ u.envelope.actual \in Nat
  <2>1. IsFiniteSet(Held(u)) /\ Held(u) \in SUBSET Attempt
    BY AttemptsAreFinite, FS_Subset DEF Held
  <2>2. \A b \in Attempt : an[b] \in Nat /\ cn[b] \in Nat
    BY <1>8
  <2> HIDE DEF an, cn, u
  <2> QED BY <1>10, <1>11, <2>1, <2>2, AttemptsAreFinite, SumOfNaturals
<1>13. u.envelope \in [held : Nat, actual : Nat]
  BY <1>9, <1>12
<1>14. u \in TablesType
  BY <1>2, <1>3, <1>9, <1>13 DEF TablesType
<1>15. Balanced(u)
  BY <1>10, <1>11 DEF Balanced
<1>16. \A b \in Written(u) : b # Newest(u) => Past(u.att[b])
  BY <1>7
<1> HIDE DEF u
<1>17. StepKept(u)
  BY <1>5, <1>6, <1>14, <1>15, <1>16, Zenon DEF StepKept
<1> QED BY <1>17 DEF u

\* The rows of the kept tables.
LEMMA RowsOfKept ==
    ASSUME NEW t, StepKept(t), NEW a \in Attempt
    PROVE  /\ t.att[a] \in Row /\ RowKept(t.att[a])
           /\ t.att \in [Attempt -> Row] /\ t.run \in RunStates
           /\ t.envelope.held \in Nat /\ t.envelope.actual \in Nat
           /\ t = [att |-> t.att, run |-> t.run, envelope |-> t.envelope]
           /\ t.envelope = [held |-> t.envelope.held, actual |-> t.envelope.actual]
           /\ t \in TablesType
  BY DEF StepKept, TablesType

\* What moves one row moves the tables.
LEMMA WithRowMoves ==
    ASSUME NEW t, StepKept(t), NEW a \in Attempt
    PROVE  \A s, now : Goes(t.att[a], s) => Moving(t, WithRow(t, a, s, now))
<1> SUFFICES ASSUME NEW s, NEW now, Goes(t.att[a], s), NEW b \in Attempt
             PROVE  Goes(t.att[b], WithRow(t, a, s, now).att[b])
  BY DEF Moving
<1>1. t.att \in [Attempt -> Row]
  BY RowsOfKept
<1>2. WithRow(t, a, s, now).att[b] = IF b = a THEN s ELSE t.att[b]
  BY <1>1 DEF WithRow
<1> QED BY <1>2 DEF Goes, Steps

\* What no transaction takes back is not taken back by two.
LEMMA MovingOn ==
    ASSUME NEW t, NEW u, NEW w, Moving(t, u), Moving(u, w)
    PROVE  Moving(t, w)
<1> SUFFICES ASSUME NEW a \in Attempt
             PROVE  Goes(t.att[a], w.att[a])
  BY DEF Moving
<1>1. Goes(t.att[a], u.att[a]) /\ Goes(u.att[a], w.att[a])
  BY DEF Moving
<1> QED BY <1>1 DEF Goes, Steps

\* An attempt that is not past is the newest, and every other is past.
LEMMA OthersArePast ==
    ASSUME NEW t, StepKept(t), NEW a \in Written(t), ~ Past(t.att[a])
    PROVE  a = Newest(t) /\ \A b \in Written(t) \ {a} : Past(t.att[b])
  BY DEF StepKept

(***************************************************************************)
(* A new reservation.                                                      *)
(***************************************************************************)
LEMMA FreshRow ==
    \A amount \in 1 .. Amount :
        /\ Fresh(amount) \in Row /\ RowKept(Fresh(amount))
        /\ Fresh(amount).hold = "held" /\ Fresh(amount).state = "reserved"
        /\ Fresh(amount).amount = amount /\ Fresh(amount).actual = 0
        /\ Fresh(amount).lease = "none" /\ Fresh(amount).note = "none"
        /\ ~ Fresh(amount).marked /\ ~ Fresh(amount).absent
<1> SUFFICES ASSUME NEW amount \in 1 .. Amount
             PROVE  /\ Fresh(amount) \in Row /\ RowKept(Fresh(amount))
                    /\ Fresh(amount).hold = "held" /\ Fresh(amount).state = "reserved"
                    /\ Fresh(amount).amount = amount /\ Fresh(amount).actual = 0
                    /\ Fresh(amount).lease = "none" /\ Fresh(amount).note = "none"
                    /\ ~ Fresh(amount).marked /\ ~ Fresh(amount).absent
  OBVIOUS
<1>1. amount \in 0 .. Amount /\ amount > 0
  BY SomeMoney
<1>2. Fresh(amount) \in Row
  BY <1>1 DEF Fresh, Unwritten, Row
<1>3. RowKept(Fresh(amount))
  BY <1>1 DEF Fresh, Unwritten, RowKept, RowOpen, RowLeased, RowMarked, RowAnswered, LeaseLive
<1> QED BY <1>2, <1>3 DEF Fresh, Unwritten

\* A reservation for the step, when every attempt is past, keeps the invariant.
LEMMA ReservedKeeps ==
    ASSUME NEW t, StepKept(t), \A b \in Written(t) : Past(t.att[b]), Numbered(t)
    PROVE  \A amount \in 1 .. Amount :
               /\ StepKept(Reserved(t, amount)) /\ Moving(t, Reserved(t, amount))
               /\ Reserved(t, amount).att[NextNumber(t)] = Fresh(amount)
               /\ Reserved(t, amount).run = t.run
               /\ \A b \in Attempt \ {NextNumber(t)} : Reserved(t, amount).att[b] = t.att[b]
               /\ NextNumber(t) = Newest(Reserved(t, amount))
<1> SUFFICES ASSUME NEW amount \in 1 .. Amount
             PROVE  /\ StepKept(Reserved(t, amount)) /\ Moving(t, Reserved(t, amount))
                    /\ Reserved(t, amount).att[NextNumber(t)] = Fresh(amount)
                    /\ Reserved(t, amount).run = t.run
                    /\ \A b \in Attempt \ {NextNumber(t)} : Reserved(t, amount).att[b] = t.att[b]
                    /\ NextNumber(t) = Newest(Reserved(t, amount))
  OBVIOUS
<1> DEFINE u == Reserved(t, amount)
           n == NextNumber(t)
<1>1. n = Newest(t) + 1 /\ n \in Attempt /\ Newest(t) \in Attempt /\ Written(t) = 1 .. Newest(t)
  BY DEF NextNumber, Numbered, Newest, StepKept, InOrder
<1>2. n \in Nat \ {0} /\ Newest(t) \in Nat \ {0} /\ n \notin Written(t)
  BY <1>1, SomeAttempts DEF Attempt
<1>3. t.att \in [Attempt -> Row] /\ t.run \in RunStates
      /\ t.envelope.held \in Nat /\ t.envelope.actual \in Nat
      /\ t = [att |-> t.att, run |-> t.run, envelope |-> t.envelope]
      /\ t.envelope = [held |-> t.envelope.held, actual |-> t.envelope.actual]
  BY <1>1, RowsOfKept
<1>4. /\ u.att = [t.att EXCEPT ![n] = Fresh(amount)] /\ u.run = t.run
      /\ u.envelope = [held |-> t.envelope.held + amount, actual |-> t.envelope.actual]
      /\ u = [att |-> u.att, run |-> u.run, envelope |-> u.envelope]
  <2>1. u = [t EXCEPT !.att[n] = Fresh(amount), !.envelope.held = @ + amount]
    BY DEF Reserved
  <2>2. t = [att |-> t.att, run |-> t.run, envelope |-> t.envelope]
    BY <1>3
  <2> HIDE DEF n, u
  <2>3. u.att = [t.att EXCEPT ![n] = Fresh(amount)] /\ u.run = t.run
    BY <2>1, <2>2
  <2>4. u.envelope = [t.envelope EXCEPT !.held = @ + amount]
        /\ u = [att |-> u.att, run |-> u.run, envelope |-> u.envelope]
    BY <2>1, <2>2
  <2> QED BY <1>3, <2>3, <2>4
<1>5. u.att[n] = Fresh(amount) /\ \A b \in Attempt \ {n} : u.att[b] = t.att[b]
  BY <1>1, <1>3, <1>4
<1>6. Fresh(amount) \in Row /\ RowKept(Fresh(amount)) /\ Fresh(amount).hold = "held"
      /\ Fresh(amount).state = "reserved" /\ Fresh(amount).amount = amount
      /\ Fresh(amount).actual = 0 /\ ~ Fresh(amount).marked
  BY FreshRow
<1>7. t.att[n] = Unwritten
  <2>1. t.att[n].state = "none" /\ RowKept(t.att[n])
    BY <1>1, <1>2, RowsOfKept DEF Written
  <2> QED BY <2>1 DEF RowKept, RowOpen
<1>8. u.att \in [Attempt -> Row]
  BY <1>1, <1>3, <1>4, <1>6
<1>9. Written(u) = Written(t) \cup {n} /\ Held(u) = Held(t) \cup {n} /\ n \notin Held(t)
  BY <1>1, <1>5, <1>6, <1>7 DEF Written, Held, Unwritten
<1>10. Written(u) = 1 .. n
  BY <1>1, <1>2, <1>9
<1>11. Newest(u) = n
  <2>1. Cardinality(1 .. n) = n
    BY <1>2, FS_Interval
  <2> QED BY <1>10, <2>1 DEF Newest
<1>12. InOrder(u)
  BY <1>1, <1>10, <1>11 DEF InOrder
<1>13. \A b \in Attempt : RowKept(u.att[b])
  <2> TAKE b \in Attempt
  <2> QED BY <1>5, <1>6, RowsOfKept
<1>14. \A b \in Written(u) : b # Newest(u) => Past(u.att[b])
  <2> SUFFICES ASSUME NEW b \in Written(u), b # n PROVE Past(u.att[b])
    BY <1>11
  <2>1. b \in Written(t) /\ b \in Attempt
    BY <1>9 DEF Written
  <2> QED BY <1>5, <2>1
<1> DEFINE am == [b \in Attempt |-> t.att[b].amount]
           an == [b \in Attempt |-> u.att[b].amount]
           cm == [b \in Attempt |-> t.att[b].actual]
           cn == [b \in Attempt |-> u.att[b].actual]
<1>15. \A b \in Attempt : am[b] \in Nat /\ an[b] \in Nat /\ cm[b] \in Nat /\ cn[b] \in Nat
  BY <1>3, <1>8 DEF Row
<1>16. IsFiniteSet(Held(t)) /\ Held(t) \in SUBSET Attempt
  BY AttemptsAreFinite, FS_Subset DEF Held
<1>17. u.envelope.held = SumFunctionOnSet(an, Held(u))
  <2>1. \A b \in Held(t) : am[b] = an[b]
    BY <1>5, <1>9, <1>16
  <2>2. SumFunctionOnSet(am, Held(t)) = t.envelope.held
    BY DEF StepKept, Balanced
  <2>3. an[n] = amount
    BY <1>1, <1>5, <1>6
  <2>4. \A b \in Held(t) \cup {n} : an[b] \in Int
    BY <1>1, <1>15, <1>16
  <2>5. u.envelope.held = t.envelope.held + amount
    BY <1>4
  <2>6. SumFunctionOnSet(am, Held(t)) = SumFunctionOnSet(an, Held(t))
    <3> HIDE DEF am, an, u, n
    <3> QED BY <1>16, <2>1, SumSame
  <2>7. SumFunctionOnSet(an, Held(t) \cup {n}) = SumFunctionOnSet(an, Held(t)) + an[n]
    <3> HIDE DEF am, an, u, n
    <3> QED BY <1>9, <1>16, <2>4, SumWith
  <2> HIDE DEF am, an, u, n
  <2> QED BY <1>9, <2>2, <2>3, <2>5, <2>6, <2>7
<1>18. u.envelope.actual = SumFunctionOnSet(cn, Attempt)
  <2>1. \A b \in Attempt : cm[b] = cn[b]
    <3> TAKE b \in Attempt
    <3>1. CASE b = n
      BY <1>5, <1>6, <1>7, <3>1 DEF Unwritten
    <3> QED BY <1>5, <3>1
  <2>2. SumFunctionOnSet(cm, Attempt) = t.envelope.actual
    BY DEF StepKept, Balanced
  <2>3. SumFunctionOnSet(cm, Attempt) = SumFunctionOnSet(cn, Attempt)
    <3> HIDE DEF cm, cn, u, n
    <3> QED BY <2>1, AttemptsAreFinite, SumSame
  <2>4. u.envelope.actual = t.envelope.actual
    BY <1>4
  <2> HIDE DEF cm, cn, u, n
  <2> QED BY <2>2, <2>3, <2>4
<1>19. u \in TablesType
  <2>1. u.envelope \in [held : Nat, actual : Nat]
    BY <1>3, <1>4
  <2> HIDE DEF u, n
  <2> QED BY <1>3, <1>4, <1>8, <2>1 DEF TablesType
<1>20. Balanced(u)
  BY <1>17, <1>18 DEF Balanced
<1>21. Moving(t, u)
  <2> SUFFICES ASSUME NEW b \in Attempt PROVE Goes(t.att[b], u.att[b])
    BY DEF Moving
  <2>1. CASE b = n
    BY <1>5, <1>6, <1>7, <2>1, FreshRow DEF Goes, Steps, Unwritten
  <2>2. CASE b # n
    BY <1>5, <2>2 DEF Goes, Steps
  <2> QED BY <2>1, <2>2
<1> HIDE DEF u, n
<1>22. StepKept(u)
  BY <1>12, <1>13, <1>14, <1>19, <1>20, Zenon DEF StepKept
<1> QED BY <1>4, <1>5, <1>11, <1>21, <1>22 DEF u, n

(***************************************************************************)
(* The helpers, as what they make of one row.                              *)
(***************************************************************************)
Causes == {"none", "stopped", "outcome_recorded", "written_off"}

ClosedRow(r, cause, charge, records) ==
    [r EXCEPT !.hold = IF charge > 0 THEN "actual" ELSE "abandoned",
              !.actual = charge,
              !.cause = IF charge = 0 \/ records THEN cause ELSE "none"]

SettledRow(r, spent, outcome) ==
    [ClosedRow(r, "none", spent, FALSE) EXCEPT !.state = "settled", !.outcome = outcome]

ReleasedRow(r) ==
    [ClosedRow(r, "outcome_recorded", CallsSpent(r), FALSE)
        EXCEPT !.state = "abandoned", !.outcome = "abandoned"]

AbandonedRow(r) ==
    [ClosedRow(r, "stopped", CallsSpent(r), TRUE)
        EXCEPT !.state = IF CallsSpent(r) > 0 /\ @ = "handed_back" THEN @ ELSE "abandoned",
               !.outcome = IF @ = "none" THEN "abandoned" ELSE @]

ClassifiedRow(r) ==
    IF r.hold # "held" THEN r
    ELSE IF Marked(r)
        THEN IF r.state = "dispatched" THEN [r EXCEPT !.state = "liability_unknown"] ELSE r
    ELSE IF CallOpen(r) THEN [r EXCEPT !.state = "liability_unknown"]
    ELSE AbandonedRow(r)

UnseatedRow(r) == [r EXCEPT !.worker = IF @ = "agent" THEN "ended" ELSE @]

RetiredRow(r) == [UnseatedRow(r) EXCEPT !.lease = "released"]

\* One row rewritten, and the money left as it is.
PutRow(t, a, s, now) ==
    [att |-> [t.att EXCEPT ![a] = s], run |-> now, envelope |-> t.envelope]

SameMoney(r, s) == s.hold = r.hold /\ s.amount = r.amount /\ s.actual = r.actual

\* A row rewritten as itself, or with its money as it was, once or again.
LEMMA RowAlone ==
    ASSUME NEW t \in TablesType, NEW a \in Attempt
    PROVE  /\ PutRow(t, a, t.att[a], t.run) = t
           /\ \A s \in Row : \A now : SameMoney(t.att[a], s) => WithRow(t, a, s, now) = PutRow(t, a, s, now)
           /\ \A s \in Row, q \in Row : \A now, then : SameMoney(s, q) =>
                  PutRow(WithRow(t, a, s, now), a, q, then) = WithRow(t, a, q, then)
           /\ \A s, q, now, then :
                  PutRow(PutRow(t, a, s, now), a, q, then) = PutRow(t, a, q, then)
<1> DEFINE r == t.att[a]
<1>1. /\ r \in Row /\ t.att \in [Attempt -> Row]
      /\ t.envelope.held \in Nat /\ t.envelope.actual \in Nat
      /\ t = [att |-> t.att, run |-> t.run, envelope |-> t.envelope]
      /\ t.envelope = [held |-> t.envelope.held, actual |-> t.envelope.actual]
  BY DEF TablesType
<1>2. HeldOf(r) \in Int /\ r.actual \in Int
  BY <1>1 DEF HeldOf, Row
<1>3. ASSUME NEW s \in Row, NEW now, SameMoney(r, s)
      PROVE  WithRow(t, a, s, now) = PutRow(t, a, s, now)
  <2>1. HeldOf(s) = HeldOf(r) /\ s.actual = r.actual
    BY <1>3 DEF HeldOf, SameMoney
  <2>2. t.envelope.held - HeldOf(r) + HeldOf(s) = t.envelope.held
        /\ t.envelope.actual - r.actual + s.actual = t.envelope.actual
    BY <1>1, <1>2, <2>1
  <2> QED BY <1>1, <2>2 DEF WithRow, PutRow
<1>4. PutRow(t, a, r, t.run) = t
  <2>1. [t.att EXCEPT ![a] = r] = t.att
    BY <1>1
  <2> QED BY <1>1, <2>1 DEF PutRow
<1>5. ASSUME NEW s \in Row, NEW q \in Row, NEW now, NEW then, SameMoney(s, q)
      PROVE  PutRow(WithRow(t, a, s, now), a, q, then) = WithRow(t, a, q, then)
  <2>1. HeldOf(s) = HeldOf(q) /\ s.actual = q.actual
    BY <1>5 DEF HeldOf, SameMoney
  <2>2. [[t.att EXCEPT ![a] = s] EXCEPT ![a] = q] = [t.att EXCEPT ![a] = q]
    BY <1>1
  <2> QED BY <2>1, <2>2 DEF WithRow, PutRow
<1>6. ASSUME NEW s, NEW q, NEW now, NEW then
      PROVE  PutRow(PutRow(t, a, s, now), a, q, then) = PutRow(t, a, q, then)
  <2>1. [[t.att EXCEPT ![a] = s] EXCEPT ![a] = q] = [t.att EXCEPT ![a] = q]
    BY <1>1
  <2> QED BY <2>1 DEF PutRow
<1> QED BY <1>3, <1>4, <1>5, <1>6

\* The helpers' tables.
LEMMA ClosedIsWithRow ==
    ASSUME NEW t \in TablesType, NEW a \in Attempt,
           t.att[a].hold = "held", t.att[a].actual = 0
    PROVE  \A cause \in Causes, charge \in Nat, records \in BOOLEAN :
               Closed(t, a, cause, charge, records)
               = WithRow(t, a, ClosedRow(t.att[a], cause, charge, records), t.run)
<1> SUFFICES ASSUME NEW cause \in Causes, NEW charge \in Nat, NEW records \in BOOLEAN
             PROVE  Closed(t, a, cause, charge, records)
                    = WithRow(t, a, ClosedRow(t.att[a], cause, charge, records), t.run)
  OBVIOUS
<1> DEFINE r == t.att[a]
           s == ClosedRow(r, cause, charge, records)
<1>1. /\ r \in Row /\ t.att \in [Attempt -> Row]
      /\ t.envelope.held \in Nat /\ t.envelope.actual \in Nat
      /\ t = [att |-> t.att, run |-> t.run, envelope |-> t.envelope]
      /\ t.envelope = [held |-> t.envelope.held, actual |-> t.envelope.actual]
  BY DEF TablesType
<1>2. r.actual = 0 /\ HeldOf(r) = r.amount /\ r.amount \in Nat
  BY <1>1 DEF HeldOf, Row
<1>3. HeldOf(s) = 0 /\ s.actual = charge
  BY <1>1 DEF ClosedRow, HeldOf, Row
<1>4. Closed(t, a, cause, charge, records)
      = [att |-> [t.att EXCEPT ![a] = s], run |-> t.run,
         envelope |-> [held |-> t.envelope.held - r.amount,
                       actual |-> t.envelope.actual + charge]]
  <2>1. Closed(t, a, cause, charge, records)
        = [t EXCEPT
              !.att[a].hold = IF charge > 0 THEN "actual" ELSE "abandoned",
              !.att[a].actual = charge,
              !.att[a].cause = IF charge = 0 \/ records THEN cause ELSE "none",
              !.envelope.held = @ - r.amount,
              !.envelope.actual = @ + charge]
    BY DEF Closed
  <2> DEFINE u == Closed(t, a, cause, charge, records)
  <2>2. t = [att |-> t.att, run |-> t.run, envelope |-> t.envelope]
    BY <1>1
  <2>3. u = [att |-> u.att, run |-> u.run, envelope |-> u.envelope] /\ u.run = t.run
    BY <2>1, <2>2
  <2>4. u.envelope = [t.envelope EXCEPT !.held = @ - r.amount, !.actual = @ + charge]
    BY <2>1, <2>2
  <2>5. u.att = [t.att EXCEPT ![a] = s]
    <3>1. u.att = [t.att EXCEPT ![a] =
                      [@ EXCEPT !.hold = IF charge > 0 THEN "actual" ELSE "abandoned",
                                !.actual = charge,
                                !.cause = IF charge = 0 \/ records THEN cause ELSE "none"]]
      <4>1. u.att = [t.att EXCEPT ![a].hold = IF charge > 0 THEN "actual" ELSE "abandoned",
                                  ![a].actual = charge,
                                  ![a].cause = IF charge = 0 \/ records THEN cause ELSE "none"]
        BY <2>1, <2>2
      <4> QED BY <1>1, <4>1
    <3> QED BY <1>1, <3>1 DEF ClosedRow
  <2>6. u.envelope = [held |-> t.envelope.held - r.amount, actual |-> t.envelope.actual + charge]
    BY <1>1, <2>4
  <2> QED BY <2>3, <2>5, <2>6
<1>5. t.envelope.held - HeldOf(r) + HeldOf(s) = t.envelope.held - r.amount
      /\ t.envelope.actual - r.actual + s.actual = t.envelope.actual + charge
  BY <1>1, <1>2, <1>3
<1> QED BY <1>4, <1>5 DEF WithRow

(***************************************************************************)
(* The rows the helpers leave.                                             *)
(***************************************************************************)
LEMMA ClosedRowIs ==
    ASSUME NEW r \in Row
    PROVE  \A cause \in Causes, charge \in Nat,
              records \in BOOLEAN :
               LET s == ClosedRow(r, cause, charge, records) IN
               /\ s \in Row
               /\ s.hold = IF charge > 0 THEN "actual" ELSE "abandoned"
               /\ s.actual = charge /\ s.state = r.state /\ s.outcome = r.outcome
               /\ SameWork(r, s)
<1> TAKE cause \in Causes, charge \in Nat,
         records \in BOOLEAN
<1> DEFINE s == ClosedRow(r, cause, charge, records)
           hold == IF charge > 0 THEN "actual" ELSE "abandoned"
           why == IF charge = 0 \/ records THEN cause ELSE "none"
<1>1. hold \in {"actual", "abandoned"}
      /\ why \in Causes
  BY DEF Causes
<1>2. s = [r EXCEPT !.hold = hold, !.actual = charge, !.cause = why]
  BY DEF ClosedRow
<1> HIDE DEF hold, why, s
<1>3. s \in Row
  <2> DEFINE p == [r EXCEPT !.hold = hold]
             q == [p EXCEPT !.actual = charge]
  <2>1. p \in Row
    BY <1>1 DEF Row
  <2>2. s = [[p EXCEPT !.actual = charge] EXCEPT !.cause = why]
    BY <1>2
  <2> HIDE DEF p
  <2>3. q \in Row
    BY <2>1 DEF Row
  <2>4. s = [q EXCEPT !.cause = why]
    BY <2>2
  <2> HIDE DEF q
  <2> QED BY <1>1, <2>3, <2>4 DEF Row, Causes
<1>4. /\ s.hold = hold /\ s.actual = charge /\ s.state = r.state /\ s.outcome = r.outcome
      /\ SameWork(r, s)
  BY <1>2 DEF Row, SameWork
<1> QED BY <1>3, <1>4 DEF hold, s

\* A row whose attempt ends with an outcome.
LEMMA EndedRowIs ==
    ASSUME NEW r \in Row
    PROVE  \A state \in {"settled", "abandoned", "dropped", "handed_back"},
              outcome \in {"completed", "failed", "abandoned", "unknown"} :
               LET s == [r EXCEPT !.state = state, !.outcome = outcome] IN
               /\ s \in Row
               /\ s.state = state /\ s.outcome = outcome /\ s.hold = r.hold
               /\ s.actual = r.actual /\ SameWork(r, s)
<1> TAKE state \in {"settled", "abandoned", "dropped", "handed_back"},
         outcome \in {"completed", "failed", "abandoned", "unknown"}
<1> DEFINE s == [r EXCEPT !.state = state, !.outcome = outcome]
<1>1. s \in Row
  <2> DEFINE p == [r EXCEPT !.state = state]
  <2>1. p \in Row
    BY DEF Row
  <2>2. s = [p EXCEPT !.outcome = outcome]
    OBVIOUS
  <2> HIDE DEF p
  <2> QED BY <2>1, <2>2 DEF Row
<1>2. /\ s.state = state /\ s.outcome = outcome /\ s.hold = r.hold /\ s.actual = r.actual
      /\ SameWork(r, s)
  BY DEF Row, SameWork
<1> QED BY <1>1, <1>2

\* A call's cost is a number (modelCallsOn).
LEMMA CallsSpentNat == \A r : CallsSpent(r) \in Nat
  BY SomeMoney DEF CallsSpent

\* The classifier closes a hold, or keeps it as an unknown liability; the row stays of its kind.
LEMMA ClassifiedRowStays ==
    ASSUME NEW r \in Row, RowKept(r), r.state # "none", LeaseLive(r) => r.marked
    PROVE  LET s == ClassifiedRow(r) IN
           /\ Stays(r, s) /\ Goes(r, s)
           /\ SameWork(r, s)
           /\ r.hold # "held" => s = r
           /\ r.hold = "held" /\ s.hold # "held"
                 => ~ r.marked /\ Past(s) /\ s.state = "abandoned"
           /\ r.hold = "held" /\ s.hold = "held"
                 => s.state = "liability_unknown" \/ (r.marked /\ s.state = r.state)
<1> DEFINE s == ClassifiedRow(r)
<1>1. CASE r.hold # "held"
  <2>1. s = r
    BY <1>1 DEF ClassifiedRow
  <2> QED BY <1>1, <2>1 DEF Stays, Goes, Steps, SameWork
<1>2. CASE r.hold = "held" /\ Marked(r)
  <2>1. r.marked
    BY <1>2 DEF Marked, RowKept, RowMarked
  <2>2. CASE r.state = "dispatched"
    <3>1. s = [r EXCEPT !.state = "liability_unknown"]
      BY <1>2, <2>2 DEF ClassifiedRow
    <3> HIDE DEF s
    <3>2. s \in Row
      BY <3>1 DEF Row
    <3>3. RowKept(s)
      BY <1>2, <2>2, <2>1, <3>1
      DEF RowKept, RowOpen, RowLeased, RowMarked, RowAnswered, LeaseLive, Row
    <3>4. Goes(r, s) /\ ~ Past(r)
      BY <2>2, <3>1 DEF Goes, Steps, Past, Row
    <3>5. s.state = "liability_unknown" /\ s.hold = r.hold /\ SameWork(r, s)
      BY <3>1 DEF Row, SameWork
    <3> QED BY <1>2, <3>2, <3>3, <3>4, <3>5 DEF Stays, s
  <2>3. CASE r.state # "dispatched"
    <3>1. s = r
      BY <1>2, <2>3 DEF ClassifiedRow
    <3> QED BY <1>2, <2>1, <3>1 DEF Stays, Goes, Steps, SameWork
  <2> QED BY <2>2, <2>3
<1>3. CASE r.hold = "held" /\ ~ Marked(r) /\ CallOpen(r)
  <2>1. s = [r EXCEPT !.state = "liability_unknown"]
    BY <1>3 DEF ClassifiedRow
  <2>2. ~ r.marked /\ ~ r.absent
    BY <1>3 DEF Marked, RowKept, RowMarked
  <2> HIDE DEF s
  <2>3. s \in Row
    BY <2>1 DEF Row
  <2>4. RowKept(s)
    BY <1>3, <2>1, <2>2
    DEF RowKept, RowOpen, RowLeased, RowMarked, RowAnswered, LeaseLive, Row
  <2>5. Goes(r, s) /\ ~ Past(r)
    BY <1>3, <2>1, <2>2 DEF Goes, Steps, Past, Row, RowKept, RowOpen
  <2>6. s.state = "liability_unknown" /\ s.hold = r.hold /\ SameWork(r, s)
    BY <2>1 DEF Row, SameWork
  <2> QED BY <1>3, <2>3, <2>4, <2>5, <2>6 DEF Stays, s
<1>4. CASE r.hold = "held" /\ ~ Marked(r) /\ ~ CallOpen(r)
  <2> DEFINE c == ClosedRow(r, "stopped", CallsSpent(r), TRUE)
  <2>1. s = AbandonedRow(r)
    BY <1>4 DEF ClassifiedRow
  <2>2. ~ r.marked /\ ~ r.absent /\ ~ r.observed /\ r.note # "written"
    BY <1>4 DEF Marked, RowKept, RowMarked
  <2>3. r.state # "handed_back" /\ r.outcome = "none" /\ r.word = "none" /\ r.amount > 0
    BY <1>4 DEF RowKept, RowOpen
  <2>4. /\ c \in Row /\ c.hold \in {"actual", "abandoned"}
        /\ c.state = r.state /\ c.outcome = r.outcome /\ SameWork(r, c)
    <3> DEFINE n == CallsSpent(r)
    <3>1. n \in Nat /\ TRUE \in BOOLEAN
          /\ "stopped" \in Causes
      BY CallsSpentNat DEF Causes
    <3> HIDE DEF n
    <3>2. LET q == ClosedRow(r, "stopped", n, TRUE) IN
          /\ q \in Row
          /\ q.hold = IF n > 0 THEN "actual" ELSE "abandoned"
          /\ q.actual = n
          /\ q.state = r.state /\ q.outcome = r.outcome /\ SameWork(r, q)
      BY <3>1, ClosedRowIs, Zenon
    <3> QED BY <3>2, Zenon DEF n
  <2> HIDE DEF c
  <2>10. c \in Row
    BY <2>4
  <2>5. s = [c EXCEPT !.state = "abandoned", !.outcome = "abandoned"]
    BY <2>1, <2>3, <2>4 DEF AbandonedRow, c, Row
  <2> HIDE DEF s
  <2>6. LET q == [c EXCEPT !.state = "abandoned", !.outcome = "abandoned"] IN
        /\ q \in Row
        /\ q.state = "abandoned" /\ q.outcome = "abandoned" /\ q.hold = c.hold
        /\ q.actual = c.actual /\ SameWork(c, q)
    BY <2>10, EndedRowIs
  <2>7. /\ s \in Row
        /\ s.state = "abandoned" /\ s.outcome = "abandoned" /\ s.hold \in {"actual", "abandoned"}
        /\ SameWork(r, s)
    BY <2>4, <2>5, <2>6, Zenon DEF SameWork
  <2>8. RowKept(s)
    BY <2>2, <2>3, <2>7
    DEF RowKept, RowOpen, RowLeased, RowMarked, RowAnswered, LeaseLive, SameWork
  <2>9. Goes(r, s) /\ Past(s)
    BY <1>4, <2>2, <2>3, <2>7 DEF Goes, Steps, Past, RowKept, RowOpen, SameWork
  <2> QED BY <1>4, <2>2, <2>7, <2>8, <2>9 DEF Stays, s, SameWork
<1> QED BY <1>1, <1>2, <1>3, <1>4

\* A settlement's row, on a hold that is held, of a worker's effect or a person's word.
LEMMA SettledRowIs ==
    ASSUME NEW r \in Row
    PROVE  \A spent \in Nat \ {0}, outcome \in {"completed", "failed"} :
               LET s == SettledRow(r, spent, outcome) IN
               /\ s \in Row
               /\ s.state = "settled" /\ s.outcome = outcome /\ s.hold = "actual"
               /\ s.actual = spent /\ SameWork(r, s)
<1> TAKE spent \in Nat \ {0}, outcome \in {"completed", "failed"}
<1>1. spent \in Nat /\ spent > 0 /\ FALSE \in BOOLEAN
      /\ "none" \in Causes
  BY DEF Causes
<1>2. LET q == ClosedRow(r, "none", spent, FALSE) IN
          /\ q \in Row
          /\ q.hold = IF spent > 0 THEN "actual" ELSE "abandoned"
          /\ q.actual = spent
          /\ q.state = r.state /\ q.outcome = r.outcome /\ SameWork(r, q)
  BY <1>1, ClosedRowIs, Zenon
<1> DEFINE c == ClosedRow(r, "none", spent, FALSE)
<1>3. c \in Row /\ c.hold = "actual"
  BY <1>1, <1>2
<1> HIDE DEF c
<1>6. outcome \in {"completed", "failed", "abandoned", "unknown"}
      /\ "settled" \in {"settled", "abandoned", "dropped", "handed_back"}
  OBVIOUS
<1>4. LET q == [c EXCEPT !.state = "settled", !.outcome = outcome] IN
      /\ q \in Row
      /\ q.state = "settled" /\ q.outcome = outcome /\ q.hold = c.hold
      /\ q.actual = c.actual /\ SameWork(c, q)
  <2>1. \A state \in {"settled", "abandoned", "dropped", "handed_back"},
            out \in {"completed", "failed", "abandoned", "unknown"} :
            LET q == [c EXCEPT !.state = state, !.outcome = out] IN
            /\ q \in Row
            /\ q.state = state /\ q.outcome = out /\ q.hold = c.hold
            /\ q.actual = c.actual /\ SameWork(c, q)
    BY <1>3, EndedRowIs
  <2> QED BY <1>6, <2>1
<1>5. SettledRow(r, spent, outcome) = [c EXCEPT !.state = "settled", !.outcome = outcome]
  BY DEF SettledRow, c
<1> QED BY <1>2, <1>3, <1>4, <1>5, Zenon DEF c, SameWork

\* A released hold's row.
LEMMA ReleasedRowIs ==
    ASSUME NEW r \in Row
    PROVE  LET s == ReleasedRow(r) IN
           /\ s \in Row
           /\ s.state = "abandoned" /\ s.outcome = "abandoned"
           /\ s.hold \in {"actual", "abandoned"} /\ s.actual = CallsSpent(r)
           /\ SameWork(r, s)
<1> DEFINE n == CallsSpent(r)
<1>1. n \in Nat /\ FALSE \in BOOLEAN
      /\ "outcome_recorded" \in Causes
  BY CallsSpentNat DEF Causes
<1> HIDE DEF n
<1>2. LET q == ClosedRow(r, "outcome_recorded", n, FALSE) IN
          /\ q \in Row
          /\ q.hold = IF n > 0 THEN "actual" ELSE "abandoned"
          /\ q.actual = n
          /\ q.state = r.state /\ q.outcome = r.outcome /\ SameWork(r, q)
  BY <1>1, ClosedRowIs, Zenon
<1> DEFINE c == ClosedRow(r, "outcome_recorded", n, FALSE)
<1>3. c \in Row /\ c.hold \in {"actual", "abandoned"}
  BY <1>1, <1>2, Zenon
<1> HIDE DEF c
<1>4. LET q == [c EXCEPT !.state = "abandoned", !.outcome = "abandoned"] IN
      /\ q \in Row
      /\ q.state = "abandoned" /\ q.outcome = "abandoned" /\ q.hold = c.hold
      /\ q.actual = c.actual /\ SameWork(c, q)
  BY <1>3, EndedRowIs
<1>5. ReleasedRow(r) = [c EXCEPT !.state = "abandoned", !.outcome = "abandoned"]
  BY DEF ReleasedRow, c, n
<1> QED BY <1>2, <1>3, <1>4, <1>5, Zenon DEF c, n, SameWork

(***************************************************************************)
(* What one row's rewriting keeps, in short.                               *)
(***************************************************************************)
LEMMA RewritingKeeps ==
    ASSUME NEW t, StepKept(t), NEW a \in Attempt, t.att[a].state # "none"
    PROVE  \A s \in Row, now \in RunStates : Stays(t.att[a], s) =>
               /\ StepKept(WithRow(t, a, s, now))
               /\ WithRow(t, a, s, now).run = now
               /\ Goes(t.att[a], s) => Moving(t, WithRow(t, a, s, now))
               /\ \A b \in Attempt :
                      WithRow(t, a, s, now).att[b] = IF b = a THEN s ELSE t.att[b]
<1> SUFFICES ASSUME NEW s \in Row, NEW now \in RunStates, Stays(t.att[a], s)
             PROVE  /\ StepKept(WithRow(t, a, s, now))
                    /\ WithRow(t, a, s, now).run = now
                    /\ Goes(t.att[a], s) => Moving(t, WithRow(t, a, s, now))
                    /\ \A b \in Attempt :
                           WithRow(t, a, s, now).att[b] = IF b = a THEN s ELSE t.att[b]
  OBVIOUS
<1>1. StepKept(WithRow(t, a, s, now))
  BY WithRowKeeps
<1>2. Goes(t.att[a], s) => Moving(t, WithRow(t, a, s, now))
  BY WithRowMoves
<1>3. t.att \in [Attempt -> Row]
  BY RowsOfKept
<1> QED BY <1>1, <1>2, <1>3 DEF WithRow

\* A row rewritten without touching its money keeps the invariant.
LEMMA PuttingKeeps ==
    ASSUME NEW t, StepKept(t), NEW a \in Attempt, t.att[a].state # "none"
    PROVE  \A s \in Row, now \in RunStates : Stays(t.att[a], s) /\ SameMoney(t.att[a], s) =>
               /\ StepKept(PutRow(t, a, s, now))
               /\ PutRow(t, a, s, now).run = now
               /\ Goes(t.att[a], s) => Moving(t, PutRow(t, a, s, now))
               /\ \A b \in Attempt :
                      PutRow(t, a, s, now).att[b] = IF b = a THEN s ELSE t.att[b]
<1> SUFFICES ASSUME NEW s \in Row, NEW now \in RunStates,
                    Stays(t.att[a], s), SameMoney(t.att[a], s)
             PROVE  /\ StepKept(PutRow(t, a, s, now))
                    /\ PutRow(t, a, s, now).run = now
                    /\ Goes(t.att[a], s) => Moving(t, PutRow(t, a, s, now))
                    /\ \A b \in Attempt :
                           PutRow(t, a, s, now).att[b] = IF b = a THEN s ELSE t.att[b]
  OBVIOUS
<1>1. PutRow(t, a, s, now) = WithRow(t, a, s, now)
  <2>1. t \in TablesType
    BY DEF StepKept
  <2> QED BY <2>1, RowAlone
<1> QED BY <1>1, RewritingKeeps

\* The run alone moves.
LEMMA RunAloneKeeps ==
    ASSUME NEW t, StepKept(t), NEW now \in RunStates
    PROVE  LET u == [t EXCEPT !.run = now] IN
           StepKept(u) /\ Moving(t, u) /\ u.att = t.att /\ u.run = now /\ u.envelope = t.envelope
<1> DEFINE u == [t EXCEPT !.run = now]
<1>1. t \in TablesType
  BY DEF StepKept
<1>2. u \in TablesType /\ u.att = t.att /\ u.envelope = t.envelope /\ u.run = now
  BY <1>1 DEF TablesType
<1>3. Written(u) = Written(t) /\ Held(u) = Held(t)
  BY <1>2 DEF Written, Held
<1>4. InOrder(u) /\ Newest(u) = Newest(t)
  BY <1>3 DEF InOrder, Newest, StepKept
<1>5. Balanced(u)
  BY <1>2, <1>3 DEF Balanced, StepKept
<1>6. Moving(t, u)
  BY <1>2 DEF Moving, Goes, Steps
<1> HIDE DEF u
<1>7. StepKept(u)
  BY <1>2, <1>3, <1>4, <1>5 DEF StepKept
<1> QED BY <1>2, <1>6, <1>7 DEF u

(***************************************************************************)
(* The classifier.                                                         *)
(***************************************************************************)
LEMMA ClassifiedIsWithRow ==
    ASSUME NEW t, StepKept(t), NEW a \in Attempt, t.att[a].state # "none",
           LeaseLive(t.att[a]) => t.att[a].marked
    PROVE  Classified(t, a) = WithRow(t, a, ClassifiedRow(t.att[a]), t.run)
<1> DEFINE r == t.att[a]
           s == ClassifiedRow(r)
<1>1. /\ r \in Row /\ RowKept(r) /\ t.att \in [Attempt -> Row]
      /\ t = [att |-> t.att, run |-> t.run, envelope |-> t.envelope]
      /\ t \in TablesType
  BY RowsOfKept
<1>2. s \in Row
  BY <1>1, ClassifiedRowStays DEF Stays
<1>3. PutRow(t, a, r, t.run) = t
  BY <1>1, RowAlone
<1>4. \A q \in Row : \A now : SameMoney(r, q) => WithRow(t, a, q, now) = PutRow(t, a, q, now)
  BY <1>1, RowAlone
<1>5. SameMoney(r, r)
  BY DEF SameMoney
<1>6. CASE r.hold # "held" \/ (Marked(r) /\ r.state # "dispatched")
  <2>1. s = r /\ Classified(t, a) = t
    BY <1>6 DEF ClassifiedRow, Classified
  <2> QED BY <1>1, <1>3, <1>4, <1>5, <2>1
<1>7. CASE r.hold = "held" /\ (IF Marked(r) THEN r.state = "dispatched" ELSE CallOpen(r))
  <2>1. s = [r EXCEPT !.state = "liability_unknown"]
        /\ Classified(t, a) = [t EXCEPT !.att[a].state = "liability_unknown"]
    BY <1>7 DEF ClassifiedRow, Classified
  <2>2. SameMoney(r, s)
    BY <1>1, <2>1 DEF SameMoney, Row
  <2>3. Classified(t, a) = PutRow(t, a, s, t.run)
    <3> HIDE DEF s
    <3> QED BY <1>1, <2>1 DEF PutRow
  <2> QED BY <1>2, <1>4, <2>2, <2>3
<1>8. CASE r.hold = "held" /\ ~ Marked(r) /\ ~ CallOpen(r)
  <2> DEFINE spent == CallsSpent(r)
             c == ClosedRow(r, "stopped", spent, TRUE)
             closed == Closed(t, a, "stopped", spent, TRUE)
  <2>1. spent \in Nat
    BY CallsSpentNat
  <2>2. closed = WithRow(t, a, c, t.run)
    <3>1. TRUE \in BOOLEAN /\ "stopped" \in Causes
      BY DEF Causes
    <3>2. r.actual = 0
      BY <1>1, <1>8 DEF RowKept, RowOpen
    <3> HIDE DEF spent
    <3> QED BY <1>1, <1>8, <2>1, <3>1, <3>2, ClosedIsWithRow, Zenon
  <2>3. c \in Row
    <3>1. TRUE \in BOOLEAN
          /\ "stopped" \in Causes
      BY DEF Causes
    <3> HIDE DEF spent
    <3> QED BY <1>1, <2>1, <3>1, ClosedRowIs
  <2>4. Classified(t, a)
        = [closed EXCEPT
             !.att[a].state = IF spent > 0 /\ @ = "handed_back" THEN @ ELSE "abandoned",
             !.att[a].outcome = IF @ = "none" THEN "abandoned" ELSE @]
    BY <1>8 DEF Classified
  <2>5. s = [c EXCEPT !.state = IF spent > 0 /\ @ = "handed_back" THEN @ ELSE "abandoned",
                      !.outcome = IF @ = "none" THEN "abandoned" ELSE @]
    BY <1>8 DEF ClassifiedRow, AbandonedRow
  <2>6. SameMoney(c, s)
    <3> HIDE DEF c, spent
    <3> QED BY <2>3, <2>5 DEF SameMoney, Row
  <2>7. Classified(t, a) = PutRow(closed, a, s, t.run)
    <3>1. /\ closed = [att |-> closed.att, run |-> t.run, envelope |-> closed.envelope]
          /\ closed.att = [t.att EXCEPT ![a] = c]
      <4> HIDE DEF closed, c
      <4> QED BY <2>2 DEF WithRow
    <3>2. closed.att \in [Attempt -> Row] /\ closed.att[a] = c
      BY <1>1, <2>3, <3>1
    <3> DEFINE u == Classified(t, a)
    <3>3. /\ u = [att |-> u.att, run |-> u.run, envelope |-> u.envelope]
          /\ u.run = t.run /\ u.envelope = closed.envelope
      <4>1. closed = [att |-> closed.att, run |-> t.run, envelope |-> closed.envelope]
        BY <3>1
      <4> HIDE DEF closed, c, spent
      <4>2. u.run = closed.run /\ closed.run = t.run
        BY <2>4, <4>1
      <4>3. u.envelope = closed.envelope
        BY <2>4, <4>1
      <4>4. u = [att |-> u.att, run |-> u.run, envelope |-> u.envelope]
        BY <2>4, <4>1
      <4> QED BY <4>2, <4>3, <4>4
    <3>4. u.att = [closed.att EXCEPT
              ![a].state = IF spent > 0 /\ @ = "handed_back" THEN @ ELSE "abandoned",
              ![a].outcome = IF @ = "none" THEN "abandoned" ELSE @]
      <4> HIDE DEF closed, c, spent
      <4> QED BY <2>4, <3>1
    <3> HIDE DEF closed, c, spent, s, u
    <3>5. u.att = [closed.att EXCEPT ![a] = s]
      BY <2>5, <3>2, <3>4
    <3> QED BY <3>3, <3>5 DEF PutRow, u
  <2>8. PutRow(WithRow(t, a, c, t.run), a, s, t.run) = WithRow(t, a, s, t.run)
    <3> HIDE DEF c, s
    <3> QED BY <1>1, <1>2, <2>3, <2>6, RowAlone
  <2> QED BY <2>2, <2>7, <2>8
<1> QED BY <1>6, <1>7, <1>8

\* Classifying an attempt keeps the invariant.
LEMMA ClassifiedKeeps ==
    ASSUME NEW t, StepKept(t), NEW a \in Attempt, t.att[a].state # "none",
           LeaseLive(t.att[a]) => t.att[a].marked
    PROVE  /\ StepKept(Classified(t, a)) /\ Moving(t, Classified(t, a))
           /\ Classified(t, a).run = t.run
           /\ Classified(t, a).att[a] = ClassifiedRow(t.att[a])
           /\ \A b \in Attempt \ {a} : Classified(t, a).att[b] = t.att[b]
<1> DEFINE s == ClassifiedRow(t.att[a])
<1>1. t.att[a] \in Row /\ RowKept(t.att[a]) /\ t.run \in RunStates
  BY RowsOfKept
<1>2. Stays(t.att[a], s) /\ Goes(t.att[a], s) /\ s \in Row
  BY <1>1, ClassifiedRowStays DEF Stays
<1>3. Classified(t, a) = WithRow(t, a, s, t.run)
  BY ClassifiedIsWithRow
<1> HIDE DEF s
<1>4. /\ StepKept(WithRow(t, a, s, t.run)) /\ WithRow(t, a, s, t.run).run = t.run
      /\ Moving(t, WithRow(t, a, s, t.run))
      /\ \A b \in Attempt : WithRow(t, a, s, t.run).att[b] = IF b = a THEN s ELSE t.att[b]
  BY <1>1, <1>2, RewritingKeeps
<1> QED BY <1>3, <1>4 DEF s

(***************************************************************************)
(* The loops: one row after another stays in any set that each row's turn  *)
(* stays in.                                                               *)
(***************************************************************************)
LEMMA ClassifiedInTurn ==
    ASSUME NEW T, NEW t \in T, NEW A \in SUBSET Attempt,
           \A u \in T, a \in A : Classified(u, a) \in T
    PROVE  InTurn(Classified, t, A) \in T
<1> DEFINE I == CHOOSE iter : iter = [s \in SUBSET A |->
                    IF s = {} THEN t
                    ELSE Classified(iter[s \ {CHOOSE x \in s : TRUE}], CHOOSE x \in s : TRUE)]
           Op(v, x) == Classified(v, x)
           G == [p \in A \X T |-> Op(p[2], p[1])]
<1>1. InTurn(Classified, t, A) = I[A]
  BY DEF InTurn, FoldSet, MapThenFoldSet
<1>2. IsFiniteSet(A)
  BY AttemptsAreFinite, FS_Subset
<1>3. \A x \in A, v \in T : G[<<x, v>>] = Op(v, x) /\ Op(v, x) \in T
  OBVIOUS
<1> HIDE DEF G, Op
<1>4. PICK g : Folds(G, t, A, g) /\ \A s \in SUBSET A : g[s] \in T
  <2>1. \A x \in A, v \in T : G[<<x, v>>] \in T
    BY <1>3
  <2> QED BY <1>2, <2>1, FoldsWithin
<1>5. g = [s \in SUBSET A |-> IF s = {} THEN t ELSE Op(g[s \ {Chosen(s)}], Chosen(s))]
  <2>1. ASSUME NEW s \in SUBSET A, s # {}
        PROVE  G[<<Chosen(s), g[s \ {Chosen(s)}]>>] = Op(g[s \ {Chosen(s)}], Chosen(s))
    <3>1. Chosen(s) \in A
      BY <2>1 DEF Chosen
    <3> QED BY <1>3, <1>4, <3>1
  <2>2. g = [s \in SUBSET A |-> IF s = {} THEN t ELSE G[<<Chosen(s), g[s \ {Chosen(s)}]>>]]
    BY <1>4, Zenon DEF Folds, Folding
  <2> QED BY <2>1, <2>2
<1>6. I = [s \in SUBSET A |-> IF s = {} THEN t ELSE Op(I[s \ {Chosen(s)}], Chosen(s))]
  <2>1. g = [s \in SUBSET A |->
                IF s = {} THEN t
                ELSE Classified(g[s \ {CHOOSE x \in s : TRUE}], CHOOSE x \in s : TRUE)]
    BY <1>5, Zenon DEF Op, Chosen
  <2>2. I = [s \in SUBSET A |->
                IF s = {} THEN t
                ELSE Classified(I[s \ {CHOOSE x \in s : TRUE}], CHOOSE x \in s : TRUE)]
    BY <2>1, Zenon
  <2> QED BY <2>2, Zenon DEF Op, Chosen
<1> HIDE DEF I
<1>7. I[{}] \in T
  BY <1>6
<1>8. ASSUME NEW s \in SUBSET A, s # {}, I[s \ {Chosen(s)}] \in T
      PROVE  I[s] \in T
  <2>1. Chosen(s) \in A
    BY <1>8 DEF Chosen
  <2>2. I[s] = Op(I[s \ {Chosen(s)}], Chosen(s))
    BY <1>6, <1>8
  <2> QED BY <1>3, <1>8, <2>1, <2>2
<1>9. \A s \in SUBSET A : I[s] \in T
  BY <1>2, <1>7, <1>8, FoldStays
<1> QED BY <1>1, <1>9

(***************************************************************************)
(* The helpers that end a lease, resume the step, and drop an attempt.     *)
(***************************************************************************)

\* What leaves an attempt's answers and its money alone.
SameEnd(r, s) ==
    /\ s.state = r.state /\ s.outcome = r.outcome /\ s.hold = r.hold
    /\ s.amount = r.amount /\ s.actual = r.actual /\ s.marked = r.marked
    /\ s.observed = r.observed /\ s.absent = r.absent /\ s.drop = r.drop /\ s.note = r.note
    /\ s.call = r.call /\ s.lost = r.lost /\ s.word = r.word

\* Revoking a delegation ends no work of its own (revokeDelegation).
LEMMA UnseatedRowStays ==
    ASSUME NEW r \in Row, RowKept(r), r.state # "none"
    PROVE  LET s == UnseatedRow(r) IN
           /\ s \in Row /\ Stays(r, s) /\ Goes(r, s) /\ SameEnd(r, s) /\ s.lease = r.lease
<1> DEFINE s == UnseatedRow(r)
<1>1. CASE r.worker # "agent"
  <2>1. s = r
    BY <1>1 DEF UnseatedRow, Row
  <2> QED BY <2>1 DEF Stays, Goes, Steps, SameEnd
<1>2. CASE r.worker = "agent"
  <2>1. s = [r EXCEPT !.worker = "ended"]
    BY <1>2 DEF UnseatedRow
  <2>2. r.state # "reserved"
    BY <1>2 DEF RowKept, RowOpen, Fresh, Unwritten
  <2> HIDE DEF s
  <2>3. s \in Row /\ SameEnd(r, s) /\ s.lease = r.lease
    BY <2>1 DEF Row, SameEnd
  <2>4. RowKept(s)
    BY <2>2, <2>3
    DEF SameEnd, RowKept, RowOpen, RowLeased, RowMarked, RowAnswered, LeaseLive
  <2>5. Goes(r, s) /\ (Past(r) => Past(s))
    BY <2>3 DEF SameEnd, Goes, Steps, Past
  <2>6. Stays(r, s)
    BY <2>3, <2>4, <2>5 DEF Stays, SameEnd
  <2> QED BY <2>3, <2>5, <2>6, Zenon DEF s
<1> QED BY <1>1, <1>2

\* Nor does ending the lease (endLease, retireWork).
LEMMA RetiredRowStays ==
    ASSUME NEW r \in Row, RowKept(r), r.state # "none", LeaseLive(r)
    PROVE  LET s == RetiredRow(r) IN
           /\ s \in Row /\ Goes(r, s) /\ SameEnd(r, s) /\ s.lease = "released"
           /\ Stays(r, s)
<1> DEFINE q == UnseatedRow(r)
           s == [q EXCEPT !.lease = "released"]
<1>1. q \in Row /\ Stays(r, q) /\ Goes(r, q) /\ SameEnd(r, q)
  BY UnseatedRowStays
<1> HIDE DEF q
<1>2. s \in Row /\ SameEnd(q, s) /\ s.lease = "released"
  BY <1>1 DEF Row, SameEnd
<1> HIDE DEF s
<1>3. SameEnd(r, s)
  BY <1>1, <1>2 DEF SameEnd
<1>4. r.state # "reserved"
  BY DEF RowKept, RowOpen, Fresh, Unwritten, LeaseLive
<1>5. RowKept(s)
  BY <1>2, <1>3, <1>4
  DEF SameEnd, RowKept, RowOpen, RowLeased, RowMarked, RowAnswered, LeaseLive
<1>6. Goes(r, s) /\ (Past(r) => Past(s))
  BY <1>2, <1>3 DEF SameEnd, Goes, Steps, Past
<1>7. Stays(r, s)
  BY <1>2, <1>3, <1>5, <1>6 DEF Stays, SameEnd
<1> QED BY <1>2, <1>3, <1>6, <1>7, Zenon DEF RetiredRow, s, q

\* What one row put anew keeps of the tables.
Follows(t, u) == StepKept(u) /\ Moving(t, u)

PutsOnly(t, u, a, s, now) ==
    /\ Follows(t, u) /\ u.run = now /\ u.att[a] = s
    /\ \A b \in Attempt \ {a} : u.att[b] = t.att[b]
    /\ Written(u) = Written(t)

\* A row rewritten beside its money leaves the tables kept, and takes nothing back.
LEMMA PuttingFollows ==
    ASSUME NEW t, StepKept(t), NEW a \in Attempt, t.att[a].state # "none"
    PROVE  \A s \in Row, now \in RunStates :
               Stays(t.att[a], s) /\ Goes(t.att[a], s) /\ SameMoney(t.att[a], s)
                   => PutsOnly(t, PutRow(t, a, s, now), a, s, now)
<1> SUFFICES ASSUME NEW s \in Row, NEW now \in RunStates,
                    Stays(t.att[a], s), Goes(t.att[a], s), SameMoney(t.att[a], s)
             PROVE  PutsOnly(t, PutRow(t, a, s, now), a, s, now)
  OBVIOUS
<1> DEFINE u == PutRow(t, a, s, now)
<1>1. /\ StepKept(u) /\ u.run = now /\ Moving(t, u)
      /\ \A b \in Attempt : u.att[b] = IF b = a THEN s ELSE t.att[b]
  BY PuttingKeeps
<1>2. s.state # "none"
  BY DEF Stays
<1> HIDE DEF u
<1>3. Written(u) = Written(t)
  BY <1>1, <1>2 DEF Written
<1> QED BY <1>1, <1>3 DEF PutsOnly, Follows, u

\* So does one rewritten with its money.
LEMMA RewritingFollows ==
    ASSUME NEW t, StepKept(t), NEW a \in Attempt, t.att[a].state # "none"
    PROVE  \A s \in Row, now \in RunStates :
               Stays(t.att[a], s) /\ Goes(t.att[a], s)
                   => PutsOnly(t, WithRow(t, a, s, now), a, s, now)
<1> SUFFICES ASSUME NEW s \in Row, NEW now \in RunStates,
                    Stays(t.att[a], s), Goes(t.att[a], s)
             PROVE  PutsOnly(t, WithRow(t, a, s, now), a, s, now)
  OBVIOUS
<1> DEFINE u == WithRow(t, a, s, now)
<1>1. /\ StepKept(u) /\ u.run = now /\ Moving(t, u)
      /\ \A b \in Attempt : u.att[b] = IF b = a THEN s ELSE t.att[b]
  BY RewritingKeeps
<1>2. s.state # "none"
  BY DEF Stays
<1> HIDE DEF u
<1>3. Written(u) = Written(t)
  BY <1>1, <1>2 DEF Written
<1> QED BY <1>1, <1>3 DEF PutsOnly, Follows, u

\* Revoking a delegation takes nothing back.
LEMMA UnseatedFollows ==
    ASSUME NEW t, StepKept(t), NEW a \in Attempt, t.att[a].state # "none"
    PROVE  PutsOnly(t, Unseated(t, a), a, UnseatedRow(t.att[a]), t.run)
<1> DEFINE r == t.att[a]
           s == UnseatedRow(r)
<1>1. /\ r \in Row /\ RowKept(r) /\ t.att \in [Attempt -> Row] /\ t.run \in RunStates
      /\ t = [att |-> t.att, run |-> t.run, envelope |-> t.envelope]
  BY RowsOfKept
<1>2. s \in Row /\ Stays(r, s) /\ Goes(r, s) /\ SameMoney(r, s)
  BY <1>1, UnseatedRowStays DEF SameEnd, SameMoney
<1>3. Unseated(t, a) = PutRow(t, a, s, t.run)
  BY <1>1 DEF Unseated, UnseatedRow, PutRow
<1> HIDE DEF s
<1>4. PutsOnly(t, PutRow(t, a, s, t.run), a, s, t.run)
  BY <1>1, <1>2, PuttingFollows
<1> QED BY <1>3, <1>4 DEF s

\* Ending a lease takes nothing back, and leaves none live.
LEMMA RetiredFollows ==
    ASSUME NEW t, StepKept(t), NEW a \in Attempt, t.att[a].state # "none", LeaseLive(t.att[a])
    PROVE  PutsOnly(t, Retired(t, a), a, RetiredRow(t.att[a]), t.run)
<1> DEFINE r == t.att[a]
           s == RetiredRow(r)
<1>1. /\ r \in Row /\ RowKept(r) /\ t.att \in [Attempt -> Row] /\ t.run \in RunStates
      /\ t = [att |-> t.att, run |-> t.run, envelope |-> t.envelope]
  BY RowsOfKept
<1>2. s \in Row /\ Stays(r, s) /\ Goes(r, s) /\ SameMoney(r, s)
  BY <1>1, RetiredRowStays DEF SameEnd, SameMoney
<1>3. Unseated(t, a) = PutRow(t, a, UnseatedRow(r), t.run)
  BY <1>1 DEF Unseated, UnseatedRow, PutRow
<1>4. Retired(t, a) = PutRow(t, a, s, t.run)
  <2> DEFINE q == UnseatedRow(r)
  <2>1. Retired(t, a) = [PutRow(t, a, q, t.run) EXCEPT !.att[a].lease = "released"]
    BY <1>3 DEF Retired
  <2>2. s = [q EXCEPT !.lease = "released"]
    BY DEF RetiredRow
  <2> HIDE DEF q, s
  <2> QED BY <1>1, <2>1, <2>2 DEF PutRow
<1> HIDE DEF s
<1>5. PutsOnly(t, PutRow(t, a, s, t.run), a, s, t.run)
  BY <1>1, <1>2, PuttingFollows
<1> QED BY <1>4, <1>5 DEF s

\* Tables follow themselves: the helpers whose guard fails change nothing.
LEMMA FollowsItself == ASSUME NEW t, StepKept(t) PROVE Follows(t, t)
  BY DEF Follows, Moving, Goes, Steps

\* Helpers compose: what follows the kept tables of the one before follows the first.
LEMMA FollowsOn ==
    ASSUME NEW t, NEW u, NEW w, Follows(t, u), Follows(u, w)
    PROVE  Follows(t, w)
  BY MovingOn DEF Follows

\* A run that stops at its budget moves no hold (budget-stop.ts).
LEMMA AtBudgetFollows ==
    ASSUME NEW t, StepKept(t)
    PROVE  Follows(t, AtBudget(t))
<1> DEFINE now == IF t.run \in {"planned", "claimed"} THEN "waiting_budget" ELSE t.run
<1>1. t \in TablesType
  BY DEF StepKept
<1>2. now \in RunStates /\ AtBudget(t) = [t EXCEPT !.run = now]
  BY <1>1 DEF TablesType, RunStates, AtBudget
<1> HIDE DEF now
<1> QED BY <1>2, RunAloneKeeps DEF Follows

\* No resumption is offered more than the step was approved for.
LEMMA LeftWithin ==
    ASSUME NEW t, StepKept(t), NEW a \in Attempt
    PROVE  Left(t, a) \in Int /\ Left(t, a) <= Amount
<1>1. t.att[a] \in Row
  BY RowsOfKept
<1>2. t.att[a].amount \in 0 .. Amount /\ t.att[a].actual \in Nat
  BY <1>1 DEF Row
<1> QED BY <1>2, SomeMoney DEF Left

\* Attempts are only written by a reservation.
LEMMA NumberStays ==
    ASSUME NEW t, NEW u, Written(u) = Written(t)
    PROVE  NextNumber(u) = NextNumber(t) /\ (Numbered(u) <=> Numbered(t))
  BY DEF NextNumber, Numbered

\* The next reservation, once no attempt is at work and the old worker stands no more.
LEMMA ReservedAfter ==
    ASSUME NEW u, StepKept(u), NEW a \in Attempt, u.att[a].state # "none",
           \A b \in Written(u) : Past(u.att[b]), Numbered(u)
    PROVE  \A amount \in 1 .. Amount : Follows(u, Reserved(Unseated(u, a), amount))
<1> DEFINE w == Unseated(u, a)
<1>1. PutsOnly(u, w, a, UnseatedRow(u.att[a]), u.run)
  BY UnseatedFollows
<1>2. u.att[a] \in Row /\ RowKept(u.att[a])
  BY RowsOfKept
<1>3. Past(u.att[a]) => Past(UnseatedRow(u.att[a]))
  BY <1>2, UnseatedRowStays DEF Stays
<1> HIDE DEF w
<1>4. \A b \in Written(w) : Past(w.att[b])
  BY <1>1, <1>3 DEF PutsOnly, Written
<1>5. Follows(u, w) /\ StepKept(w) /\ Numbered(w)
  BY <1>1, NumberStays DEF PutsOnly, Follows
<1>6. \A amount \in 1 .. Amount : Follows(w, Reserved(w, amount))
  BY <1>4, <1>5, ReservedKeeps DEF Follows
<1>7. \A amount \in 1 .. Amount : Follows(u, Reserved(w, amount))
  BY <1>5, <1>6, FollowsOn
<1> QED BY <1>7 DEF w

\* Resuming a closed attempt reserves the next one, stops at the budget, or leaves the
\* tables as they are; the attempt left behind is past (drop.ts, reserve).
LEMMA ResumedFollows ==
    ASSUME NEW t, StepKept(t), NEW a \in Attempt, t.att[a].state # "none",
           \A b \in Written(t) : Past(t.att[b]), NEW room
    PROVE  Follows(t, Resumed(t, a, FALSE, room))
<1> DEFINE left == Left(t, a)
<1>1. left \in Int /\ left <= Amount /\ Amount \in Nat
  BY LeftWithin, SomeMoney
<1>2. [t EXCEPT !.att[a].absent = @ \/ FALSE] = t
  <2>1. t.att \in [Attempt -> Row] /\ t.att[a] \in Row
        /\ t = [att |-> t.att, run |-> t.run, envelope |-> t.envelope]
    BY RowsOfKept
  <2>2. t.att[a].absent \in BOOLEAN
    BY <2>1 DEF Row
  <2>3. (t.att[a].absent \/ FALSE) = t.att[a].absent
    BY <2>2
  <2>4. [t.att[a] EXCEPT !.absent = t.att[a].absent] = t.att[a]
    BY <2>1 DEF Row
  <2>5. [t.att EXCEPT ![a] = t.att[a]] = t.att
    BY <2>1
  <2> DEFINE q == [t.att[a] EXCEPT !.absent = @ \/ FALSE]
             f == [t.att EXCEPT ![a] = q]
  <2>6. q = t.att[a]
    BY <2>3, <2>4
  <2>7. [t EXCEPT !.att[a].absent = @ \/ FALSE]
        = [att |-> f, run |-> t.run, envelope |-> t.envelope]
    BY <2>1
  <2> QED BY <2>1, <2>5, <2>6, <2>7
<1>3. CASE ~ approved \/ WrittenOff(t)
  BY <1>3, FollowsItself DEF Resumed
<1>4. CASE approved /\ ~ WrittenOff(t) /\ left <= 0
  <2>1. Resumed(t, a, FALSE, room) = AtBudget(Unseated(t, a))
    BY <1>4 DEF Resumed
  <2>2. Follows(t, Unseated(t, a))
    BY UnseatedFollows DEF PutsOnly
  <2>3. Follows(Unseated(t, a), AtBudget(Unseated(t, a)))
    BY <2>2, AtBudgetFollows DEF Follows
  <2> QED BY <2>1, <2>2, <2>3, FollowsOn
<1>5. CASE approved /\ ~ WrittenOff(t) /\ left > 0 /\ ~ (room /\ Numbered(t))
  BY <1>1, <1>5, FollowsItself DEF Resumed
<1>6. CASE approved /\ ~ WrittenOff(t) /\ left > 0 /\ room /\ Numbered(t)
  <2>1. Resumed(t, a, FALSE, room) = Reserved(Unseated(t, a), left)
    BY <1>1, <1>2, <1>6 DEF Resumed
  <2>2. left \in 1 .. Amount
    BY <1>1, <1>6
  <2> HIDE DEF left
  <2>3. \A amount \in 1 .. Amount : Follows(t, Reserved(Unseated(t, a), amount))
    BY <1>6, ReservedAfter
  <2> QED BY <2>1, <2>2, <2>3
<1>7. left <= 0 \/ left > 0
  BY <1>1
<1> HIDE DEF left
<1> QED BY <1>3, <1>4, <1>5, <1>6, <1>7, Zenon

\* A hold proved absent stays held beside the attempt that goes again.
LEMMA ProvedAbsentFollows ==
    ASSUME NEW t, StepKept(t), NEW a \in Attempt, NEW room,
           t.att[a].state = "liability_unknown", t.att[a].hold = "held", t.att[a].marked,
           ~ t.att[a].absent, t.att[a].note # "written"
    PROVE  Follows(t, Resumed(t, a, TRUE, room))
<1> DEFINE r == t.att[a]
           s == [r EXCEPT !.absent = TRUE]
           left == Left(t, a)
           u == PutRow(t, a, s, t.run)
<1>1. left \in Int /\ left <= Amount /\ Amount \in Nat
  BY LeftWithin, SomeMoney
<1>2. /\ r \in Row /\ RowKept(r) /\ t.att \in [Attempt -> Row] /\ t.run \in RunStates
      /\ t = [att |-> t.att, run |-> t.run, envelope |-> t.envelope]
  BY RowsOfKept
<1>3. [t EXCEPT !.att[a].absent = @ \/ TRUE] = u
  <2> DEFINE q == [r EXCEPT !.absent = @ \/ TRUE]
             f == [t.att EXCEPT ![a] = q]
  <2>1. [t EXCEPT !.att[a].absent = @ \/ TRUE]
        = [att |-> f, run |-> t.run, envelope |-> t.envelope]
    BY <1>2
  <2>2. (r.absent \/ TRUE) = TRUE
    OBVIOUS
  <2>3. q = s
    BY <2>2
  <2> HIDE DEF q, s
  <2> QED BY <2>1, <2>3 DEF PutRow
<1>4. s \in Row /\ SameMoney(r, s) /\ s.state = "liability_unknown"
  BY <1>2 DEF Row, SameMoney
<1>5. RowKept(s)
  BY <1>2 DEF Row, RowKept, RowOpen, RowLeased, RowMarked, RowAnswered, LeaseLive
<1>6. Goes(r, s) /\ Past(s)
  BY <1>2 DEF Goes, Steps, Past, Row
<1>7. Stays(r, s)
  BY <1>4, <1>5, <1>6 DEF Stays
<1>8. a \in Written(t) /\ ~ Past(r)
  BY DEF Written, Past
<1>9. \A b \in Written(t) \ {a} : Past(t.att[b])
  BY <1>8, OthersArePast
<1> HIDE DEF s
<1>10. PutsOnly(t, u, a, s, t.run)
  BY <1>2, <1>4, <1>6, <1>7, PuttingFollows
<1> HIDE DEF u
<1>11. StepKept(u) /\ Follows(t, u) /\ u.att[a].state # "none"
       /\ (Numbered(u) <=> Numbered(t))
  BY <1>4, <1>10, NumberStays DEF PutsOnly, Follows
<1>12. \A b \in Written(u) : Past(u.att[b])
  BY <1>6, <1>9, <1>10 DEF PutsOnly, Written
<1>13. CASE ~ approved \/ WrittenOff(t)
  BY <1>13, FollowsItself DEF Resumed
<1>14. CASE approved /\ ~ WrittenOff(t) /\ left <= 0
  <2>1. Resumed(t, a, TRUE, room) = AtBudget(Unseated(t, a))
    BY <1>14 DEF Resumed
  <2>2. Follows(t, Unseated(t, a))
    BY UnseatedFollows DEF PutsOnly
  <2>3. Follows(Unseated(t, a), AtBudget(Unseated(t, a)))
    BY <2>2, AtBudgetFollows DEF Follows
  <2> QED BY <2>1, <2>2, <2>3, FollowsOn
<1>15. CASE approved /\ ~ WrittenOff(t) /\ left > 0 /\ ~ (room /\ Numbered(t))
  BY <1>1, <1>15, FollowsItself DEF Resumed
<1>16. CASE approved /\ ~ WrittenOff(t) /\ left > 0 /\ room /\ Numbered(t)
  <2>1. Resumed(t, a, TRUE, room) = Reserved(Unseated(u, a), left)
    BY <1>1, <1>3, <1>16 DEF Resumed
  <2>2. left \in 1 .. Amount
    BY <1>1, <1>16
  <2> HIDE DEF left
  <2>3. \A amount \in 1 .. Amount : Follows(u, Reserved(Unseated(u, a), amount))
    BY <1>11, <1>12, <1>16, ReservedAfter
  <2>4. Follows(u, Reserved(Unseated(u, a), left))
    BY <2>2, <2>3
  <2> QED BY <1>11, <2>1, <2>4, FollowsOn
<1>17. left <= 0 \/ left > 0
  BY <1>1
<1> HIDE DEF left
<1> QED BY <1>13, <1>14, <1>15, <1>16, <1>17, Zenon

\* A drop frees an unmarked attempt for its replacement, and no other (drop.ts recordDrop).
LEMMA DroppedFollows ==
    ASSUME NEW t, StepKept(t), NEW a \in Attempt, NEW room,
           t.att[a].state = "abandoned" /\ t.att[a].drop = "none"
               => \A b \in Written(t) : Past(t.att[b])
    PROVE  \A cause \in {"worker_lost", "provider"} : Follows(t, Dropped(t, a, cause, room))
<1> SUFFICES ASSUME NEW cause \in {"worker_lost", "provider"}
             PROVE  Follows(t, Dropped(t, a, cause, room))
  OBVIOUS
<1> DEFINE r == t.att[a]
           dropped == [t EXCEPT !.att[a].drop = cause,
                                !.att[a].state = IF @ = "abandoned" THEN "dropped" ELSE @]
           q == [r EXCEPT !.drop = cause,
                          !.state = IF @ = "abandoned" THEN "dropped" ELSE @]
<1>1. /\ r \in Row /\ RowKept(r) /\ t.att \in [Attempt -> Row] /\ t.run \in RunStates
      /\ t = [att |-> t.att, run |-> t.run, envelope |-> t.envelope]
  BY RowsOfKept
<1>5. dropped = PutRow(t, a, q, t.run)
  <2> DEFINE f == [t.att EXCEPT
                      ![a].drop = cause,
                      ![a].state = IF @ = "abandoned" THEN "dropped" ELSE @]
  <2>1. dropped = [att |-> f, run |-> t.run, envelope |-> t.envelope]
    <3>1. t = [att |-> t.att, run |-> t.run, envelope |-> t.envelope]
      BY <1>1
    <3>5. dropped = [t EXCEPT !.att[a].drop = cause,
                              !.att[a].state = IF @ = "abandoned" THEN "dropped" ELSE @]
      OBVIOUS
    <3> HIDE DEF dropped
    <3>2. dropped = [att |-> dropped.att, run |-> dropped.run, envelope |-> dropped.envelope]
      BY <3>1, <3>5
    <3>3. dropped.run = t.run /\ dropped.envelope = t.envelope
      BY <3>1, <3>5
    <3>4. dropped.att = f
      BY <3>1, <3>5
    <3> HIDE DEF f
    <3> QED BY <3>2, <3>3, <3>4
  <2>2. f = [t.att EXCEPT ![a] = q]
    BY <1>1
  <2> HIDE DEF f, q, dropped
  <2> QED BY <2>1, <2>2 DEF PutRow
<1>2. CASE r.drop # "none" \/ r.state \notin {"abandoned", "liability_unknown"}
  BY <1>2, FollowsItself DEF Dropped
<1>3. CASE r.drop = "none" /\ r.state = "liability_unknown"
  <2> DEFINE s == [r EXCEPT !.drop = cause]
  <2>1. Dropped(t, a, cause, room) = PutRow(t, a, s, t.run)
    <3>1. Dropped(t, a, cause, room) = dropped
      BY <1>3 DEF Dropped
    <3>2. q = s
      BY <1>1, <1>3 DEF Row
    <3> HIDE DEF q, s, dropped
    <3> QED BY <1>5, <3>1, <3>2
  <2>2. s \in Row /\ SameMoney(r, s) /\ s.state = "liability_unknown"
    BY <1>1, <1>3 DEF Row, SameMoney
  <2>3. RowKept(s)
    BY <1>1, <1>3 DEF Row, RowKept, RowOpen, RowLeased, RowMarked, RowAnswered, LeaseLive
  <2>4. Goes(r, s) /\ (Past(r) => Past(s))
    BY <1>1 DEF Goes, Steps, Past, Row
  <2>5. Stays(r, s)
    BY <2>2, <2>3, <2>4 DEF Stays
  <2> HIDE DEF s
  <2>6. PutsOnly(t, PutRow(t, a, s, t.run), a, s, t.run)
    BY <1>1, <1>3, <2>2, <2>4, <2>5, PuttingFollows
  <2> QED BY <2>1, <2>6 DEF PutsOnly
<1>4. CASE r.drop = "none" /\ r.state = "abandoned"
  <2> DEFINE s == [r EXCEPT !.drop = cause, !.state = "dropped"]
  <2>1. dropped = PutRow(t, a, s, t.run)
    <3>1. q = s
      BY <1>1, <1>4 DEF Row
    <3> HIDE DEF q, s, dropped
    <3> QED BY <1>5, <3>1
  <2>2. s \in Row /\ SameMoney(r, s) /\ s.state = "dropped"
    <3>1. s \in Row
      <4> DEFINE p == [r EXCEPT !.drop = cause]
      <4>1. p \in Row
        BY <1>1 DEF Row
      <4>2. s = [p EXCEPT !.state = "dropped"]
        OBVIOUS
      <4> HIDE DEF p, s
      <4> QED BY <4>1, <4>2 DEF Row
    <3>2. SameMoney(r, s) /\ s.state = "dropped"
      BY <1>1 DEF Row, SameMoney
    <3> QED BY <3>1, <3>2
  <2>3. RowKept(s)
    BY <1>1, <1>4 DEF Row, RowKept, RowOpen, RowLeased, RowMarked, RowAnswered, LeaseLive
  <2>4. Goes(r, s) /\ (Past(r) => Past(s))
    BY <1>1, <1>4 DEF Goes, Steps, Past, Row
  <2>5. Stays(r, s)
    BY <2>2, <2>3, <2>4 DEF Stays
  <2>6. Dropped(t, a, cause, room) = Resumed(dropped, a, FALSE, room)
    BY <1>4 DEF Dropped
  <2> HIDE DEF s, dropped
  <2>7. PutsOnly(t, dropped, a, s, t.run)
    BY <1>1, <1>4, <2>1, <2>2, <2>4, <2>5, PuttingFollows
  <2>8. /\ StepKept(dropped) /\ Follows(t, dropped) /\ dropped.att[a].state # "none"
        /\ \A b \in Written(dropped) : Past(dropped.att[b])
    <3>1. a \in Written(t) /\ \A b \in Written(t) : Past(t.att[b])
      BY <1>4 DEF Written
    <3>2. \A b \in Written(dropped) : Past(dropped.att[b])
      <4> SUFFICES ASSUME NEW b \in Written(dropped) PROVE Past(dropped.att[b])
        OBVIOUS
      <4>1. b \in Written(t) /\ b \in Attempt /\ Past(t.att[b])
        BY <2>7, <3>1 DEF PutsOnly, Written
      <4>2. CASE b = a
        BY <2>4, <2>7, <4>1, <4>2 DEF PutsOnly
      <4>3. CASE b # a
        BY <2>7, <4>1, <4>3 DEF PutsOnly
      <4> QED BY <4>2, <4>3
    <3> QED BY <2>2, <2>7, <3>2 DEF PutsOnly, Follows
  <2>9. Follows(dropped, Resumed(dropped, a, FALSE, room))
    BY <2>8, ResumedFollows
  <2> QED BY <2>6, <2>8, <2>9, FollowsOn
<1> QED BY <1>2, <1>3, <1>4

(***************************************************************************)
(* Settling and releasing a hold, and stopping a replacement.              *)
(***************************************************************************)
LEMMA EndedPut ==
    ASSUME NEW w, w.att \in [Attempt -> Row], NEW a \in Attempt,
           w = [att |-> w.att, run |-> w.run, envelope |-> w.envelope]
    PROVE  \A state, outcome :
               [w EXCEPT !.att[a].state = state, !.att[a].outcome = outcome]
               = PutRow(w, a, [w.att[a] EXCEPT !.state = state, !.outcome = outcome], w.run)
<1> TAKE state, outcome
<1> DEFINE u == [w EXCEPT !.att[a].state = state, !.att[a].outcome = outcome]
           f == [w.att EXCEPT ![a].state = state, ![a].outcome = outcome]
           q == [w.att[a] EXCEPT !.state = state, !.outcome = outcome]
<1>1. u = [w EXCEPT !.att[a].state = state, !.att[a].outcome = outcome]
  OBVIOUS
<1>2. f = [w.att EXCEPT ![a] = q]
  OBVIOUS
<1> HIDE DEF u
<1>3. u = [att |-> u.att, run |-> u.run, envelope |-> u.envelope]
  BY <1>1
<1>4. u.run = w.run /\ u.envelope = w.envelope
  BY <1>1
<1>5. u.att = f
  BY <1>1
<1> HIDE DEF f, q
<1>6. u = PutRow(w, a, q, w.run)
  BY <1>2, <1>3, <1>4, <1>5 DEF PutRow
<1> QED BY <1>6 DEF u, q

\* Settling a held attempt rewrites its row and moves its hold by amount.
LEMMA SettledIsWithRow ==
    ASSUME NEW t \in TablesType, NEW a \in Attempt,
           t.att[a].hold = "held", t.att[a].actual = 0
    PROVE  \A spent \in Nat \ {0}, outcome \in {"completed", "failed"} :
               Settled(t, a, spent, outcome)
               = WithRow(t, a, SettledRow(t.att[a], spent, outcome), t.run)
<1> SUFFICES ASSUME NEW spent \in Nat \ {0}, NEW outcome \in {"completed", "failed"}
             PROVE  Settled(t, a, spent, outcome)
                    = WithRow(t, a, SettledRow(t.att[a], spent, outcome), t.run)
  OBVIOUS
<1> DEFINE r == t.att[a]
           c == ClosedRow(r, "none", spent, FALSE)
           s == SettledRow(r, spent, outcome)
           w == WithRow(t, a, c, t.run)
<1>1. r \in Row /\ t.att \in [Attempt -> Row]
  BY DEF TablesType
<1>2. spent \in Nat /\ "none" \in Causes /\ FALSE \in BOOLEAN
  BY DEF Causes
<1>3. Closed(t, a, "none", spent, FALSE) = w
  BY <1>2, ClosedIsWithRow, Zenon
<1>4. c \in Row
  BY <1>1, <1>2, ClosedRowIs, Zenon
<1>5. s \in Row
  BY <1>1, SettledRowIs
<1>6. s = [c EXCEPT !.state = "settled", !.outcome = outcome]
  BY DEF SettledRow
<1>7. SameMoney(c, s)
  <2> HIDE DEF c, s
  <2> QED BY <1>4, <1>6 DEF SameMoney, Row
<1> HIDE DEF c, s
<1>8. /\ w.att \in [Attempt -> Row] /\ w.att[a] = c /\ w.run = t.run
      /\ w = [att |-> w.att, run |-> w.run, envelope |-> w.envelope]
  BY <1>1, <1>4 DEF WithRow
<1> HIDE DEF w
<1>9. [w EXCEPT !.att[a].state = "settled", !.att[a].outcome = outcome] = PutRow(w, a, s, w.run)
  <2>1. [w EXCEPT !.att[a].state = "settled", !.att[a].outcome = outcome]
        = PutRow(w, a, [w.att[a] EXCEPT !.state = "settled", !.outcome = outcome], w.run)
    <3>1. \A state, out :
              [w EXCEPT !.att[a].state = state, !.att[a].outcome = out]
              = PutRow(w, a, [w.att[a] EXCEPT !.state = state, !.outcome = out], w.run)
      BY <1>8, EndedPut
    <3> QED BY <3>1, Zenon
  <2> QED BY <1>6, <1>8, <2>1
<1>10. Settled(t, a, spent, outcome) = PutRow(w, a, s, t.run)
  BY <1>3, <1>8, <1>9 DEF Settled
<1>11. PutRow(w, a, s, t.run) = WithRow(t, a, s, t.run)
  BY <1>4, <1>5, <1>7, RowAlone DEF w
<1> QED BY <1>10, <1>11 DEF s

\* So does releasing it at what its calls cost.
LEMMA ReleasedIsWithRow ==
    ASSUME NEW t \in TablesType, NEW a \in Attempt,
           t.att[a].hold = "held", t.att[a].actual = 0
    PROVE  Released(t, a) = WithRow(t, a, ReleasedRow(t.att[a]), t.run)
<1> DEFINE r == t.att[a]
           n == CallsSpent(r)
           c == ClosedRow(r, "outcome_recorded", n, FALSE)
           s == ReleasedRow(r)
           w == WithRow(t, a, c, t.run)
<1>1. r \in Row /\ t.att \in [Attempt -> Row]
  BY DEF TablesType
<1>2. n \in Nat /\ "outcome_recorded" \in Causes /\ FALSE \in BOOLEAN
  BY CallsSpentNat DEF Causes
<1>5. s \in Row
  BY <1>1, ReleasedRowIs
<1>6. s = [c EXCEPT !.state = "abandoned", !.outcome = "abandoned"]
  BY DEF ReleasedRow
<1>12. Released(t, a) = [Closed(t, a, "outcome_recorded", n, FALSE) EXCEPT
                           !.att[a].state = "abandoned", !.att[a].outcome = "abandoned"]
  BY DEF Released
<1> HIDE DEF n
<1>3. Closed(t, a, "outcome_recorded", n, FALSE) = w
  BY <1>2, ClosedIsWithRow, Zenon
<1>4. c \in Row
  BY <1>1, <1>2, ClosedRowIs, Zenon
<1>7. SameMoney(c, s)
  <2> HIDE DEF c, s
  <2> QED BY <1>4, <1>6 DEF SameMoney, Row
<1> HIDE DEF c, s
<1>8. /\ w.att \in [Attempt -> Row] /\ w.att[a] = c /\ w.run = t.run
      /\ w = [att |-> w.att, run |-> w.run, envelope |-> w.envelope]
  BY <1>1, <1>4 DEF WithRow
<1> HIDE DEF w
<1>9. [w EXCEPT !.att[a].state = "abandoned", !.att[a].outcome = "abandoned"]
      = PutRow(w, a, s, w.run)
  <2>1. [w EXCEPT !.att[a].state = "abandoned", !.att[a].outcome = "abandoned"]
        = PutRow(w, a, [w.att[a] EXCEPT !.state = "abandoned", !.outcome = "abandoned"], w.run)
    <3>1. \A state, out :
              [w EXCEPT !.att[a].state = state, !.att[a].outcome = out]
              = PutRow(w, a, [w.att[a] EXCEPT !.state = state, !.outcome = out], w.run)
      BY <1>8, EndedPut
    <3> QED BY <3>1, Zenon
  <2> QED BY <1>6, <1>8, <2>1
<1>10. Released(t, a) = PutRow(w, a, s, t.run)
  BY <1>3, <1>8, <1>9, <1>12
<1>11. PutRow(w, a, s, t.run) = WithRow(t, a, s, t.run)
  BY <1>4, <1>5, <1>7, RowAlone DEF w
<1> QED BY <1>10, <1>11 DEF s

\* What a change of one attempt alone leaves of the others.
Touches(t, u, a) ==
    /\ Follows(t, u) /\ u.run = t.run /\ Written(u) = Written(t)
    /\ \A b \in Attempt \ {a} : u.att[b] = t.att[b]

\* Stopping a replacement moves its own row and its hold's money alone (outcome.ts
\* stopReplacement).
LEMMA ReplacementStoppedTouches ==
    ASSUME NEW t, StepKept(t), NEW b \in Attempt, t.att[b].hold = "held", ~ t.att[b].marked
    PROVE  Touches(t, ReplacementStopped(t, b), b)
<1> DEFINE r == t.att[b]
           w == IF LeaseLive(r) THEN Retired(t, b) ELSE t
           q == w.att[b]
           s == ReleasedRow(q)
<1>1. /\ r \in Row /\ RowKept(r) /\ t.att \in [Attempt -> Row] /\ t.run \in RunStates
      /\ r.state # "none"
  BY RowsOfKept DEF RowKept, RowOpen
<1>2. CASE CallOpen(r)
  BY <1>2, FollowsItself DEF ReplacementStopped, Touches
<1>3. CASE ~ CallOpen(r)
  <2>1. ReplacementStopped(t, b) = Released(w, b)
    BY <1>3 DEF ReplacementStopped, LeaseRetired
  <2>2. /\ PutsOnly(t, w, b, q, t.run) /\ q \in Row /\ SameEnd(r, q) /\ Stays(r, q)
        /\ ~ LeaseLive(q)
    <3>1. CASE ~ LeaseLive(r)
      BY <1>1, <3>1, FollowsItself DEF PutsOnly, SameEnd, Stays
    <3>2. CASE LeaseLive(r)
      <4>1. w = Retired(t, b) /\ PutsOnly(t, Retired(t, b), b, RetiredRow(r), t.run)
        BY <1>1, <3>2, RetiredFollows
      <4>2. q = RetiredRow(r)
        BY <4>1 DEF PutsOnly
      <4> HIDE DEF w, q
      <4>3. /\ q \in Row /\ SameEnd(r, q) /\ Stays(r, q) /\ q.lease = "released"
        BY <1>1, <3>2, <4>2, RetiredRowStays
      <4> QED BY <4>1, <4>2, <4>3 DEF LeaseLive
    <3> QED BY <3>1, <3>2
  <2> HIDE DEF w, q
  <2>3. /\ w \in TablesType /\ StepKept(w) /\ w.run \in RunStates /\ w.att[b] = q
        /\ q.hold = "held" /\ q.actual = 0 /\ q.state # "none" /\ ~ q.marked /\ RowKept(q)
        /\ q.word = "none" /\ q.outcome = "none" /\ q.amount > 0
        /\ q.note # "written" /\ ~ q.absent
    BY <1>1, <2>2
    DEF PutsOnly, Follows, StepKept, TablesType, SameEnd, Stays, RowKept, RowOpen, RowMarked
  <2>4. Released(w, b) = WithRow(w, b, s, w.run)
    BY <2>3, ReleasedIsWithRow
  <2>5. /\ s \in Row /\ s.state = "abandoned" /\ s.outcome = "abandoned"
        /\ s.hold \in {"actual", "abandoned"} /\ SameWork(q, s)
    BY <2>2, ReleasedRowIs
  <2> HIDE DEF s
  <2>6. RowKept(s)
    BY <2>2, <2>3, <2>5
    DEF RowKept, RowOpen, RowLeased, RowMarked, RowAnswered, LeaseLive, SameWork
  <2>7. Goes(q, s) /\ Past(s)
    BY <2>2, <2>3, <2>5 DEF Goes, Steps, Past, SameWork, RowKept, RowOpen
  <2>8. Stays(q, s)
    BY <2>5, <2>6, <2>7 DEF Stays
  <2>9. PutsOnly(w, WithRow(w, b, s, w.run), b, s, w.run)
    BY <2>3, <2>5, <2>7, <2>8, RewritingFollows
  <2>10. Follows(t, WithRow(w, b, s, w.run))
    BY <2>2, <2>9, FollowsOn DEF PutsOnly
  <2> QED BY <2>1, <2>2, <2>4, <2>9, <2>10 DEF Touches, PutsOnly
<1> QED BY <1>2, <1>3

\* A loop over no attempt, or one.
LEMMA ReplacementsInTurn ==
    ASSUME NEW t, NEW n, NEW A \in SUBSET {n}
    PROVE  InTurn(ReplacementStopped, t, A) = IF A = {} THEN t ELSE ReplacementStopped(t, n)
<1> DEFINE I == CHOOSE iter : iter = [s \in SUBSET A |->
                    IF s = {} THEN t
                    ELSE ReplacementStopped(iter[s \ {CHOOSE x \in s : TRUE}], CHOOSE x \in s : TRUE)]
           Op(v, x) == ReplacementStopped(v, x)
           g == [s \in SUBSET A |-> IF s = {} THEN t ELSE Op(t, n)]
<1>1. InTurn(ReplacementStopped, t, A) = I[A]
  BY DEF InTurn, FoldSet, MapThenFoldSet
<1> HIDE DEF Op
<1>2. g = [s \in SUBSET A |-> IF s = {} THEN t ELSE Op(g[s \ {Chosen(s)}], Chosen(s))]
  <2>1. ASSUME NEW s \in SUBSET A, s # {}
        PROVE  Op(g[s \ {Chosen(s)}], Chosen(s)) = Op(t, n)
    <3>1. Chosen(s) \in s
      BY <2>1 DEF Chosen
    <3>2. Chosen(s) = n /\ s \ {Chosen(s)} = {}
      BY <2>1, <3>1
    <3>3. {} \in SUBSET A
      OBVIOUS
    <3>4. g[{}] = t
      BY <3>3
    <3> HIDE DEF g
    <3> QED BY <3>2, <3>4
  <2> QED BY <2>1
<1>3. I = [s \in SUBSET A |-> IF s = {} THEN t ELSE Op(I[s \ {Chosen(s)}], Chosen(s))]
  <2> HIDE DEF g
  <2>1. g = [s \in SUBSET A |->
                IF s = {} THEN t
                ELSE ReplacementStopped(g[s \ {CHOOSE x \in s : TRUE}], CHOOSE x \in s : TRUE)]
    BY <1>2, Zenon DEF Op, Chosen
  <2>2. I = [s \in SUBSET A |->
                IF s = {} THEN t
                ELSE ReplacementStopped(I[s \ {CHOOSE x \in s : TRUE}], CHOOSE x \in s : TRUE)]
    BY <2>1, Zenon
  <2> QED BY <2>2, Zenon DEF Op, Chosen
<1> HIDE DEF I, g
<1>4. CASE A = {}
  <2>1. I[A] = t
    BY <1>3, <1>4
  <2> QED BY <1>1, <1>4, <2>1
<1>5. CASE A # {}
  <2>1. A = {n} /\ {} \in SUBSET A /\ A \in SUBSET A
    BY <1>5
  <2>2. Chosen(A) \in A
    BY <1>5 DEF Chosen
  <2>3. Chosen(A) = n /\ A \ {Chosen(A)} = {}
    BY <2>1, <2>2
  <2>4. I[{}] = t
    BY <1>3, <2>1
  <2>5. I[A] = Op(I[A \ {Chosen(A)}], Chosen(A))
    BY <1>3, <1>5, <2>1
  <2>6. I[A] = Op(t, n)
    BY <2>3, <2>4, <2>5
  <2> QED BY <1>1, <1>5, <2>6 DEF Op
<1> QED BY <1>4, <1>5

\* The sweep goes through at most one attempt of the step: the others are past.
LEMMA SweptInTurn ==
    ASSUME NEW t, NEW n, NEW room, NEW A \in SUBSET {n}
    PROVE  InTurn(LAMBDA u, a : SweptOne(u, a, room), t, A) = IF A = {} THEN t ELSE SweptOne(t, n, room)
<1> DEFINE I == CHOOSE iter : iter = [s \in SUBSET A |->
                    IF s = {} THEN t
                    ELSE SweptOne(iter[s \ {CHOOSE x \in s : TRUE}], CHOOSE x \in s : TRUE, room)]
           Op(v, x) == SweptOne(v, x, room)
           g == [s \in SUBSET A |-> IF s = {} THEN t ELSE Op(t, n)]
<1>1. InTurn(LAMBDA u, a : SweptOne(u, a, room), t, A) = I[A]
  BY DEF InTurn, FoldSet, MapThenFoldSet
<1> HIDE DEF Op
<1>2. g = [s \in SUBSET A |-> IF s = {} THEN t ELSE Op(g[s \ {Chosen(s)}], Chosen(s))]
  <2>1. ASSUME NEW s \in SUBSET A, s # {}
        PROVE  Op(g[s \ {Chosen(s)}], Chosen(s)) = Op(t, n)
    <3>1. Chosen(s) \in s
      BY <2>1 DEF Chosen
    <3>2. Chosen(s) = n /\ s \ {Chosen(s)} = {}
      BY <2>1, <3>1
    <3>3. {} \in SUBSET A
      OBVIOUS
    <3>4. g[{}] = t
      BY <3>3
    <3> HIDE DEF g
    <3> QED BY <3>2, <3>4
  <2> QED BY <2>1
<1>3. I = [s \in SUBSET A |-> IF s = {} THEN t ELSE Op(I[s \ {Chosen(s)}], Chosen(s))]
  <2> HIDE DEF g
  <2>1. g = [s \in SUBSET A |->
                IF s = {} THEN t
                ELSE SweptOne(g[s \ {CHOOSE x \in s : TRUE}], CHOOSE x \in s : TRUE, room)]
    BY <1>2, Zenon DEF Op, Chosen
  <2>2. I = [s \in SUBSET A |->
                IF s = {} THEN t
                ELSE SweptOne(I[s \ {CHOOSE x \in s : TRUE}], CHOOSE x \in s : TRUE, room)]
    BY <2>1, Zenon
  <2> QED BY <2>2, Zenon DEF Op, Chosen
<1> HIDE DEF I, g
<1>4. CASE A = {}
  <2>1. I[A] = t
    BY <1>3, <1>4
  <2> QED BY <1>1, <1>4, <2>1
<1>5. CASE A # {}
  <2>1. A = {n} /\ {} \in SUBSET A /\ A \in SUBSET A
    BY <1>5
  <2>2. Chosen(A) \in A
    BY <1>5 DEF Chosen
  <2>3. Chosen(A) = n /\ A \ {Chosen(A)} = {}
    BY <2>1, <2>2
  <2>4. I[{}] = t
    BY <1>3, <2>1
  <2>5. I[A] = Op(I[A \ {Chosen(A)}], Chosen(A))
    BY <1>3, <1>5, <2>1
  <2>6. I[A] = Op(t, n)
    BY <2>3, <2>4, <2>5
  <2> QED BY <1>1, <1>5, <2>6 DEF Op
<1> QED BY <1>4, <1>5

\* A pickup fences each lapsed lease of the task in turn; whatever each keeps, all keep.
LEMMA FencedInTurn ==
    ASSUME NEW T, NEW t \in T, NEW A \in SUBSET Attempt,
           \A u \in T, a \in A : Classified([u EXCEPT !.att[a].lease = "expired"], a) \in T
    PROVE  InTurn(LAMBDA u, b : Classified([u EXCEPT !.att[b].lease = "expired"], b), t, A) \in T
<1> DEFINE I == CHOOSE iter : iter = [s \in SUBSET A |->
                    IF s = {} THEN t
                    ELSE Classified([iter[s \ {CHOOSE x \in s : TRUE}] EXCEPT !.att[CHOOSE x \in s : TRUE].lease = "expired"], CHOOSE x \in s : TRUE)]
           Op(v, x) == Classified([v EXCEPT !.att[x].lease = "expired"], x)
           G == [p \in A \X T |-> Op(p[2], p[1])]
<1>1. InTurn(LAMBDA u, b : Classified([u EXCEPT !.att[b].lease = "expired"], b), t, A) = I[A]
  BY DEF InTurn, FoldSet, MapThenFoldSet
<1>2. IsFiniteSet(A)
  BY AttemptsAreFinite, FS_Subset
<1>3. \A x \in A, v \in T : G[<<x, v>>] = Op(v, x) /\ Op(v, x) \in T
  OBVIOUS
<1> HIDE DEF G, Op
<1>4. PICK g : Folds(G, t, A, g) /\ \A s \in SUBSET A : g[s] \in T
  <2>1. \A x \in A, v \in T : G[<<x, v>>] \in T
    BY <1>3
  <2> QED BY <1>2, <2>1, FoldsWithin
<1>5. g = [s \in SUBSET A |-> IF s = {} THEN t ELSE Op(g[s \ {Chosen(s)}], Chosen(s))]
  <2>1. ASSUME NEW s \in SUBSET A, s # {}
        PROVE  G[<<Chosen(s), g[s \ {Chosen(s)}]>>] = Op(g[s \ {Chosen(s)}], Chosen(s))
    <3>1. Chosen(s) \in A
      BY <2>1 DEF Chosen
    <3> QED BY <1>3, <1>4, <3>1
  <2>2. g = [s \in SUBSET A |-> IF s = {} THEN t ELSE G[<<Chosen(s), g[s \ {Chosen(s)}]>>]]
    BY <1>4, Zenon DEF Folds, Folding
  <2> QED BY <2>1, <2>2
<1>6. I = [s \in SUBSET A |-> IF s = {} THEN t ELSE Op(I[s \ {Chosen(s)}], Chosen(s))]
  <2>1. g = [s \in SUBSET A |->
                IF s = {} THEN t
                ELSE Classified([g[s \ {CHOOSE x \in s : TRUE}] EXCEPT !.att[CHOOSE x \in s : TRUE].lease = "expired"], CHOOSE x \in s : TRUE)]
    BY <1>5, Zenon DEF Op, Chosen
  <2>2. I = [s \in SUBSET A |->
                IF s = {} THEN t
                ELSE Classified([I[s \ {CHOOSE x \in s : TRUE}] EXCEPT !.att[CHOOSE x \in s : TRUE].lease = "expired"], CHOOSE x \in s : TRUE)]
    BY <2>1, Zenon
  <2> QED BY <2>2, Zenon DEF Op, Chosen
<1> HIDE DEF I
<1>7. I[{}] \in T
  BY <1>6
<1>8. ASSUME NEW s \in SUBSET A, s # {}, I[s \ {Chosen(s)}] \in T
      PROVE  I[s] \in T
  <2>1. Chosen(s) \in A
    BY <1>8 DEF Chosen
  <2>2. I[s] = Op(I[s \ {Chosen(s)}], Chosen(s))
    BY <1>6, <1>8
  <2> QED BY <1>3, <1>8, <2>1, <2>2
<1>9. \A s \in SUBSET A : I[s] \in T
  BY <1>2, <1>7, <1>8, FoldStays
<1> QED BY <1>1, <1>9

(***************************************************************************)
(* A lease that ends, and the fence of a claim.                            *)
(***************************************************************************)
LEMMA LeaseEnds ==
    ASSUME NEW t, StepKept(t), NEW a \in Attempt, t.att[a].lease # "none"
    PROVE  \A end \in {"expired", "released"} :
               LET s == [t.att[a] EXCEPT !.lease = end] IN
               /\ PutsOnly(t, [t EXCEPT !.att[a].lease = end], a, s, t.run)
               /\ s \in Row /\ SameEnd(t.att[a], s) /\ s.lease = end
<1> SUFFICES ASSUME NEW end \in {"expired", "released"}
             PROVE  LET s == [t.att[a] EXCEPT !.lease = end] IN
                    /\ PutsOnly(t, [t EXCEPT !.att[a].lease = end], a, s, t.run)
                    /\ s \in Row /\ SameEnd(t.att[a], s) /\ s.lease = end
  OBVIOUS
<1> DEFINE r == t.att[a]
           s == [r EXCEPT !.lease = end]
<1>1. /\ r \in Row /\ RowKept(r) /\ t.att \in [Attempt -> Row] /\ t.run \in RunStates
      /\ t = [att |-> t.att, run |-> t.run, envelope |-> t.envelope]
  BY RowsOfKept
<1>2. r.state \notin {"none", "reserved"}
  <2>1. Unwritten.lease = "none" /\ Fresh(r.amount).lease = "none"
    BY DEF Fresh, Unwritten
  <2> QED BY <1>1, <2>1 DEF RowKept, RowOpen
<1>3. [t EXCEPT !.att[a].lease = end] = PutRow(t, a, s, t.run)
  BY <1>1 DEF PutRow
<1>4. s \in Row /\ SameEnd(r, s) /\ s.lease = end
  BY <1>1 DEF Row, SameEnd
<1> HIDE DEF s
<1>5. SameMoney(r, s)
  BY <1>4 DEF SameMoney, SameEnd
<1>6. RowKept(s)
  BY <1>1, <1>2, <1>4
  DEF SameEnd, RowKept, RowOpen, RowLeased, RowMarked, RowAnswered, LeaseLive
<1>7. Goes(r, s) /\ (Past(r) => Past(s))
  BY <1>4 DEF SameEnd, Goes, Steps, Past
<1>8. Stays(r, s)
  BY <1>2, <1>4, <1>6, <1>7 DEF Stays, SameEnd
<1>9. PutsOnly(t, PutRow(t, a, s, t.run), a, s, t.run)
  BY <1>1, <1>2, <1>4, <1>5, <1>7, <1>8, PuttingFollows
<1> QED BY <1>3, <1>4, <1>9 DEF s

\* What the classifier makes of a row whose lease is over.
LEMMA ClassifiedTouches ==
    ASSUME NEW t, StepKept(t), NEW a \in Attempt, t.att[a].state # "none", ~ LeaseLive(t.att[a])
    PROVE  LET u == Classified(t, a) IN
           /\ Touches(t, u, a) /\ u.att[a] = ClassifiedRow(t.att[a])
           /\ SameWork(t.att[a], u.att[a]) /\ u.att[a].state # "none"
<1> DEFINE r == t.att[a]
           s == ClassifiedRow(r)
           u == Classified(t, a)
<1>1. r \in Row /\ RowKept(r)
  BY RowsOfKept
<1>2. Stays(r, s) /\ SameWork(r, s)
  BY <1>1, ClassifiedRowStays
<1> HIDE DEF s, u
<1>3. /\ StepKept(u) /\ Moving(t, u) /\ u.run = t.run /\ u.att[a] = s
      /\ \A b \in Attempt \ {a} : u.att[b] = t.att[b]
  BY ClassifiedKeeps DEF s, u
<1>4. s.state # "none"
  BY <1>2 DEF Stays
<1>5. Written(u) = Written(t)
  BY <1>3, <1>4 DEF Written
<1> QED BY <1>2, <1>3, <1>4, <1>5 DEF Touches, Follows, s, u

\* Fencing one lease expires it and classifies its attempt (loseLease).
LEMMA FencedOne ==
    ASSUME NEW t, StepKept(t), NEW a \in Attempt, t.att[a].lease # "none"
    PROVE  LET u == Classified([t EXCEPT !.att[a].lease = "expired"], a) IN
           Touches(t, u, a) /\ u.att[a].lease = "expired"
<1> DEFINE w == [t EXCEPT !.att[a].lease = "expired"]
           s == [t.att[a] EXCEPT !.lease = "expired"]
           u == Classified(w, a)
<1>1. PutsOnly(t, w, a, s, t.run) /\ s \in Row /\ SameEnd(t.att[a], s) /\ s.lease = "expired"
  BY LeaseEnds
<1>2. RowKept(t.att[a])
  BY RowsOfKept
<1>3. s.state # "none"
  BY <1>1, <1>2 DEF SameEnd, RowKept, RowOpen, Unwritten
<1> HIDE DEF w, s
<1>4. /\ StepKept(w) /\ Follows(t, w) /\ w.att[a] = s /\ ~ LeaseLive(s) /\ w.run = t.run
      /\ Written(w) = Written(t) /\ \A b \in Attempt \ {a} : w.att[b] = t.att[b]
  BY <1>1 DEF PutsOnly, Follows, LeaseLive
<1>5. Touches(w, u, a) /\ SameWork(s, u.att[a])
  BY <1>3, <1>4, ClassifiedTouches
<1> HIDE DEF u
<1>6. u.att[a].lease = "expired"
  BY <1>1, <1>5 DEF SameWork
<1>7. Follows(t, u)
  BY <1>4, <1>5, FollowsOn DEF Touches
<1> QED BY <1>4, <1>5, <1>6, <1>7 DEF Touches, w, u

\* Fencing every lapsed lease takes nothing back and moves no other row.
LEMMA FencedFollows ==
    ASSUME NEW t, StepKept(t)
    PROVE  /\ Follows(t, Fenced(t)) /\ Fenced(t).run = t.run
           /\ \A b \in Attempt : t.att[b].lease # "lapsed" => Fenced(t).att[b] = t.att[b]
<1> DEFINE A == {b \in Attempt : t.att[b].lease = "lapsed"}
           T == {u \in TablesType : /\ Follows(t, u) /\ u.run = t.run
                                    /\ \A b \in A : u.att[b].lease # "none"
                                    /\ \A b \in Attempt \ A : u.att[b] = t.att[b]}
<1>1. t \in T
  BY FollowsItself DEF StepKept
<1>2. ASSUME NEW u \in T, NEW a \in A
      PROVE  Classified([u EXCEPT !.att[a].lease = "expired"], a) \in T
  <2> DEFINE w == Classified([u EXCEPT !.att[a].lease = "expired"], a)
  <2>1. StepKept(u) /\ Follows(t, u)
    BY DEF Follows
  <2>2. Touches(u, w, a) /\ w.att[a].lease = "expired"
    BY <2>1, FencedOne
  <2> HIDE DEF w
  <2>3. Follows(t, w) /\ w \in TablesType /\ w.run = t.run
    BY <2>1, <2>2, FollowsOn DEF Touches, Follows, StepKept
  <2>4. /\ \A b \in A : w.att[b].lease # "none"
        /\ \A b \in Attempt \ A : w.att[b] = t.att[b]
    BY <2>2 DEF Touches
  <2> QED BY <2>3, <2>4 DEF w
<1> HIDE DEF T
<1>3. Fenced(t) = InTurn(LAMBDA u, b : Classified([u EXCEPT !.att[b].lease = "expired"], b), t, A)
  BY DEF Fenced
<1>4. A \in SUBSET Attempt
  OBVIOUS
<1> HIDE DEF A
<1>5. InTurn(LAMBDA u, b : Classified([u EXCEPT !.att[b].lease = "expired"], b), t, A) \in T
  BY <1>1, <1>2, <1>4, FencedInTurn
<1>6. Fenced(t) \in T
  BY <1>3, <1>5, Zenon
<1> QED BY <1>6 DEF T, A

(***************************************************************************)
(* The actions.                                                            *)
(***************************************************************************)
Onward == StepInv' /\ Moving(Tables, Tables')

\* A transaction whose tables follow is a step of the invariant.
LEMMA FollowsOnward ==
    ASSUME StepInv, Follows(Tables, Tables'), approved' = approved
    PROVE  Onward
<1>1. StepKept(Tables') /\ Moving(Tables, Tables')
  BY DEF Follows
<1>2. Tables.att = att /\ Tables'.att = att'
  BY DEF Tables
<1>4. LivesApproved'
  <2> SUFFICES ASSUME ~ approved', NEW a \in Attempt
               PROVE  ~ LeaseLive(att'[a])
    BY DEF LivesApproved
  <2>1. ~ LeaseLive(att[a])
    BY DEF StepInv, LivesApproved
  <2>2. Goes(att[a], att'[a])
    BY <1>1, <1>2 DEF Moving
  <2> QED BY <2>1, <2>2 DEF Goes, LeaseLive
<1> QED BY <1>1, <1>4 DEF Onward, StepInv

\* The step's own rows.
LEMMA RowNow ==
    ASSUME StepInv, NEW a \in Attempt
    PROVE  /\ StepKept(Tables) /\ Tables.att = att /\ Tables.run = run
           /\ Tables.envelope = envelope /\ Tables.att[a] = att[a]
           /\ att[a] \in Row /\ RowKept(att[a]) /\ att \in [Attempt -> Row] /\ run \in RunStates
<1>1. StepKept(Tables) /\ Tables.att = att /\ Tables.run = run /\ Tables.envelope = envelope
  BY DEF StepInv, Tables
<1> QED BY <1>1, RowsOfKept

\* One row put anew.
LEMMA PutOnward ==
    ASSUME StepInv, NEW a \in Attempt, att[a].state # "none",
           NEW s \in Row, NEW now \in RunStates,
           Stays(att[a], s), Goes(att[a], s), SameMoney(att[a], s),
           att' = [att EXCEPT ![a] = s], run' = now, envelope' = envelope, approved' = approved
    PROVE  Onward
<1>1. StepKept(Tables) /\ Tables.att[a] = att[a]
  BY RowNow
<1>2. Follows(Tables, PutRow(Tables, a, s, now))
  BY <1>1, PuttingFollows DEF PutsOnly
<1>3. Tables' = PutRow(Tables, a, s, now)
  BY DEF Tables, PutRow
<1> QED BY <1>2, <1>3, FollowsOnward

\* A lease lapses with time.
LEMMA LapseOnward == ASSUME StepInv, NEW a \in Attempt, Lapse(a) PROVE Onward
<1> DEFINE r == att[a]
           s == [r EXCEPT !.lease = "lapsed"]
<1>1. /\ r \in Row /\ RowKept(r) /\ att \in [Attempt -> Row] /\ run \in RunStates
      /\ r.lease = "live" /\ Tables.att[a] = r /\ Tables.run = run
  BY RowNow DEF Lapse
<1>2. r.state \notin {"none", "reserved"}
  <2>1. Unwritten.lease = "none" /\ Fresh(r.amount).lease = "none"
    BY DEF Fresh, Unwritten
  <2> QED BY <1>1, <2>1 DEF RowKept, RowOpen
<1>3. /\ att' = [att EXCEPT ![a] = s] /\ run' = run
      /\ envelope' = envelope /\ approved' = approved
  BY <1>1 DEF Lapse, Commit, Tables
<1>4. s \in Row /\ SameEnd(r, s) /\ s.lease = "lapsed"
  BY <1>1 DEF Row, SameEnd
<1> HIDE DEF s
<1>5. RowKept(s)
  BY <1>1, <1>2, <1>4
  DEF SameEnd, RowKept, RowOpen, RowLeased, RowMarked, RowAnswered, LeaseLive
<1>6. Goes(r, s) /\ (Past(r) => Past(s)) /\ SameMoney(r, s)
  BY <1>1, <1>4 DEF SameEnd, Goes, Steps, Past, SameMoney
<1>7. Stays(r, s)
  BY <1>2, <1>4, <1>5, <1>6 DEF Stays, SameEnd
<1> QED BY <1>1, <1>2, <1>3, <1>4, <1>6, <1>7, PutOnward

\* A row that nobody claimed.
LEMMA BlankRow ==
    ASSUME NEW r \in Row, RowKept(r), r.state \in {"none", "reserved"}
    PROVE  /\ r.lease = "none" /\ r.worker = "none" /\ r.note = "none" /\ r.call = "none"
           /\ r.word = "none" /\ ~ r.marked /\ ~ r.observed /\ ~ r.absent /\ ~ r.lost
<1>1. r = Unwritten \/ r = Fresh(r.amount)
  BY DEF RowKept, RowOpen
<1> DEFINE Blank(q) ==
        /\ q.lease = "none" /\ q.worker = "none" /\ q.note = "none" /\ q.call = "none"
        /\ q.word = "none" /\ ~ q.marked /\ ~ q.observed /\ ~ q.absent /\ ~ q.lost
<1>2. Blank(Unwritten)
  BY DEF Unwritten
<1>3. \A amount : Blank(Fresh(amount))
  BY DEF Fresh, Unwritten
<1>4. Blank(r)
  <2> HIDE DEF Blank
  <2> QED BY <1>1, <1>2, <1>3
<1> QED BY <1>4

\* The worker sends its effect to a provider under its mark.
LEMMA StartProviderOnward == ASSUME StepInv, NEW a \in Attempt, StartProvider(a) PROVE Onward
<1> DEFINE r == att[a]
           s == [r EXCEPT !.started = TRUE]
<1>1. /\ r \in Row /\ RowKept(r) /\ att \in [Attempt -> Row] /\ run \in RunStates
      /\ r.state = "dispatched"
  BY RowNow DEF StartProvider
<1>2. /\ att' = [att EXCEPT ![a] = s] /\ run' = run
      /\ envelope' = envelope /\ approved' = approved
  BY <1>1 DEF StartProvider, Commit, Tables
<1>3. s \in Row /\ SameEnd(r, s) /\ s.lease = r.lease
  BY <1>1 DEF Row, SameEnd
<1> HIDE DEF s
<1>4. RowKept(s)
  BY <1>1, <1>3
  DEF SameEnd, RowKept, RowOpen, RowLeased, RowMarked, RowAnswered, LeaseLive
<1>5. Goes(r, s) /\ (Past(r) => Past(s)) /\ SameMoney(r, s)
  BY <1>3 DEF SameEnd, Goes, Steps, Past, SameMoney
<1>6. Stays(r, s)
  BY <1>1, <1>3, <1>4, <1>5 DEF Stays, SameEnd
<1> QED BY <1>1, <1>2, <1>3, <1>5, <1>6, PutOnward

\* What changes nothing but the effect's note, the mark or the call.
SameHold(r, s) ==
    /\ s.state = r.state /\ s.outcome = r.outcome /\ s.hold = r.hold
    /\ s.amount = r.amount /\ s.actual = r.actual /\ s.observed = r.observed
    /\ s.absent = r.absent /\ s.drop = r.drop /\ s.lease = r.lease /\ s.word = r.word

\* What the worker writes under the mark is noted on a dispatched attempt.
LEMMA NoteOnward ==
    ASSUME StepInv, NEW a \in Attempt, att[a].marked, att[a].state = "dispatched",
           NEW note \in {"checked", "written"},
           att' = [att EXCEPT ![a].note = note], run' = run,
           envelope' = envelope, approved' = approved
    PROVE  Onward
<1> DEFINE r == att[a]
           s == [r EXCEPT !.note = note]
<1>1. /\ r \in Row /\ RowKept(r) /\ att \in [Attempt -> Row] /\ run \in RunStates
      /\ r.state = "dispatched" /\ r.marked
  BY RowNow
<1>2. att' = [att EXCEPT ![a] = s]
  BY <1>1
<1>3. /\ s \in Row /\ SameHold(r, s) /\ s.marked = r.marked /\ s.call = r.call
      /\ s.lost = r.lost
  <2>1. s \in Row
    BY <1>1 DEF Row
  <2>2. SameHold(r, s) /\ s.marked = r.marked /\ s.call = r.call /\ s.lost = r.lost
    BY <1>1 DEF Row, SameHold
  <2> QED BY <2>1, <2>2
<1> HIDE DEF s
<1>4. RowKept(s)
  BY <1>1, <1>3
  DEF SameHold, RowKept, RowOpen, RowLeased, RowMarked, RowAnswered, LeaseLive
<1>5. Goes(r, s) /\ ~ Past(r) /\ SameMoney(r, s)
  BY <1>1, <1>3 DEF SameHold, Goes, Steps, Past, SameMoney
<1>6. Stays(r, s)
  BY <1>1, <1>3, <1>4, <1>5 DEF Stays, SameHold
<1> QED BY <1>1, <1>2, <1>3, <1>5, <1>6, PutOnward

\* The comment effect looks before it writes (tasks-comment-effect.ts).
LEMMA CheckEffectOnward == ASSUME StepInv, NEW a \in Attempt, CheckEffect(a) PROVE Onward
<1>1. att[a].marked /\ att[a].state = "dispatched"
  BY DEF CheckEffect, DispatchedToAuthor
<1>2. /\ att' = [att EXCEPT ![a].note = "checked"] /\ run' = run
      /\ envelope' = envelope /\ approved' = approved
  BY DEF CheckEffect, Commit, Tables
<1> QED BY <1>1, <1>2, NoteOnward

\* Under the step's lock the attempt is looked at again: the effect is written of a dispatched
\* attempt alone (tasks-comment-effect.ts).
LEMMA WriteEffectOnward == ASSUME StepInv, NEW a \in Attempt, WriteEffect(a) PROVE Onward
<1> DEFINE r == att[a]
<1>1. /\ r \in Row /\ RowKept(r) /\ att \in [Attempt -> Row] /\ run \in RunStates
      /\ r.note = "checked"
  BY RowNow DEF WriteEffect
<1>2. r.state \notin {"none", "reserved"}
  BY <1>1, BlankRow
<1>3. CASE Stands(r) /\ DispatchedToAuthor(a)
  <2>1. att[a].marked /\ att[a].state = "dispatched"
    BY <1>3 DEF DispatchedToAuthor
  <2>2. /\ att' = [att EXCEPT ![a].note = "written"] /\ run' = run
        /\ envelope' = envelope /\ approved' = approved
    BY <1>3 DEF WriteEffect, Commit, Tables
  <2> QED BY <2>1, <2>2, NoteOnward
<1>4. CASE ~ (Stands(r) /\ DispatchedToAuthor(a))
  <2> DEFINE s == [r EXCEPT !.note = "none"]
  <2>1. /\ att' = [att EXCEPT ![a] = s] /\ run' = run
        /\ envelope' = envelope /\ approved' = approved
    BY <1>1, <1>4 DEF WriteEffect, Commit, Tables
  <2>2. /\ s \in Row /\ SameHold(r, s) /\ s.marked = r.marked /\ s.call = r.call
        /\ s.lost = r.lost /\ s.note = "none"
    BY <1>1 DEF Row, SameHold
  <2> HIDE DEF s
  <2>3. RowKept(s)
    BY <1>1, <1>2, <2>2
    DEF SameHold, RowKept, RowOpen, RowLeased, RowMarked, RowAnswered, LeaseLive
  <2>4. Goes(r, s) /\ (Past(r) => Past(s)) /\ SameMoney(r, s)
    BY <1>1, <2>2 DEF SameHold, Goes, Steps, Past, SameMoney
  <2>5. Stays(r, s)
    BY <1>2, <2>2, <2>3, <2>4 DEF Stays, SameHold
  <2> QED BY <1>1, <1>2, <2>1, <2>2, <2>4, <2>5, PutOnward
<1> QED BY <1>3, <1>4

\* A call that starts, or that is answered or proved.
LEMMA CallOnward ==
    ASSUME StepInv, NEW a \in Attempt, att[a].lease # "none" \/ att[a].call # "none",
           NEW call \in {"dispatched", "settled", "released"},
           call = "dispatched" => ~ att[a].lost,
           att' = [att EXCEPT ![a].call = call], run' = run,
           envelope' = envelope, approved' = approved
    PROVE  Onward
<1> DEFINE r == att[a]
           s == [r EXCEPT !.call = call]
<1>1. /\ r \in Row /\ RowKept(r) /\ att \in [Attempt -> Row] /\ run \in RunStates
  BY RowNow
<1>2. r.state \notin {"none", "reserved"}
  BY <1>1, BlankRow
<1>3. att' = [att EXCEPT ![a] = s]
  BY <1>1
<1>4. /\ s \in Row /\ SameHold(r, s) /\ s.marked = r.marked /\ s.call = call
      /\ s.lost = r.lost /\ s.note = r.note
  BY <1>1 DEF Row, SameHold
<1> HIDE DEF s
<1>5. RowKept(s)
  BY <1>1, <1>2, <1>4
  DEF SameHold, RowKept, RowOpen, RowLeased, RowMarked, RowAnswered, LeaseLive
<1>6. Goes(r, s) /\ (Past(r) => Past(s)) /\ SameMoney(r, s)
  BY <1>1, <1>4 DEF SameHold, Goes, Steps, Past, SameMoney
<1>7. Stays(r, s)
  BY <1>2, <1>4, <1>5, <1>6 DEF Stays, SameHold
<1> QED BY <1>1, <1>2, <1>3, <1>4, <1>6, <1>7, PutOnward

\* A model call of the attempt is sent.
LEMMA StartCallOnward == ASSUME StepInv, NEW a \in Attempt, StartCall(a) PROVE Onward
<1>1. att[a].lease = "live" /\ att[a].call = "none"
  BY DEF StartCall
<1>2. ~ att[a].lost
  BY <1>1, RowNow DEF RowKept, RowMarked
<1>3. /\ att' = [att EXCEPT ![a].call = "dispatched"] /\ run' = run
      /\ envelope' = envelope /\ approved' = approved
  BY DEF StartCall, Commit, Tables
<1> QED BY <1>1, <1>2, <1>3, CallOnward

\* A lost call is proved late, and its hold answered.
LEMMA ProveCallOnward == ASSUME StepInv, NEW a \in Attempt, ProveCall(a) PROVE Onward
<1>1. att[a].call = "unknown"
  BY DEF ProveCall
<1>2. /\ att' = [att EXCEPT ![a].call = "released"] /\ run' = run
      /\ envelope' = envelope /\ approved' = approved
  BY DEF ProveCall, Commit, Tables
<1> QED BY <1>1, <1>2, CallOnward

\* A transaction that leaves tables which follow commits a step of the invariant.
LEMMA LandOnward ==
    ASSUME StepInv, NEW u, Follows(Tables, u),
           att' = u.att, run' = u.run, envelope' = u.envelope, approved' = approved
    PROVE  Onward
<1>1. u = [att |-> u.att, run |-> u.run, envelope |-> u.envelope]
  BY DEF Follows, StepKept, TablesType
<1>2. Tables' = u
  BY <1>1 DEF Tables
<1> QED BY <1>2, FollowsOnward

\* What no dispatch takes back: it marks one attempt of a step that nobody finished.
Answers(r, s) ==
    /\ r.hold \in {"actual", "abandoned"} => s.hold = r.hold /\ s.actual = r.actual
    /\ r.word # "none" => s.word = r.word
    /\ r.outcome # "none" => s.outcome = r.outcome
    /\ r.state = "settled" => s.state = "settled"

AnswersKept == \A a \in Attempt : Answers(att[a], att'[a])

MarksKept ==
    \A a \in Attempt :
        Finished(att) /\ att'[a].marked =>
            \/ att[a].marked
            \/ att'[a].lost /\ ~ att[a].lost

\* The dispatch mark falls on the newest attempt, and never on a step that a word has
\* finished (dispatch.ts).
LEMMA DispatchKeeps ==
    ASSUME StepInv, NEW a \in Attempt, Dispatch(a)
    PROVE  StepInv' /\ AnswersKept /\ MarksKept
<1> DEFINE r == att[a]
           s == [r EXCEPT !.marked = TRUE]
<1>1. /\ StepKept(Tables) /\ Tables.att = att /\ Tables.att[a] = r
      /\ r \in Row /\ RowKept(r) /\ att \in [Attempt -> Row] /\ run \in RunStates
      /\ r.state = "dispatched" /\ r.hold = "held"
  BY RowNow DEF Dispatch, EffectFacts
<1>2. /\ att' = [att EXCEPT ![a] = s] /\ run' = run
      /\ envelope' = envelope /\ approved' = approved
  BY <1>1 DEF Dispatch, Commit, Tables
<1>3. /\ s \in Row /\ SameHold(r, s) /\ s.marked /\ s.note = r.note /\ s.call = r.call
      /\ s.lost = r.lost
  <2>1. r \in Row
    BY <1>1
  <2> HIDE DEF r
  <2>2. s \in Row
    BY <2>1 DEF Row
  <2>3. SameHold(r, s) /\ s.marked /\ s.note = r.note /\ s.call = r.call /\ s.lost = r.lost
    BY <2>1 DEF Row, SameHold
  <2> QED BY <2>2, <2>3
<1> HIDE DEF s
<1>4. RowKept(s)
  BY <1>1, <1>3
  DEF SameHold, RowKept, RowOpen, RowLeased, RowMarked, RowAnswered, LeaseLive
<1>5. Stays(r, s) /\ SameMoney(r, s)
  BY <1>1, <1>3, <1>4 DEF Stays, SameHold, SameMoney, Past
<1>6. Tables' = PutRow(Tables, a, s, run)
  BY <1>2 DEF Tables, PutRow
<1>7. StepKept(Tables')
  BY <1>1, <1>3, <1>5, <1>6, PuttingKeeps
<1>8. LivesApproved'
  BY <1>1, <1>2, <1>3 DEF StepInv, LivesApproved, LeaseLive, SameHold
<1>9. AnswersKept
  BY <1>1, <1>2, <1>3 DEF AnswersKept, Answers, SameHold
<1>10. ~ Finished(att)
  <2>1. ~ StepSettled(Tables)
    BY DEF Dispatch, EffectFacts
  <2>2. ASSUME NEW b \in Attempt, att[b].word = "written_off" PROVE FALSE
    BY <1>1, <2>1, <2>2 DEF StepSettled, WrittenOff
  <2>3. ASSUME NEW b \in Attempt, att[b].word = "happened" PROVE FALSE
    <3>1. att[b].state = "settled" /\ att[b].outcome = "completed"
      BY <2>3, RowNow DEF RowKept, RowAnswered
    <3> QED BY <1>1, <2>1, <2>3, <3>1 DEF StepSettled
  <2> QED BY <2>2, <2>3 DEF Finished
<1> QED BY <1>2, <1>7, <1>8, <1>9, <1>10 DEF StepInv, MarksKept

(***************************************************************************)
(* The model call's settlement.                                            *)
(***************************************************************************)
LEMMA CallFollows ==
    ASSUME NEW t, StepKept(t), NEW a \in Attempt, t.att[a].call # "none"
    PROVE  \A call \in {"settled", "released"} :
               PutsOnly(t, [t EXCEPT !.att[a].call = call], a,
                        [t.att[a] EXCEPT !.call = call], t.run)
<1> TAKE call \in {"settled", "released"}
<1> DEFINE r == t.att[a]
           s == [r EXCEPT !.call = call]
<1>1. /\ r \in Row /\ RowKept(r) /\ t.att \in [Attempt -> Row] /\ t.run \in RunStates
      /\ t = [att |-> t.att, run |-> t.run, envelope |-> t.envelope]
  BY RowsOfKept
<1>2. r.state \notin {"none", "reserved"}
  BY <1>1, BlankRow
<1>3. [t EXCEPT !.att[a].call = call] = PutRow(t, a, s, t.run)
  BY <1>1 DEF PutRow
<1>4. /\ s \in Row /\ SameHold(r, s) /\ s.marked = r.marked /\ s.call = call
      /\ s.lost = r.lost /\ s.note = r.note
  BY <1>1 DEF Row, SameHold
<1> HIDE DEF s
<1>5. RowKept(s)
  BY <1>1, <1>2, <1>4
  DEF SameHold, RowKept, RowOpen, RowLeased, RowMarked, RowAnswered, LeaseLive
<1>6. Goes(r, s) /\ (Past(r) => Past(s)) /\ SameMoney(r, s)
  BY <1>1, <1>4 DEF SameHold, Goes, Steps, Past, SameMoney
<1>7. Stays(r, s)
  BY <1>2, <1>4, <1>5, <1>6 DEF Stays, SameHold
<1>8. PutsOnly(t, PutRow(t, a, s, t.run), a, s, t.run)
  BY <1>1, <1>2, <1>4, <1>6, <1>7, PuttingFollows
<1> QED BY <1>3, <1>8 DEF s

\* A settlement that is no plain answer ends the lease of an attempt that still stands.
LEMMA StoppedFollows ==
    ASSUME NEW t, StepKept(t), NEW a \in Attempt, t.att[a].state # "none"
    PROVE  LET u == StoppedAtSettlement(t, a) IN
           /\ Follows(t, u) /\ SameEnd(t.att[a], u.att[a])
           /\ Written(u) = Written(t)
           /\ t.att[a].lease = "live" /\ Stands(t.att[a]) => u.att[a].lease = "released"
<1> DEFINE r == t.att[a]
           q == RetiredRow(r)
           s == [q EXCEPT !.stopped = TRUE]
           u == StoppedAtSettlement(t, a)
           w == Retired(t, a)
<1>1. /\ r \in Row /\ RowKept(r)
  BY RowsOfKept
<1>2. CASE ~ (r.lease = "live" /\ Stands(r))
  BY <1>2, FollowsItself DEF StoppedAtSettlement, SameEnd
<1>3. CASE r.lease = "live" /\ Stands(r)
  <2>1. LeaseLive(r)
    BY <1>3 DEF LeaseLive
  <2>2. PutsOnly(t, w, a, q, t.run)
    BY <2>1, RetiredFollows
  <2>3. q \in Row /\ SameEnd(r, q) /\ q.lease = "released" /\ Stays(r, q)
    BY <1>1, <2>1, RetiredRowStays
  <2>4. u = [w EXCEPT !.att[a].stopped = TRUE]
    BY <1>3 DEF StoppedAtSettlement
  <2> HIDE DEF q, w, u
  <2>5. StepKept(w) /\ w.att[a] = q /\ Follows(t, w) /\ w.run = t.run /\ Written(w) = Written(t)
    BY <2>2 DEF PutsOnly, Follows
  <2>6. /\ RowKept(q) /\ w.att \in [Attempt -> Row] /\ w.run \in RunStates
        /\ w = [att |-> w.att, run |-> w.run, envelope |-> w.envelope]
    BY <2>5, RowsOfKept
  <2>7. u = PutRow(w, a, s, w.run)
    BY <2>4, <2>5, <2>6 DEF PutRow
  <2>8. s \in Row /\ SameEnd(q, s) /\ s.lease = "released"
    BY <2>3 DEF Row, SameEnd
  <2> HIDE DEF s
  <2>9. q.state \notin {"none", "reserved"}
    BY <2>3, <2>6, BlankRow
  <2>10. RowKept(s)
    BY <2>3, <2>6, <2>8, <2>9
    DEF SameEnd, RowKept, RowOpen, RowLeased, RowMarked, RowAnswered, LeaseLive
  <2>11. Goes(q, s) /\ (Past(q) => Past(s)) /\ SameMoney(q, s)
    BY <2>8, <2>3 DEF SameEnd, Goes, Steps, Past, SameMoney
  <2>12. Stays(q, s)
    BY <2>8, <2>9, <2>10, <2>11 DEF Stays, SameEnd
  <2>13. PutsOnly(w, u, a, s, w.run)
    BY <2>5, <2>6, <2>7, <2>8, <2>9, <2>11, <2>12, PuttingFollows
  <2>14. Follows(t, u) /\ Written(u) = Written(t) /\ u.att[a] = s
    BY <2>5, <2>13, FollowsOn DEF PutsOnly
  <2>15. SameEnd(r, s)
    BY <2>3, <2>8 DEF SameEnd
  <2> QED BY <2>8, <2>14, <2>15 DEF u
<1> QED BY <1>2, <1>3

\* A call that is lost marks its step.
LostRow(r) ==
    [r EXCEPT !.call = "unknown", !.lost = TRUE, !.marked = @ \/ r.state = "dispatched"]

Lost(t, a) ==
    [t EXCEPT !.att[a].call = "unknown", !.att[a].lost = TRUE,
              !.att[a].marked = @ \/ t.att[a].state = "dispatched"]

\* A call whose answer proves nothing marks the attempt that is dispatched, and moves no money.
LEMMA LostFollows ==
    ASSUME NEW t, StepKept(t), NEW a \in Attempt, t.att[a].call = "dispatched"
    PROVE  LET s == LostRow(t.att[a]) IN
           /\ PutsOnly(t, Lost(t, a), a, s, t.run)
           /\ s \in Row /\ SameHold(t.att[a], s)
           /\ s.marked <=> t.att[a].marked \/ t.att[a].state = "dispatched"
<1> DEFINE r == t.att[a]
           s == LostRow(r)
           u == Lost(t, a)
           now == (r.marked \/ r.state = "dispatched")
           f == [t.att EXCEPT ![a].call = "unknown", ![a].lost = TRUE, ![a].marked = now]
<1>1. /\ r \in Row /\ RowKept(r) /\ t.att \in [Attempt -> Row] /\ t.run \in RunStates
      /\ t = [att |-> t.att, run |-> t.run, envelope |-> t.envelope]
  BY RowsOfKept
<1>2. r.state \notin {"none", "reserved"} /\ ~ r.lost
  BY <1>1, BlankRow DEF RowKept, RowMarked
<1>3. now \in BOOLEAN
  BY <1>1 DEF Row
<1>4. s = [r EXCEPT !.call = "unknown", !.lost = TRUE, !.marked = now]
  BY DEF LostRow
<1>5. u = [t EXCEPT !.att[a].call = "unknown", !.att[a].lost = TRUE, !.att[a].marked = now]
  <2>1. u = [t EXCEPT !.att[a].call = "unknown", !.att[a].lost = TRUE,
                      !.att[a].marked = @ \/ t.att[a].state = "dispatched"]
    BY DEF Lost
  <2> QED BY <1>1, <2>1
<1>6. now <=> r.marked \/ r.state = "dispatched"
  OBVIOUS
<1> HIDE DEF now, u, s
<1>7. u = PutRow(t, a, s, t.run)
  <2>1. u = [att |-> u.att, run |-> u.run, envelope |-> u.envelope]
    BY <1>1, <1>5
  <2>2. u.run = t.run /\ u.envelope = t.envelope
    BY <1>1, <1>5
  <2>3. u.att = f
    BY <1>1, <1>5
  <2>4. f = [t.att EXCEPT ![a] = s]
    BY <1>1, <1>4
  <2> HIDE DEF f
  <2> QED BY <2>1, <2>2, <2>3, <2>4 DEF PutRow
<1>8. s \in Row
  BY <1>1, <1>3, <1>4 DEF Row
<1>9. /\ SameHold(r, s) /\ (s.marked <=> now) /\ s.lost /\ s.call = "unknown"
      /\ s.note = r.note
  <2>1. SameHold(r, s)
    BY <1>1, <1>4 DEF Row, SameHold
  <2>2. s.lost = TRUE /\ s.call = "unknown" /\ s.note = r.note
    BY <1>1, <1>4 DEF Row
  <2>3. s.marked = now
    BY <1>1, <1>4 DEF Row
  <2> QED BY <2>1, <2>2, <2>3
<1>10. RowKept(s)
  BY <1>1, <1>2, <1>6, <1>9
  DEF SameHold, RowKept, RowOpen, RowLeased, RowMarked, RowAnswered, LeaseLive
<1>11. Goes(r, s) /\ (Past(r) => Past(s)) /\ SameMoney(r, s)
  BY <1>1, <1>2, <1>9 DEF SameHold, Goes, Steps, Past, SameMoney
<1>12. Stays(r, s)
  BY <1>2, <1>8, <1>9, <1>10, <1>11 DEF Stays, SameHold
<1>13. PutsOnly(t, PutRow(t, a, s, t.run), a, s, t.run)
  BY <1>1, <1>2, <1>8, <1>11, <1>12, PuttingFollows
<1> QED BY <1>6, <1>7, <1>8, <1>9, <1>13 DEF u, s

\* An answer settles or releases the attempt's call, or proves nothing and holds it (broker.ts).
LEMMA AnswerCallOnward ==
    ASSUME StepInv, NEW a \in Attempt, NEW drops \in BOOLEAN, NEW room \in BOOLEAN,
           AnswerCall(a, drops, room)
    PROVE  Onward
<1> DEFINE r == att[a]
           stands == r.lease = "live" /\ Stands(r)
           lost == Lost(Tables, a)
           held == StoppedAtSettlement(lost, a)
           classified == Classified(held, a)
           dropped == Dropped(classified, a, "provider", room)
           answered == [Tables EXCEPT !.att[a].call = "released"]
           released == StoppedAtSettlement(answered, a)
<1>1. /\ StepKept(Tables) /\ Tables.att = att /\ Tables.att[a] = r
      /\ Tables.run = run /\ Tables.envelope = envelope
      /\ r \in Row /\ RowKept(r) /\ att \in [Attempt -> Row] /\ run \in RunStates
  BY RowNow
<1>2. r.call # "none" /\ r.state # "none"
  <2>1. r.call # "none"
    BY DEF AnswerCall, CallOpen
  <2> QED BY <1>1, <2>1, BlankRow
<1>3. \/ Commit([Tables EXCEPT !.att[a].call = "settled"])
      \/ Commit(released)
      \/ /\ r.call = "dispatched"
         /\ drops /\ stands => DropFits(classified, a)
         /\ Commit(IF drops /\ stands THEN dropped ELSE held)
  BY <1>1 DEF AnswerCall, Lost
<1>4. CASE Commit([Tables EXCEPT !.att[a].call = "settled"])
  <2>1. /\ att' = [att EXCEPT ![a].call = "settled"] /\ run' = run
        /\ envelope' = envelope /\ approved' = approved
    BY <1>4 DEF Commit, Tables
  <2> QED BY <1>2, <2>1, CallOnward
<1>5. CASE Commit(released)
  <2>1. PutsOnly(Tables, answered, a, [r EXCEPT !.call = "released"], run)
    BY <1>1, <1>2, CallFollows
  <2> HIDE DEF answered
  <2>2. StepKept(answered) /\ Follows(Tables, answered) /\ answered.att[a].state = r.state
    <3>1. answered.att[a] = [r EXCEPT !.call = "released"]
      BY <2>1 DEF PutsOnly
    <3> QED BY <1>1, <2>1, <3>1 DEF PutsOnly, Follows, Row
  <2>3. Follows(answered, released)
    BY <1>2, <2>2, StoppedFollows
  <2>4. /\ att' = released.att /\ run' = released.run
        /\ envelope' = released.envelope /\ approved' = approved
    BY <1>5 DEF Commit
  <2> HIDE DEF released
  <2>5. Follows(Tables, released)
    BY <2>2, <2>3, FollowsOn
  <2> QED BY <2>4, <2>5, LandOnward
<1>6. CASE /\ r.call = "dispatched"
           /\ drops /\ stands => DropFits(classified, a)
           /\ Commit(IF drops /\ stands THEN dropped ELSE held)
  <2> DEFINE s == LostRow(r)
  <2>1. /\ PutsOnly(Tables, lost, a, s, run) /\ SameHold(r, s) /\ s \in Row
        /\ (s.marked <=> r.marked \/ r.state = "dispatched")
    BY <1>1, <1>6, LostFollows
  <2>11. Stands(s) <=> Stands(r)
    BY <1>1 DEF Stands, LostRow, Row
  <2> HIDE DEF lost, s
  <2>2. StepKept(lost) /\ Follows(Tables, lost) /\ lost.att[a] = s /\ s.state # "none"
    BY <1>2, <2>1 DEF PutsOnly, Follows, SameHold
  <2>3. /\ Follows(lost, held) /\ SameEnd(s, held.att[a])
        /\ s.lease = "live" /\ Stands(s) => held.att[a].lease = "released"
    BY <2>2, StoppedFollows
  <2> HIDE DEF held
  <2>4. Follows(Tables, held) /\ StepKept(held) /\ held.att[a].state # "none"
    BY <2>2, <2>3, FollowsOn DEF Follows, SameEnd
  <2>5. CASE ~ (drops /\ stands)
    <3>1. /\ att' = held.att /\ run' = held.run
          /\ envelope' = held.envelope /\ approved' = approved
      BY <1>6, <2>5 DEF Commit
    <3> QED BY <2>4, <3>1, LandOnward
  <2>6. CASE drops /\ stands
    <3>1. held.att[a].lease = "released" /\ held.att[a].marked
      BY <1>1, <2>1, <2>3, <2>6, <2>11 DEF SameHold, SameEnd, RowKept, RowLeased, LeaseLive
    <3>2. ~ LeaseLive(held.att[a])
      BY <3>1 DEF LeaseLive
    <3>3. Touches(held, classified, a) /\ SameWork(held.att[a], classified.att[a])
      BY <2>4, <3>2, ClassifiedTouches
    <3>4. DropFits(classified, a)
      BY <1>6, <2>6
    <3>5. /\ att' = dropped.att /\ run' = dropped.run
          /\ envelope' = dropped.envelope /\ approved' = approved
      BY <1>6, <2>6 DEF Commit
    <3> HIDE DEF classified
    <3>6. classified.att[a].state # "abandoned"
      BY <3>1, <3>3, <3>4 DEF DropFits, Marked, SameWork
    <3>7. StepKept(classified) /\ Follows(Tables, classified)
      BY <2>4, <3>3, FollowsOn DEF Touches, Follows
    <3>8. Follows(classified, dropped)
      BY <3>6, <3>7, DroppedFollows
    <3> HIDE DEF dropped
    <3>9. Follows(Tables, dropped)
      BY <3>7, <3>8, FollowsOn
    <3> QED BY <3>5, <3>9, LandOnward
  <2> QED BY <2>5, <2>6
<1> QED BY <1>3, <1>4, <1>5, <1>6

(***************************************************************************)
(* The worker's observation and the reconciliation pass.                   *)
(***************************************************************************)
LEMMA SettledFollows ==
    ASSUME NEW t, StepKept(t), NEW a \in Attempt, t.att[a].hold = "held", ~ Past(t.att[a]),
           t.att[a].marked
    PROVE  \A spent \in Nat \ {0}, outcome \in {"completed", "failed"} :
               Follows(t, Settled(t, a, spent, outcome))
<1> SUFFICES ASSUME NEW spent \in Nat \ {0}, NEW outcome \in {"completed", "failed"}
             PROVE  Follows(t, Settled(t, a, spent, outcome))
  OBVIOUS
<1> DEFINE r == t.att[a]
           s == SettledRow(r, spent, outcome)
<1>1. r \in Row /\ RowKept(r) /\ t.run \in RunStates /\ t \in TablesType
  BY RowsOfKept
<1>2. r.state # "none" /\ r.actual = 0 /\ r.outcome = "none" /\ r.word = "none" /\ r.amount > 0
  BY <1>1 DEF RowKept, RowOpen
<1>3. Settled(t, a, spent, outcome) = WithRow(t, a, s, t.run)
  BY <1>1, <1>2, SettledIsWithRow
<1>4. /\ s \in Row /\ s.state = "settled" /\ s.outcome = outcome /\ s.hold = "actual"
      /\ s.actual = spent /\ SameWork(r, s)
  BY <1>1, SettledRowIs
<1> HIDE DEF s
<1>5. RowKept(s)
  BY <1>1, <1>2, <1>4
  DEF SameWork, RowKept, RowOpen, RowLeased, RowMarked, RowAnswered, LeaseLive
<1>6. Goes(r, s)
  <2>1. r.state # "settled" /\ r.hold \notin {"actual", "abandoned"}
    BY <1>1 DEF RowKept, RowOpen
  <2> QED BY <1>2, <1>4, <2>1 DEF SameWork, Goes, Steps
<1>7. Stays(r, s)
  BY <1>4, <1>5 DEF Stays
<1>8. PutsOnly(t, WithRow(t, a, s, t.run), a, s, t.run)
  BY <1>1, <1>2, <1>4, <1>6, <1>7, RewritingFollows
<1> QED BY <1>3, <1>8 DEF PutsOnly

\* An observation settles the hold as the worker saw the step end (observe.ts).
LEMMA ObservedFollows ==
    ASSUME NEW t, StepKept(t), NEW a \in Attempt, t.att[a].marked
    PROVE  LET u == [t EXCEPT !.att[a].observed = TRUE] IN
           /\ PutsOnly(t, u, a, [t.att[a] EXCEPT !.observed = TRUE], t.run)
           /\ (Past(t.att[a]) <=> Past(u.att[a]))
<1> DEFINE r == t.att[a]
           s == [r EXCEPT !.observed = TRUE]
           u == [t EXCEPT !.att[a].observed = TRUE]
<1>1. /\ r \in Row /\ RowKept(r) /\ t.att \in [Attempt -> Row] /\ t.run \in RunStates
      /\ t = [att |-> t.att, run |-> t.run, envelope |-> t.envelope]
  BY RowsOfKept
<1>2. r.state \notin {"none", "reserved"}
  BY <1>1, BlankRow
<1>3. u = PutRow(t, a, s, t.run)
  <2>1. \A yes : [t EXCEPT !.att[a].observed = yes]
                = PutRow(t, a, [r EXCEPT !.observed = yes], t.run)
    BY <1>1 DEF PutRow
  <2> QED BY <2>1, Zenon
<1>4. /\ s \in Row /\ s.marked /\ s.state = r.state /\ s.hold = r.hold /\ s.note = r.note
      /\ SameMoney(r, s) /\ s.outcome = r.outcome /\ s.word = r.word /\ s.absent = r.absent
      /\ s.lease = r.lease /\ s.lost = r.lost /\ s.call = r.call
  BY <1>1 DEF Row, SameMoney
<1> HIDE DEF s, u
<1>5. RowKept(s)
  BY <1>1, <1>2, <1>4
  DEF SameMoney, RowKept, RowOpen, RowLeased, RowMarked, RowAnswered, LeaseLive
<1>6. Goes(r, s) /\ (Past(r) <=> Past(s))
  BY <1>1, <1>4 DEF SameMoney, Goes, Steps, Past
<1>7. Stays(r, s)
  BY <1>2, <1>4, <1>5, <1>6 DEF Stays
<1>8. PutsOnly(t, PutRow(t, a, s, t.run), a, s, t.run)
  BY <1>1, <1>2, <1>4, <1>6, <1>7, PuttingFollows
<1>9. PutsOnly(t, u, a, s, t.run) /\ u.att[a] = s
  BY <1>3, <1>8 DEF PutsOnly
<1> QED BY <1>6, <1>9 DEF s, u

\* The register's answer settles the hold, or proves it absent and resumes the step
\* (reconcile.ts).
LEMMA ReconcileOnward ==
    ASSUME StepInv, NEW a \in Attempt, NEW callDrop \in BOOLEAN, NEW cost \in Costs,
           NEW room \in BOOLEAN, Reconcile(a, callDrop, cost, room)
    PROVE  Onward
<1> DEFINE r == att[a]
           spent == cost + CallsSpent(r)
           t1 == [Tables EXCEPT !.att[a].observed = TRUE]
           present == Present(Tables, a, cost)
           resumed == Resumed(Tables, a, TRUE, room)
<1>1. /\ StepKept(Tables) /\ Tables.att = att /\ Tables.att[a] = r
      /\ Tables.run = run /\ Tables.envelope = envelope
      /\ r \in Row /\ RowKept(r) /\ att \in [Attempt -> Row] /\ run \in RunStates
  BY RowNow
<1>2. /\ r.state = "liability_unknown" /\ r.marked /\ r.hold = "held" /\ ~ r.absent
  BY DEF Reconcile, Asked
<1>3. spent \in Nat \ {0}
  BY CallsSpentNat, SomeMoney
<1>4. \/ Commit(present)
      \/ Lookup(r, callDrop) = "absent" /\ Commit(resumed)
  BY DEF Reconcile
<1>5. CASE Commit(present)
  <2>1. Follows(Tables, present)
    <3>1. CASE CallOpen(r) \/ spent > r.amount
      BY <1>1, <3>1, FollowsItself DEF Present
    <3>2. CASE ~ (CallOpen(r) \/ spent > r.amount)
      <4>1. present = Settled(t1, a, spent, "completed")
        BY <1>1, <3>2 DEF Present
      <4>2. /\ PutsOnly(Tables, t1, a, [r EXCEPT !.observed = TRUE], run)
            /\ (Past(r) <=> Past(t1.att[a]))
        BY <1>1, <1>2, ObservedFollows
      <4> HIDE DEF t1, spent
      <4>3. /\ StepKept(t1) /\ Follows(Tables, t1) /\ t1.att[a].hold = "held"
            /\ t1.att[a].marked
        <5>1. t1.att[a] = [r EXCEPT !.observed = TRUE]
          BY <4>2 DEF PutsOnly
        <5> QED BY <1>1, <1>2, <4>2, <5>1 DEF PutsOnly, Follows, Row
      <4>4. ~ Past(t1.att[a])
        BY <1>2, <4>2 DEF Past
      <4>5. Follows(t1, Settled(t1, a, spent, "completed"))
        BY <1>3, <4>3, <4>4, SettledFollows
      <4> QED BY <4>1, <4>3, <4>5, FollowsOn
    <3> QED BY <3>1, <3>2
  <2>2. /\ att' = present.att /\ run' = present.run
        /\ envelope' = present.envelope /\ approved' = approved
    BY <1>5 DEF Commit
  <2> HIDE DEF present
  <2> QED BY <2>1, <2>2, LandOnward
<1>6. CASE Lookup(r, callDrop) = "absent" /\ Commit(resumed)
  <2>1. r.note # "written"
    BY <1>6 DEF Lookup, Register
  <2>2. Follows(Tables, resumed)
    BY <1>1, <1>2, <2>1, ProvedAbsentFollows
  <2>3. /\ att' = resumed.att /\ run' = resumed.run
        /\ envelope' = resumed.envelope /\ approved' = approved
    BY <1>6 DEF Commit
  <2> HIDE DEF resumed
  <2> QED BY <2>2, <2>3, LandOnward
<1> QED BY <1>4, <1>5, <1>6

\* A worker's observation settles the hold, or keeps it whole for a person (observe.ts).
LEMMA ObserveOnward ==
    ASSUME StepInv, NEW a \in Attempt, NEW ending \in {"completed", "failed"},
           NEW cost \in Costs \cup {0}, Observe(a, ending, cost)
    PROVE  Onward
<1> DEFINE r == att[a]
           applied == r.marked /\ r.note = "written"
           t1 == [Tables EXCEPT !.att[a].observed = @ \/ applied]
           spent == cost + CallsSpent(r)
           outcome == IF applied THEN "completed" ELSE "failed"
           unknown == [t1 EXCEPT !.att[a].state = "liability_unknown"]
           settled == Settled(t1, a, spent, outcome)
<1>1. /\ StepKept(Tables) /\ Tables.att = att /\ Tables.att[a] = r
      /\ Tables.run = run /\ Tables.envelope = envelope
      /\ r \in Row /\ RowKept(r) /\ att \in [Attempt -> Row] /\ run \in RunStates
  BY RowNow
<1>2. /\ r.lease # "none" /\ (r.hold = "held" \/ r.state = "settled")
      /\ r.state # "liability_unknown" /\ r.marked
  BY DEF Observe, Observable
<1>3. r.state \notin {"none", "reserved"}
  BY <1>1, <1>2, BlankRow
<1>4. /\ StepKept(t1) /\ Follows(Tables, t1) /\ (Past(r) <=> Past(t1.att[a]))
      /\ t1.att[a].state = r.state /\ t1.att[a].hold = r.hold /\ t1.att[a].marked
      /\ t1.run = run
  <2>1. CASE applied
    <3>1. t1 = [Tables EXCEPT !.att[a].observed = TRUE]
      <4>1. (r.observed \/ applied) = TRUE
        BY <2>1
      <4>2. \A yes : yes = (r.observed \/ applied) =>
                [Tables EXCEPT !.att[a].observed = @ \/ applied]
                = [Tables EXCEPT !.att[a].observed = yes]
        BY <1>1
      <4> QED BY <4>1, <4>2, Zenon
    <3> HIDE DEF t1
    <3>2. /\ PutsOnly(Tables, t1, a, [r EXCEPT !.observed = TRUE], run)
          /\ (Past(r) <=> Past(t1.att[a]))
      BY <1>1, <1>2, <3>1, ObservedFollows
    <3>3. t1.att[a] = [r EXCEPT !.observed = TRUE]
      BY <3>2 DEF PutsOnly
    <3> QED BY <1>1, <1>2, <3>2, <3>3 DEF PutsOnly, Follows, Row
  <2>2. CASE ~ applied
    <3>1. t1 = Tables
      <4>1. (r.observed \/ applied) = r.observed
        BY <1>1, <2>2 DEF Row
      <4>2. \A yes : yes = (r.observed \/ applied) =>
                [Tables EXCEPT !.att[a].observed = @ \/ applied]
                = [Tables EXCEPT !.att[a].observed = yes]
        BY <1>1
      <4>3. [Tables EXCEPT !.att[a].observed = r.observed] = Tables
        <5>1. [r EXCEPT !.observed = r.observed] = r
          BY <1>1 DEF Row
        <5>2. [att EXCEPT ![a] = r] = att
          BY <1>1
        <5> QED BY <5>1, <5>2 DEF Tables
      <4> QED BY <4>1, <4>2, <4>3, Zenon
    <3> QED BY <1>1, <1>2, <3>1, FollowsItself
  <2> QED BY <2>1, <2>2
<1>5. Commit(IF cost = 0 \/ r.state = "settled" THEN t1
             ELSE IF CallOpen(r) \/ spent > r.amount THEN unknown
             ELSE settled)
  BY DEF Observe
<1> HIDE DEF t1, spent
<1>6. CASE cost = 0 \/ r.state = "settled"
  <2>1. /\ att' = t1.att /\ run' = t1.run /\ envelope' = t1.envelope /\ approved' = approved
    BY <1>5, <1>6 DEF Commit
  <2> QED BY <1>4, <2>1, LandOnward
<1>7. CASE ~ (cost = 0 \/ r.state = "settled")
  <2>1. r.hold = "held" /\ r.state = "dispatched" /\ ~ Past(r) /\ cost \in Nat \ {0}
    BY <1>1, <1>2, <1>3, <1>7, SomeMoney DEF RowKept, RowOpen, Past
  <2>2. CASE CallOpen(r) \/ spent > r.amount
    <3> DEFINE q == t1.att[a]
               s == [q EXCEPT !.state = "liability_unknown"]
    <3>1. /\ q \in Row /\ RowKept(q) /\ t1.att \in [Attempt -> Row] /\ t1.run \in RunStates
          /\ t1 = [att |-> t1.att, run |-> t1.run, envelope |-> t1.envelope]
      BY <1>4, RowsOfKept
    <3>2. q.hold = "held" /\ q.state = "dispatched" /\ q.marked /\ ~ Past(q)
      BY <1>4, <2>1
    <3>3. unknown = PutRow(t1, a, s, t1.run)
      BY <3>1 DEF PutRow
    <3> HIDE DEF q
    <3>4. s \in Row
      BY <3>1 DEF Row
    <3>5. RowKept(s)
      BY <3>1, <3>2 DEF Row, RowKept, RowOpen, RowLeased, RowMarked, RowAnswered, LeaseLive
    <3>6. Goes(q, s) /\ SameMoney(q, s) /\ s.state = "liability_unknown"
      BY <3>1, <3>2 DEF Goes, Steps, Row, SameMoney
    <3>7. Stays(q, s)
      BY <3>2, <3>4, <3>5, <3>6 DEF Stays
    <3> HIDE DEF s, unknown
    <3>8. PutsOnly(t1, PutRow(t1, a, s, t1.run), a, s, t1.run)
      <4>1. q = t1.att[a]
        BY DEF q
      <4> QED BY <1>4, <3>1, <3>2, <3>4, <3>6, <3>7, <4>1, PuttingFollows
    <3>9. Follows(Tables, unknown)
      BY <1>4, <3>3, <3>8, FollowsOn DEF PutsOnly
    <3>10. /\ att' = unknown.att /\ run' = unknown.run
           /\ envelope' = unknown.envelope /\ approved' = approved
      BY <1>5, <1>7, <2>2 DEF Commit
    <3> QED BY <3>9, <3>10, LandOnward
  <2>3. CASE ~ (CallOpen(r) \/ spent > r.amount)
    <3>1. spent \in Nat \ {0} /\ outcome \in {"completed", "failed"}
      BY <2>1, CallsSpentNat DEF spent
    <3> HIDE DEF outcome
    <3>2. Follows(t1, settled)
      BY <1>4, <2>1, <3>1, SettledFollows
    <3> HIDE DEF settled
    <3>3. Follows(Tables, settled)
      BY <1>4, <3>2, FollowsOn
    <3>4. /\ att' = settled.att /\ run' = settled.run
          /\ envelope' = settled.envelope /\ approved' = approved
      BY <1>5, <1>7, <2>3 DEF Commit
    <3> QED BY <3>3, <3>4, LandOnward
  <2> QED BY <2>2, <2>3
<1> QED BY <1>6, <1>7

(***************************************************************************)
(* What ends a lease from outside.                                         *)
(***************************************************************************)
LEMMA LoseAuthorityOnward == ASSUME StepInv, NEW a \in Attempt, LoseAuthority(a) PROVE Onward
<1> DEFINE r == att[a]
           s == [r EXCEPT !.worker = "ended", !.lease = "released"]
           now == IF run = "claimed" THEN "planned" ELSE run
           ended == [Tables EXCEPT !.att[a].worker = "ended", !.att[a].lease = "released",
                                   !.run = IF @ = "claimed" THEN "planned" ELSE @]
           classified == Classified(ended, a)
           f == [att EXCEPT ![a].worker = "ended", ![a].lease = "released"]
<1>1. /\ StepKept(Tables) /\ Tables.att = att /\ Tables.att[a] = r
      /\ Tables.run = run /\ Tables.envelope = envelope
      /\ r \in Row /\ RowKept(r) /\ att \in [Attempt -> Row] /\ run \in RunStates
  BY RowNow
<1>2. LeaseLive(r) /\ Commit(classified)
  BY DEF LoseAuthority
<1>3. r.state \notin {"none", "reserved"}
  BY <1>1, <1>2, BlankRow DEF LeaseLive
<1>4. ended = PutRow(Tables, a, s, now)
  <2>1. ended = [Tables EXCEPT !.att[a].worker = "ended", !.att[a].lease = "released",
                               !.run = IF @ = "claimed" THEN "planned" ELSE @]
    OBVIOUS
  <2>2. f = [att EXCEPT ![a] = s]
    BY <1>1
  <2>3. Tables = [att |-> att, run |-> run, envelope |-> envelope]
    BY DEF Tables
  <2> HIDE DEF ended
  <2>4. ended = [att |-> ended.att, run |-> ended.run, envelope |-> ended.envelope]
    BY <2>1, <2>3
  <2>5. ended.run = now /\ ended.envelope = envelope
    BY <2>1, <2>3
  <2>6. ended.att = f
    BY <2>1, <2>3
  <2> HIDE DEF f, s, now
  <2> QED BY <1>1, <2>2, <2>4, <2>5, <2>6 DEF PutRow
<1>5. s \in Row /\ SameEnd(r, s) /\ s.lease = "released" /\ now \in RunStates
  <2>1. s \in Row /\ SameEnd(r, s) /\ s.lease = "released"
    <3>1. s = [r EXCEPT !.worker = "ended", !.lease = "released"]
      OBVIOUS
    <3> HIDE DEF s
    <3>2. s \in Row
      <4> DEFINE q == [r EXCEPT !.worker = "ended"]
      <4>1. q \in Row
        BY <1>1 DEF Row
      <4>2. s = [q EXCEPT !.lease = "released"]
        BY <3>1
      <4> HIDE DEF q
      <4> QED BY <4>1, <4>2 DEF Row
    <3>3. SameEnd(r, s) /\ s.lease = "released"
      BY <1>1, <3>1 DEF Row, SameEnd
    <3> QED BY <3>2, <3>3
  <2>2. now \in RunStates
    BY <1>1 DEF RunStates
  <2> QED BY <2>1, <2>2
<1> HIDE DEF s, ended, now
<1>6. RowKept(s)
  BY <1>1, <1>3, <1>5
  DEF SameEnd, RowKept, RowOpen, RowLeased, RowMarked, RowAnswered, LeaseLive
<1>7. Goes(r, s) /\ (Past(r) => Past(s)) /\ SameMoney(r, s)
  BY <1>5 DEF SameEnd, Goes, Steps, Past, SameMoney
<1>8. Stays(r, s)
  BY <1>3, <1>5, <1>6, <1>7 DEF Stays, SameEnd
<1>9. PutsOnly(Tables, PutRow(Tables, a, s, now), a, s, now)
  BY <1>1, <1>3, <1>5, <1>7, <1>8, PuttingFollows
<1>10. /\ StepKept(ended) /\ Follows(Tables, ended) /\ ended.att[a].state # "none"
       /\ ~ LeaseLive(ended.att[a])
  BY <1>3, <1>4, <1>5, <1>9 DEF PutsOnly, Follows, SameEnd, LeaseLive
<1>11. Follows(ended, classified)
  BY <1>10, ClassifiedTouches DEF Touches
<1>12. /\ att' = classified.att /\ run' = classified.run
       /\ envelope' = classified.envelope /\ approved' = approved
  BY <1>2 DEF Commit
<1> HIDE DEF classified
<1>13. Follows(Tables, classified)
  BY <1>10, <1>11, FollowsOn
<1> QED BY <1>12, <1>13, LandOnward

\* A lease ends with a hand-back.
ReportedRow(r) == [UnseatedRow(r) EXCEPT !.lease = "released", !.reported = TRUE]

\* A report ends the lease before it settles anything (handback.ts).
LEMMA ReportedFollows ==
    ASSUME NEW t, StepKept(t), NEW a \in Attempt, t.att[a].lease = "live"
    PROVE  \A now \in RunStates :
               LET s == ReportedRow(t.att[a])
                   u == [Unseated(t, a) EXCEPT !.att[a].lease = "released",
                                               !.att[a].reported = TRUE, !.run = now]
               IN
               /\ PutsOnly(t, u, a, s, now) /\ u = PutRow(t, a, s, now)
               /\ s \in Row /\ SameEnd(t.att[a], s) /\ s.lease = "released"
<1> TAKE now \in RunStates
<1> DEFINE r == t.att[a]
           q == UnseatedRow(r)
           s == ReportedRow(r)
           w == Unseated(t, a)
           u == [w EXCEPT !.att[a].lease = "released", !.att[a].reported = TRUE, !.run = now]
           f == [w.att EXCEPT ![a].lease = "released", ![a].reported = TRUE]
<1>1. /\ r \in Row /\ RowKept(r) /\ t.att \in [Attempt -> Row] /\ t.run \in RunStates
      /\ t = [att |-> t.att, run |-> t.run, envelope |-> t.envelope] /\ t \in TablesType
  BY RowsOfKept
<1>2. r.state \notin {"none", "reserved"}
  BY <1>1, BlankRow
<1>3. q \in Row /\ SameEnd(r, q)
  BY <1>1, <1>2, UnseatedRowStays
<1>4. w = PutRow(t, a, q, t.run)
  BY <1>1 DEF Unseated, UnseatedRow, PutRow
<1>5. s = [q EXCEPT !.lease = "released", !.reported = TRUE]
  BY DEF ReportedRow
<1> HIDE DEF q, w
<1>6. /\ w.att = [t.att EXCEPT ![a] = q] /\ w.envelope = t.envelope
      /\ w = [att |-> w.att, run |-> w.run, envelope |-> w.envelope]
  BY <1>4 DEF PutRow
<1>7. u = [att |-> [t.att EXCEPT ![a] = s], run |-> now, envelope |-> t.envelope]
  <2>1. u = [w EXCEPT !.att[a].lease = "released", !.att[a].reported = TRUE, !.run = now]
    OBVIOUS
  <2>2. f = [t.att EXCEPT ![a] = s]
    BY <1>1, <1>3, <1>5, <1>6
  <2> HIDE DEF u, s
  <2>3. u = [att |-> u.att, run |-> u.run, envelope |-> u.envelope]
    BY <1>6, <2>1
  <2>4. u.run = now /\ u.envelope = w.envelope
    BY <1>6, <2>1
  <2>5. u.att = f
    BY <1>6, <2>1
  <2> HIDE DEF f
  <2> QED BY <1>6, <2>2, <2>3, <2>4, <2>5
<1>8. s \in Row /\ SameEnd(q, s) /\ s.lease = "released"
  <2>1. s \in Row
    <3> DEFINE p == [q EXCEPT !.lease = "released"]
    <3>1. p \in Row
      BY <1>3 DEF Row
    <3>2. s = [p EXCEPT !.reported = TRUE]
      BY <1>5
    <3> HIDE DEF p, s
    <3> QED BY <3>1, <3>2 DEF Row
  <2>2. SameEnd(q, s) /\ s.lease = "released"
    BY <1>3, <1>5 DEF Row, SameEnd
  <2> QED BY <2>1, <2>2
<1> HIDE DEF s, u
<1>9. SameEnd(r, s)
  BY <1>3, <1>8 DEF SameEnd
<1>10. RowKept(s)
  BY <1>1, <1>2, <1>8, <1>9
  DEF SameEnd, RowKept, RowOpen, RowLeased, RowMarked, RowAnswered, LeaseLive
<1>11. Goes(r, s) /\ (Past(r) => Past(s)) /\ SameMoney(r, s)
  BY <1>8, <1>9 DEF SameEnd, Goes, Steps, Past, SameMoney
<1>12. Stays(r, s)
  BY <1>2, <1>8, <1>9, <1>10, <1>11 DEF Stays, SameEnd
<1>13. PutsOnly(t, PutRow(t, a, s, now), a, s, now)
  BY <1>1, <1>2, <1>8, <1>11, <1>12, PuttingFollows
<1>14. u = PutRow(t, a, s, now)
  BY <1>7 DEF PutRow
<1> QED BY <1>8, <1>9, <1>13, <1>14 DEF s, u, w

(***************************************************************************)
(* The hand-back.                                                          *)
(***************************************************************************)

\* A quiet one ends the attempt as its worker says, and gives the hold back.
LEMMA QuietFollows ==
    ASSUME NEW t, StepKept(t), NEW a \in Attempt, NEW ending \in {"completed", "failed"},
           t.att[a].hold = "held", t.att[a].state = "dispatched",
           ~ Marked(t.att[a]), ~ CallOpen(t.att[a]), ~ LeaseLive(t.att[a])
    PROVE  Follows(t, Classified([t EXCEPT !.att[a].state = "handed_back",
                                           !.att[a].outcome = ending], a))
<1> DEFINE r == t.att[a]
           q == [r EXCEPT !.state = "handed_back", !.outcome = ending]
           w == [t EXCEPT !.att[a].state = "handed_back", !.att[a].outcome = ending]
           spent == CallsSpent(q)
           c == ClosedRow(q, "stopped", spent, TRUE)
           closed == Closed(w, a, "stopped", spent, TRUE)
           last == IF spent > 0 THEN "handed_back" ELSE "abandoned"
           s == [c EXCEPT !.state = last, !.outcome = ending]
           u == Classified(w, a)
<1>1. /\ r \in Row /\ RowKept(r) /\ t.att \in [Attempt -> Row] /\ t.run \in RunStates
      /\ t = [att |-> t.att, run |-> t.run, envelope |-> t.envelope]
      /\ t.envelope.held \in Nat /\ t.envelope.actual \in Nat /\ t \in TablesType
  BY RowsOfKept
<1>2. r.actual = 0 /\ r.outcome = "none" /\ r.word = "none" /\ r.amount > 0
  BY <1>1 DEF RowKept, RowOpen
<1>3. ~ r.marked /\ ~ r.observed /\ ~ r.absent /\ r.note # "written"
  BY <1>1 DEF Marked, RowKept, RowMarked
<1>4. w = PutRow(t, a, q, t.run)
  <2>1. \A x, y : [t EXCEPT !.att[a].state = x, !.att[a].outcome = y]
                  = PutRow(t, a, [r EXCEPT !.state = x, !.outcome = y], t.run)
    BY <1>1, EndedPut
  <2> QED BY <2>1, Zenon
<1>5. /\ q \in Row /\ q.state = "handed_back" /\ q.outcome = ending /\ q.hold = "held"
      /\ q.actual = 0 /\ SameWork(r, q)
  <2>1. "handed_back" \in {"settled", "abandoned", "dropped", "handed_back"}
        /\ ending \in {"completed", "failed", "abandoned", "unknown"}
    OBVIOUS
  <2>2. \A x \in {"settled", "abandoned", "dropped", "handed_back"},
            y \in {"completed", "failed", "abandoned", "unknown"} :
            LET p == [r EXCEPT !.state = x, !.outcome = y] IN
            /\ p \in Row
            /\ p.state = x /\ p.outcome = y /\ p.hold = r.hold
            /\ p.actual = r.actual /\ SameWork(r, p)
    BY <1>1, EndedRowIs
  <2>3. LET p == [r EXCEPT !.state = "handed_back", !.outcome = ending] IN
            /\ p \in Row
            /\ p.state = "handed_back" /\ p.outcome = ending /\ p.hold = r.hold
            /\ p.actual = r.actual /\ SameWork(r, p)
    BY <2>1, <2>2
  <2> QED BY <1>2, <2>3
<1>6. ~ Marked(q) /\ ~ CallOpen(q)
  BY <1>3, <1>5 DEF Marked, CallOpen, SameWork
<1> HIDE DEF q, w
<1>7. /\ w.att = [t.att EXCEPT ![a] = q] /\ w.run = t.run /\ w.envelope = t.envelope
      /\ w = [att |-> w.att, run |-> w.run, envelope |-> w.envelope]
  BY <1>4 DEF PutRow
<1>8. w \in TablesType /\ w.att[a] = q
  BY <1>1, <1>5, <1>7 DEF TablesType
<1>9. spent \in Nat /\ TRUE \in BOOLEAN /\ "stopped" \in Causes
  BY CallsSpentNat DEF Causes
<1>10. u = [closed EXCEPT
               !.att[a].state = IF spent > 0 /\ @ = "handed_back" THEN @ ELSE "abandoned",
               !.att[a].outcome = IF @ = "none" THEN "abandoned" ELSE @]
  BY <1>5, <1>6, <1>8 DEF Classified
<1> HIDE DEF spent
<1>11. closed = WithRow(w, a, c, t.run)
  <2>1. w.att[a].hold = "held" /\ w.att[a].actual = 0
    BY <1>5, <1>8
  <2>2. Closed(w, a, "stopped", spent, TRUE)
        = WithRow(w, a, ClosedRow(w.att[a], "stopped", spent, TRUE), w.run)
    BY <1>8, <1>9, <2>1, ClosedIsWithRow, Zenon
  <2> QED BY <1>7, <1>8, <2>2
<1>12. /\ c \in Row /\ c.hold \in {"actual", "abandoned"} /\ c.state = "handed_back"
       /\ c.outcome = ending /\ SameWork(q, c)
  <2>1. LET p == ClosedRow(q, "stopped", spent, TRUE) IN
        /\ p \in Row /\ p.hold = IF spent > 0 THEN "actual" ELSE "abandoned"
        /\ p.actual = spent /\ p.state = q.state /\ p.outcome = q.outcome /\ SameWork(q, p)
    BY <1>5, <1>9, ClosedRowIs, Zenon
  <2> QED BY <1>5, <2>1
<1> HIDE DEF c
<1>13. last \in {"handed_back", "abandoned"}
  OBVIOUS
<1>14. s = [c EXCEPT !.state = IF spent > 0 /\ @ = "handed_back" THEN @ ELSE "abandoned",
                     !.outcome = IF @ = "none" THEN "abandoned" ELSE @]
  BY <1>12
<1> HIDE DEF last
<1>15. /\ s \in Row /\ s.state \in {"handed_back", "abandoned"} /\ s.outcome = ending
       /\ s.hold = c.hold /\ s.actual = c.actual /\ SameWork(c, s)
  <2>1. ending \in {"completed", "failed", "abandoned", "unknown"}
        /\ last \in {"settled", "abandoned", "dropped", "handed_back"}
    BY <1>13
  <2> DEFINE Ends(x, y) ==
          LET p == [c EXCEPT !.state = x, !.outcome = y] IN
          /\ p \in Row
          /\ p.state = x /\ p.outcome = y /\ p.hold = c.hold
          /\ p.actual = c.actual /\ SameWork(c, p)
  <2>2. \A x \in {"settled", "abandoned", "dropped", "handed_back"},
            y \in {"completed", "failed", "abandoned", "unknown"} : Ends(x, y)
    BY <1>12, EndedRowIs
  <2>3. Ends(last, ending)
    <3> HIDE DEF Ends
    <3> QED BY <2>1, <2>2
  <2> QED BY <1>13, <2>3 DEF s
<1> HIDE DEF s
<1>16. u = PutRow(closed, a, s, t.run)
  <2> DEFINE f == [closed.att EXCEPT
                 ![a].state = IF spent > 0 /\ @ = "handed_back" THEN @ ELSE "abandoned",
                 ![a].outcome = IF @ = "none" THEN "abandoned" ELSE @]
  <2>1. /\ closed = [att |-> closed.att, run |-> closed.run, envelope |-> closed.envelope]
        /\ closed.att = [w.att EXCEPT ![a] = c] /\ closed.run = t.run
    <3> HIDE DEF closed
    <3> QED BY <1>11 DEF WithRow
  <2>2. closed.att \in [Attempt -> Row] /\ closed.att[a] = c
    BY <1>8, <1>12, <2>1 DEF TablesType
  <2> HIDE DEF closed, u
  <2>3. u = [att |-> u.att, run |-> u.run, envelope |-> u.envelope]
    BY <1>10, <2>1
  <2>4. u.run = t.run /\ u.envelope = closed.envelope
    BY <1>10, <2>1
  <2>5. u.att = f
    BY <1>10, <2>1
  <2>6. f = [closed.att EXCEPT ![a] = s]
    BY <1>14, <2>2
  <2> HIDE DEF f
  <2> QED BY <2>3, <2>4, <2>5, <2>6 DEF PutRow
<1>17. u = WithRow(w, a, s, t.run)
  <2>1. SameMoney(c, s)
    BY <1>15 DEF SameMoney, SameWork
  <2>2. PutRow(WithRow(w, a, c, t.run), a, s, t.run) = WithRow(w, a, s, t.run)
    BY <1>8, <1>12, <1>15, <2>1, RowAlone
  <2> HIDE DEF u, closed
  <2> QED BY <1>11, <1>16, <2>2
<1> HIDE DEF u
<1>18. WithRow(w, a, s, t.run) = WithRow(t, a, s, t.run)
  <2>1. HeldOf(q) = HeldOf(r) /\ q.actual = r.actual
    BY <1>2, <1>5 DEF HeldOf, SameWork
  <2>2. [w.att EXCEPT ![a] = s] = [t.att EXCEPT ![a] = s]
    BY <1>1, <1>7
  <2> QED BY <1>7, <1>8, <2>1, <2>2 DEF WithRow
<1>19. SameWork(r, s)
  BY <1>5, <1>12, <1>15 DEF SameWork
<1>20. RowKept(s)
  BY <1>1, <1>2, <1>3, <1>12, <1>15, <1>19
  DEF SameWork, RowKept, RowOpen, RowLeased, RowMarked, RowAnswered, LeaseLive
<1>21. Goes(r, s) /\ Stays(r, s)
  <2>1. Goes(r, s)
    BY <1>2, <1>15, <1>19 DEF SameWork, Goes, Steps
  <2>2. ~ Past(r)
    BY DEF Past
  <2> QED BY <1>15, <1>20, <2>1, <2>2 DEF Stays
<1>22. PutsOnly(t, WithRow(t, a, s, t.run), a, s, t.run)
  BY <1>1, <1>15, <1>21, RewritingFollows
<1>23. Follows(t, u)
  BY <1>17, <1>18, <1>22 DEF PutsOnly
<1> QED BY <1>23 DEF u, w

\* A hand-back settles, keeps as unknown, drops or gives back, by what its worker reports and
\* by what was marked (handback.ts).
LEMMA HandBackOnward ==
    ASSUME StepInv, NEW a \in Attempt, NEW ending \in {"completed", "failed", "dropped"},
           NEW room \in BOOLEAN, HandBack(a, ending, room)
    PROVE  Onward
<1> DEFINE r == att[a]
           drop == ending = "dropped"
           now == IF drop THEN run ELSE "handed_back"
           s == ReportedRow(r)
           t1 == [Unseated(Tables, a) EXCEPT
                     !.att[a].lease = "released", !.att[a].reported = TRUE,
                     !.run = IF drop THEN @ ELSE "handed_back"]
           quiet == ~ Marked(r) /\ ~ CallOpen(r) /\ ~ drop
           quieted == [t1 EXCEPT !.att[a].state = "handed_back", !.att[a].outcome = ending]
           classified == Classified(t1, a)
           dropped == Dropped(classified, a, "provider", room)
           given == Classified(quieted, a)
<1>1. /\ StepKept(Tables) /\ Tables.att = att /\ Tables.att[a] = r
      /\ Tables.run = run /\ Tables.envelope = envelope
      /\ r \in Row /\ RowKept(r) /\ att \in [Attempt -> Row] /\ run \in RunStates
  BY RowNow
<1>2. r.lease = "live"
  BY DEF HandBack
<1>3. r.state \notin {"none", "reserved"} /\ (r.marked \/ r.state = "dispatched")
  BY <1>1, <1>2, BlankRow DEF RowKept, RowLeased, LeaseLive
<1>4. t1 = [Unseated(Tables, a) EXCEPT
               !.att[a].lease = "released", !.att[a].reported = TRUE, !.run = now]
  <2>1. Unseated(Tables, a).run = run
    BY <1>1 DEF Unseated, Tables
  <2>2. (IF drop THEN Unseated(Tables, a).run ELSE "handed_back") = now
    BY <2>1
  <2>3. \A x : x = (IF drop THEN Unseated(Tables, a).run ELSE "handed_back") =>
            t1 = [Unseated(Tables, a) EXCEPT
                     !.att[a].lease = "released", !.att[a].reported = TRUE, !.run = x]
    OBVIOUS
  <2> HIDE DEF t1, now
  <2> QED BY <2>2, <2>3
<1>5. now \in RunStates
  BY <1>1 DEF RunStates
<1>6. \/ drop /\ ~ quiet /\ DropFits(classified, a) /\ Commit(dropped)
      \/ ~ drop /\ ~ quiet /\ Commit(classified)
      \/ ~ drop /\ quiet /\ Commit(given)
  BY DEF HandBack
<1> HIDE DEF now, t1, s
<1>7. /\ PutsOnly(Tables, t1, a, s, now) /\ s \in Row /\ SameEnd(r, s)
      /\ s.lease = "released"
  <2>1. \A x \in RunStates :
            /\ PutsOnly(Tables, [Unseated(Tables, a) EXCEPT !.att[a].lease = "released",
                                     !.att[a].reported = TRUE, !.run = x],
                        a, ReportedRow(r), x)
            /\ ReportedRow(r) \in Row /\ SameEnd(r, ReportedRow(r))
            /\ ReportedRow(r).lease = "released"
    BY <1>1, <1>2, ReportedFollows
  <2> QED BY <1>4, <1>5, <2>1 DEF s
<1>8. /\ StepKept(t1) /\ Follows(Tables, t1) /\ t1.att[a] = s /\ ~ LeaseLive(s)
      /\ s.state = r.state /\ s.hold = r.hold /\ Written(t1) = Written(Tables)
      /\ \A b \in Attempt \ {a} : t1.att[b] = att[b]
  BY <1>1, <1>7 DEF PutsOnly, Follows, LeaseLive, SameEnd
<1>9. /\ Touches(t1, classified, a) /\ classified.att[a] = ClassifiedRow(s)
      /\ SameWork(s, classified.att[a])
  BY <1>3, <1>8, ClassifiedTouches
<1>10. StepKept(classified) /\ Follows(Tables, classified)
  BY <1>8, <1>9, FollowsOn DEF Touches, Follows
<1>11. CASE ~ drop /\ ~ quiet /\ Commit(classified)
  <2>1. /\ att' = classified.att /\ run' = classified.run
        /\ envelope' = classified.envelope /\ approved' = approved
    BY <1>11 DEF Commit
  <2> HIDE DEF classified
  <2> QED BY <1>10, <2>1, LandOnward
<1>12. CASE ~ drop /\ quiet /\ Commit(given)
  <2>1. r.state = "dispatched" /\ r.hold = "held"
    BY <1>1, <1>3, <1>12 DEF Marked, RowKept, RowOpen
  <2>2. ~ Marked(s) /\ ~ CallOpen(s)
    BY <1>7, <1>12 DEF Marked, CallOpen, SameEnd
  <2>3. ending \in {"completed", "failed"}
    BY <1>12
  <2>4. Follows(t1, given)
    BY <1>8, <2>1, <2>2, <2>3, QuietFollows
  <2>5. /\ att' = given.att /\ run' = given.run
        /\ envelope' = given.envelope /\ approved' = approved
    BY <1>12 DEF Commit
  <2> HIDE DEF given
  <2>6. Follows(Tables, given)
    BY <1>8, <2>4, FollowsOn
  <2> QED BY <2>5, <2>6, LandOnward
<1>13. CASE drop /\ ~ quiet /\ DropFits(classified, a) /\ Commit(dropped)
  <2>1. /\ att' = dropped.att /\ run' = dropped.run
        /\ envelope' = dropped.envelope /\ approved' = approved
    BY <1>13 DEF Commit
  <2>2. DropFits(classified, a)
    BY <1>13
  <2> HIDE DEF classified
  <2>3. ASSUME classified.att[a].state = "abandoned"
        PROVE  \A b \in Written(classified) : Past(classified.att[b])
    <3>1. ~ s.marked
      BY <1>9, <2>2, <2>3 DEF DropFits, Marked, SameWork
    <3>2. ~ r.marked /\ r.state = "dispatched" /\ r.hold = "held"
      BY <1>1, <1>3, <1>7, <3>1 DEF SameEnd, RowKept, RowOpen
    <3>3. ~ Past(s) /\ a \in Written(t1)
      BY <1>3, <1>8, <3>2 DEF Past, Written
    <3>4. \A b \in Written(t1) \ {a} : Past(t1.att[b])
      BY <1>8, <3>3, OthersArePast
    <3>5. Past(classified.att[a])
      <4>1. RowKept(s) /\ s.state # "none"
        BY <1>3, <1>8, RowsOfKept
      <4>2. ClassifiedRow(s).hold # "held" => Past(ClassifiedRow(s))
        BY <1>7, <1>8, <3>2, <4>1, ClassifiedRowStays
      <4>3. RowKept(classified.att[a])
        BY <1>10, RowsOfKept
      <4>4. classified.att[a].hold # "held"
        BY <2>3, <4>3 DEF RowKept, RowOpen
      <4> QED BY <1>9, <4>2, <4>4
    <3> QED BY <1>9, <3>4, <3>5 DEF Touches, Written
  <2>4. Follows(classified, dropped)
    BY <1>10, <2>3, DroppedFollows
  <2> HIDE DEF dropped
  <2>5. Follows(Tables, dropped)
    BY <1>10, <2>4, FollowsOn
  <2> QED BY <2>1, <2>5, LandOnward
<1> QED BY <1>6, <1>11, <1>12, <1>13

(***************************************************************************)
(* The sweep.                                                              *)
(***************************************************************************)
SweptRow(r) ==
    IF r.call = "dispatched" /\ r.lease # "live" THEN [r EXCEPT !.call = "unknown", !.lost = TRUE]
    ELSE r

\* A call out on a lease that is over is held unknown (sweepModelCalls).
LEMMA SweptRowIs ==
    ASSUME NEW r \in Row, RowKept(r)
    PROVE  LET s == SweptRow(r) IN
           /\ s \in Row /\ RowKept(s) /\ Goes(r, s) /\ SameMoney(r, s)
           /\ s.state = r.state /\ (Past(r) <=> Past(s))
<1> DEFINE s == SweptRow(r)
<1>1. CASE ~ (r.call = "dispatched" /\ r.lease # "live")
  <2>1. s = r
    BY <1>1 DEF SweptRow
  <2> QED BY <2>1 DEF Goes, Steps, SameMoney
<1>2. CASE r.call = "dispatched" /\ r.lease # "live"
  <2>1. s = [r EXCEPT !.call = "unknown", !.lost = TRUE]
    BY <1>2 DEF SweptRow
  <2>2. r.state \notin {"none", "reserved"}
    BY <1>2, BlankRow
  <2> HIDE DEF s
  <2>3. s \in Row
    <3> DEFINE q == [r EXCEPT !.call = "unknown"]
    <3>1. q \in Row
      BY DEF Row
    <3>2. s = [q EXCEPT !.lost = TRUE]
      BY <2>1
    <3> HIDE DEF q
    <3> QED BY <3>1, <3>2 DEF Row
  <2>4. /\ s.state = r.state /\ s.outcome = r.outcome /\ s.hold = r.hold
        /\ s.amount = r.amount /\ s.actual = r.actual /\ s.marked = r.marked
        /\ s.observed = r.observed /\ s.absent = r.absent /\ s.lease = r.lease
        /\ s.note = r.note /\ s.word = r.word /\ s.call = "unknown" /\ s.lost
    BY <2>1 DEF Row
  <2>5. RowKept(s)
    BY <2>2, <2>4 DEF RowKept, RowOpen, RowLeased, RowMarked, RowAnswered, LeaseLive
  <2>6. Goes(r, s) /\ SameMoney(r, s) /\ (Past(r) <=> Past(s))
    BY <2>4 DEF Goes, Steps, SameMoney, Past
  <2> QED BY <2>3, <2>4, <2>5, <2>6, Zenon DEF s
<1> QED BY <1>1, <1>2

\* The sweep's look at the calls takes nothing back and moves no hold.
LEMMA CallsSweptFollows ==
    ASSUME NEW t, StepKept(t)
    PROVE  Follows(t, CallsSwept(t))
<1> DEFINE f == [a \in Attempt |-> SweptRow(t.att[a])]
           u == CallsSwept(t)
<1>1. /\ t.att \in [Attempt -> Row] /\ t.run \in RunStates
      /\ t.envelope \in [held : Nat, actual : Nat]
      /\ t = [att |-> t.att, run |-> t.run, envelope |-> t.envelope]
  BY DEF StepKept, TablesType
<1>2. f = [a \in Attempt |->
              IF t.att[a].call = "dispatched" /\ t.att[a].lease # "live"
                  THEN [t.att[a] EXCEPT !.call = "unknown", !.lost = TRUE] ELSE t.att[a]]
  BY DEF SweptRow
<1>3. u = [t EXCEPT !.att = f]
  BY <1>2 DEF CallsSwept
<1> HIDE DEF f, u
<1>4. u.att = f /\ u.run = t.run /\ u.envelope = t.envelope
      /\ u = [att |-> u.att, run |-> u.run, envelope |-> u.envelope]
  BY <1>1, <1>3
<1>5. ASSUME NEW a \in Attempt
      PROVE  /\ f[a] \in Row /\ RowKept(f[a]) /\ Goes(t.att[a], f[a]) /\ SameMoney(t.att[a], f[a])
             /\ f[a].state = t.att[a].state /\ (Past(t.att[a]) <=> Past(f[a]))
  <2>1. f[a] = SweptRow(t.att[a])
    BY DEF f
  <2>2. t.att[a] \in Row /\ RowKept(t.att[a])
    BY <1>1 DEF StepKept
  <2> QED BY <2>1, <2>2, SweptRowIs
<1>6. f \in [Attempt -> Row]
  <2>1. f = [a \in Attempt |-> f[a]]
    BY DEF f
  <2> QED BY <1>5, <2>1
<1>7. u \in TablesType
  BY <1>1, <1>4, <1>6 DEF TablesType
<1>8. Written(u) = Written(t) /\ Held(u) = Held(t)
  BY <1>4, <1>5 DEF Written, Held, SameMoney
<1>9. InOrder(u) /\ Newest(u) = Newest(t)
  BY <1>8 DEF InOrder, Newest, StepKept
<1>10. \A a \in Written(u) : a # Newest(u) => Past(u.att[a])
  BY <1>4, <1>5, <1>8, <1>9 DEF StepKept, Written
<1>11. Balanced(u)
  <2>1. [a \in Attempt |-> u.att[a].amount] = [a \in Attempt |-> t.att[a].amount]
        /\ [a \in Attempt |-> u.att[a].actual] = [a \in Attempt |-> t.att[a].actual]
    BY <1>4, <1>5 DEF SameMoney
  <2> QED BY <1>4, <1>8, <2>1 DEF Balanced, StepKept
<1>12. StepKept(u)
  BY <1>4, <1>5, <1>7, <1>9, <1>10, <1>11 DEF StepKept
<1>13. Moving(t, u)
  BY <1>4, <1>5 DEF Moving
<1> QED BY <1>12, <1>13 DEF Follows, u

\* The sweep of a lapsed lease loses its call, classifies its attempt and may resume it.
LEMMA SweptOneFollows ==
    ASSUME NEW t, StepKept(t), NEW a \in Attempt, NEW room,
           t.att[a].hold = "held", t.att[a].lease = "lapsed",
           t.att[a].state # "liability_unknown"
    PROVE  Follows(t, SweptOne(t, a, room))
<1> DEFINE r == t.att[a]
           w == CallLost(t, a)
           q == w.att[a]
           s == [q EXCEPT !.lease = "expired"]
           ended == [w EXCEPT !.att[a].lease = "expired"]
           classified == Classified(ended, a)
           u == Dropped(classified, a, "worker_lost", room)
<1>1. r \in Row /\ RowKept(r)
  BY RowsOfKept
<1>2. r.state = "dispatched"
  BY <1>1, BlankRow DEF RowKept, RowOpen
<1>3. /\ Follows(t, w) /\ Written(w) = Written(t) /\ q \in Row
      /\ q.state = "dispatched" /\ q.hold = "held" /\ q.lease = "lapsed"
  <2>1. CASE r.call # "dispatched"
    <3>1. w = t
      BY <2>1 DEF CallLost
    <3> QED BY <1>1, <1>2, <3>1, FollowsItself
  <2>2. CASE r.call = "dispatched"
    <3>1. w = Lost(t, a)
      BY <2>2 DEF CallLost, Lost
    <3>2. /\ PutsOnly(t, Lost(t, a), a, LostRow(r), t.run)
          /\ LostRow(r) \in Row /\ SameHold(r, LostRow(r))
      BY <2>2, LostFollows
    <3>3. q = LostRow(r)
      BY <3>1, <3>2 DEF PutsOnly
    <3> QED BY <1>2, <3>1, <3>2, <3>3 DEF PutsOnly, SameHold
  <2> QED BY <2>1, <2>2
<1> HIDE DEF w
<1>4. StepKept(w)
  BY <1>3 DEF Follows
<1>5. PutsOnly(w, ended, a, s, w.run) /\ s \in Row /\ SameEnd(q, s) /\ s.lease = "expired"
  BY <1>3, <1>4, LeaseEnds
<1> HIDE DEF ended, s
<1>6. /\ StepKept(ended) /\ Follows(t, ended) /\ ended.att[a] = s /\ ~ LeaseLive(s)
      /\ s.state = "dispatched" /\ s.hold = "held" /\ Written(ended) = Written(t)
  BY <1>3, <1>5, FollowsOn DEF PutsOnly, Follows, SameEnd, LeaseLive
<1>7. /\ Touches(ended, classified, a) /\ classified.att[a] = ClassifiedRow(s)
  BY <1>6, ClassifiedTouches
<1> HIDE DEF classified
<1>8. StepKept(classified) /\ Follows(t, classified)
  BY <1>6, <1>7, FollowsOn DEF Touches, Follows
<1>9. ASSUME classified.att[a].state = "abandoned"
      PROVE  \A b \in Written(classified) : Past(classified.att[b])
  <2>1. ~ Past(s) /\ a \in Written(ended)
    BY <1>6 DEF Past, Written
  <2>2. \A b \in Written(ended) \ {a} : Past(ended.att[b])
    BY <1>6, <2>1, OthersArePast
  <2>3. Past(classified.att[a])
    <3>1. RowKept(s) /\ RowKept(classified.att[a])
      BY <1>6, <1>8, RowsOfKept
    <3>2. ClassifiedRow(s).hold # "held" => Past(ClassifiedRow(s))
      BY <1>5, <1>6, <3>1, ClassifiedRowStays
    <3>3. classified.att[a].hold # "held"
      BY <1>9, <3>1 DEF RowKept, RowOpen
    <3> QED BY <1>7, <3>2, <3>3
  <2> QED BY <1>7, <2>2, <2>3 DEF Touches, Written
<1>10. Follows(classified, u)
  BY <1>8, <1>9, DroppedFollows
<1> HIDE DEF u
<1>11. Follows(t, u)
  BY <1>8, <1>10, FollowsOn
<1>12. SweptOne(t, a, room) = u
  BY DEF SweptOne, u, classified, ended, w
<1> QED BY <1>11, <1>12

\* What is lost of a lapsed lease is the newest attempt.
LEMMA SweepOnward == ASSUME StepInv, NEW room \in BOOLEAN, Sweep(room) PROVE Onward
<1> DEFINE n == Newest(Tables)
           A == LapsedLost(Tables)
           w == InTurn(LAMBDA t, a : SweptOne(t, a, room), Tables, A)
           u == CallsSwept(w)
<1>1. StepKept(Tables)
  BY DEF StepInv
<1>2. A \in SUBSET {n}
  <2> SUFFICES ASSUME NEW a \in A PROVE a = n
    OBVIOUS
  <2>1. /\ a \in Attempt /\ Tables.att[a].hold = "held" /\ Tables.att[a].lease = "lapsed"
        /\ Tables.att[a].state # "liability_unknown"
    BY DEF LapsedLost
  <2>2. Tables.att[a] \in Row /\ RowKept(Tables.att[a])
    BY <1>1, <2>1, RowsOfKept
  <2>3. Tables.att[a].state = "dispatched"
    BY <2>1, <2>2, BlankRow DEF RowKept, RowOpen
  <2>4. a \in Written(Tables) /\ ~ Past(Tables.att[a])
    BY <2>1, <2>3 DEF Written, Past
  <2> QED BY <1>1, <2>1, <2>4, OthersArePast
<1>3. w = IF A = {} THEN Tables ELSE SweptOne(Tables, n, room)
  BY <1>2, SweptInTurn
<1>4. Follows(Tables, w)
  <2>1. CASE A = {}
    BY <1>1, <1>3, <2>1, FollowsItself
  <2>2. CASE A # {}
    <3>1. n \in A
      BY <1>2, <2>2
    <3>2. /\ n \in Attempt /\ Tables.att[n].hold = "held" /\ Tables.att[n].lease = "lapsed"
          /\ Tables.att[n].state # "liability_unknown"
      BY <3>1 DEF LapsedLost
    <3> HIDE DEF w, A, n
    <3>3. Follows(Tables, SweptOne(Tables, n, room))
      BY <1>1, <3>2, SweptOneFollows
    <3> QED BY <1>3, <2>2, <3>3
  <2> QED BY <2>1, <2>2
<1>5. /\ att' = u.att /\ run' = u.run /\ envelope' = u.envelope /\ approved' = approved
  BY DEF Sweep, Swept, Commit
<1> HIDE DEF w
<1>6. Follows(w, u)
  BY <1>4, CallsSweptFollows DEF Follows
<1> HIDE DEF u
<1>7. Follows(Tables, u)
  BY <1>4, <1>6, FollowsOn
<1> QED BY <1>5, <1>7, LandOnward

(***************************************************************************)
(* The replay of what nobody classified, and the end of the approval.      *)
(***************************************************************************)
LEMMA AllClassified ==
    ASSUME NEW t, StepKept(t), NEW A \in SUBSET Attempt,
           \A b \in A : t.att[b].state # "none" /\ ~ LeaseLive(t.att[b])
    PROVE  LET u == InTurn(Classified, t, A) IN
           Follows(t, u) /\ \A b \in Attempt : u.att[b].lease = t.att[b].lease
<1> DEFINE T == {u \in TablesType : /\ Follows(t, u) /\ Written(u) = Written(t)
                                    /\ \A b \in Attempt : u.att[b].lease = t.att[b].lease}
<1>1. t \in T
  BY FollowsItself DEF StepKept
<1>2. ASSUME NEW u \in T, NEW a \in A
      PROVE  Classified(u, a) \in T
  <2> DEFINE w == Classified(u, a)
  <2>1. /\ StepKept(u) /\ Follows(t, u) /\ Written(u) = Written(t) /\ a \in Attempt
        /\ \A b \in Attempt : u.att[b].lease = t.att[b].lease
    BY DEF Follows
  <2>2. u.att[a].state # "none" /\ ~ LeaseLive(u.att[a])
    BY <2>1 DEF Written, LeaseLive
  <2>3. Touches(u, w, a) /\ SameWork(u.att[a], w.att[a])
    BY <2>1, <2>2, ClassifiedTouches
  <2> HIDE DEF w
  <2>4. Follows(t, w) /\ w \in TablesType /\ Written(w) = Written(t)
    BY <2>1, <2>3, FollowsOn DEF Touches, Follows, StepKept
  <2>5. \A b \in Attempt : w.att[b].lease = t.att[b].lease
    BY <2>1, <2>3 DEF Touches, SameWork
  <2> QED BY <2>4, <2>5 DEF w
<1> HIDE DEF T
<1>3. InTurn(Classified, t, A) \in T
  BY <1>1, <1>2, ClassifiedInTurn
<1> QED BY <1>3 DEF T

\* The replay classifies every hold whose end is recorded (replayRecordedTransitions).
LEMMA ReplayOnward == ASSUME StepInv, Replay PROVE Onward
<1> DEFINE A == Unclassified
           u == InTurn(Classified, Tables, A)
<1>1. StepKept(Tables) /\ Tables.att = att
  BY DEF StepInv, Tables
<1>2. A \in SUBSET Attempt
  BY DEF Unclassified, Held
<1>3. ASSUME NEW b \in A
      PROVE  Tables.att[b].state # "none" /\ ~ LeaseLive(Tables.att[b])
  <2>1. b \in Attempt /\ att[b].hold = "held"
    BY <1>1 DEF Unclassified, Held
  <2>2. RowKept(att[b])
    BY <1>1, <2>1, RowsOfKept
  <2>3. att[b].state # "none"
    BY <2>1, <2>2 DEF RowKept, RowOpen
  <2>4. ~ LeaseLive(att[b])
    <3>1. CASE ~ approved
      BY <2>1, <3>1 DEF StepInv, LivesApproved
    <3>2. CASE approved
      BY <3>2 DEF Unclassified, LeaseLive
    <3> QED BY <3>1, <3>2
  <2> QED BY <1>1, <2>3, <2>4
<1> HIDE DEF A
<1>4. Follows(Tables, u)
  BY <1>1, <1>2, <1>3, AllClassified
<1>5. /\ att' = u.att /\ run' = u.run /\ envelope' = u.envelope /\ approved' = approved
  BY DEF Replay, Commit, A
<1> HIDE DEF u
<1> QED BY <1>4, <1>5, LandOnward

RetiresWithin(T) ==
    \A u \in T, a \in Attempt :
        /\ LeaseRetired(u, a) \in T /\ ~ LeaseLive(LeaseRetired(u, a).att[a])
        /\ \A b \in Attempt \ {a} : LeaseRetired(u, a).att[b] = u.att[b]

\* Retiring in turn keeps what each retirement keeps, and leaves no lease live.
LEMMA RetiredInTurn ==
    ASSUME NEW T, NEW t \in T, NEW A \in SUBSET Attempt, RetiresWithin(T)
    PROVE  /\ InTurn(LeaseRetired, t, A) \in T
           /\ \A b \in A : ~ LeaseLive(InTurn(LeaseRetired, t, A).att[b])
<1> DEFINE Op(v, x) == LeaseRetired(v, x)
           I == CHOOSE iter : iter = [s \in SUBSET A |->
                    IF s = {} THEN t
                    ELSE LeaseRetired(iter[s \ {CHOOSE x \in s : TRUE}], CHOOSE x \in s : TRUE)]
           G == [p \in A \X T |-> Op(p[2], p[1])]
<1>1. InTurn(LeaseRetired, t, A) = I[A]
  BY DEF InTurn, FoldSet, MapThenFoldSet
<1>2. IsFiniteSet(A)
  BY AttemptsAreFinite, FS_Subset
<1>3. \A x \in A, v \in T :
          /\ G[<<x, v>>] = Op(v, x) /\ Op(v, x) \in T /\ ~ LeaseLive(Op(v, x).att[x])
          /\ \A b \in Attempt \ {x} : Op(v, x).att[b] = v.att[b]
  BY DEF RetiresWithin
<1> HIDE DEF G, Op
<1>4. PICK g : Folds(G, t, A, g) /\ \A s \in SUBSET A : g[s] \in T
  <2>1. \A x \in A, v \in T : G[<<x, v>>] \in T
    BY <1>3
  <2> QED BY <1>2, <2>1, FoldsWithin
<1>5. g = [s \in SUBSET A |-> IF s = {} THEN t ELSE Op(g[s \ {Chosen(s)}], Chosen(s))]
  <2>1. ASSUME NEW s \in SUBSET A, s # {}
        PROVE  G[<<Chosen(s), g[s \ {Chosen(s)}]>>] = Op(g[s \ {Chosen(s)}], Chosen(s))
    <3>1. Chosen(s) \in A
      BY <2>1 DEF Chosen
    <3> QED BY <1>3, <1>4, <3>1
  <2>2. g = [s \in SUBSET A |-> IF s = {} THEN t ELSE G[<<Chosen(s), g[s \ {Chosen(s)}]>>]]
    BY <1>4, Zenon DEF Folds, Folding
  <2> QED BY <2>1, <2>2
<1>6. I = [s \in SUBSET A |-> IF s = {} THEN t ELSE Op(I[s \ {Chosen(s)}], Chosen(s))]
  <2>1. g = [s \in SUBSET A |->
                IF s = {} THEN t
                ELSE LeaseRetired(g[s \ {CHOOSE x \in s : TRUE}], CHOOSE x \in s : TRUE)]
    BY <1>5, Zenon DEF Op, Chosen
  <2>2. I = [s \in SUBSET A |->
                IF s = {} THEN t
                ELSE LeaseRetired(I[s \ {CHOOSE x \in s : TRUE}], CHOOSE x \in s : TRUE)]
    BY <2>1, Zenon
  <2> QED BY <2>2, Zenon DEF Op, Chosen
<1> HIDE DEF I
<1> DEFINE J == [s \in SUBSET A |-> <<s, I[s]>>]
           P == {p \in (SUBSET A) \X T : \A b \in p[1] : ~ LeaseLive(p[2].att[b])}
<1>7. J[{}] \in P
  <2>1. I[{}] = t /\ {} \in SUBSET A
    BY <1>6
  <2> QED BY <2>1
<1>8. ASSUME NEW s \in SUBSET A, s # {}, J[s \ {Chosen(s)}] \in P
      PROVE  J[s] \in P
  <2> DEFINE c == Chosen(s)
             R == s \ {c}
  <2>1. c \in A /\ c \in s /\ R \in SUBSET A /\ c \in Attempt
    BY <1>8 DEF Chosen
  <2>2. I[R] \in T /\ \A b \in R : ~ LeaseLive(I[R].att[b])
    BY <1>8, <2>1
  <2>3. I[s] = Op(I[R], c)
    BY <1>6, <1>8
  <2> HIDE DEF c, R
  <2>4. /\ I[s] \in T /\ ~ LeaseLive(I[s].att[c])
        /\ \A b \in Attempt \ {c} : I[s].att[b] = I[R].att[b]
    <3>1. /\ Op(I[R], c) \in T /\ ~ LeaseLive(Op(I[R], c).att[c])
          /\ \A b \in Attempt \ {c} : Op(I[R], c).att[b] = I[R].att[b]
      BY <1>3, <2>1, <2>2, Zenon
    <3> QED BY <2>3, <3>1, Zenon
  <2>5. \A b \in s : ~ LeaseLive(I[s].att[b])
    BY <2>1, <2>2, <2>4 DEF R
  <2> QED BY <2>4, <2>5
<1> HIDE DEF P, J
<1>9. \A s \in SUBSET A : J[s] \in P
  BY <1>2, <1>7, <1>8, FoldStays
<1>10. J[A] = <<A, I[A]>> /\ J[A] \in P
  BY <1>9 DEF J
<1>11. I[A] \in T /\ \A b \in A : ~ LeaseLive(I[A].att[b])
  BY <1>10 DEF P
<1> QED BY <1>1, <1>11

\* So retiring every live lease of the step takes nothing back, and leaves none live.
LEMMA AllRetired ==
    ASSUME NEW t, StepKept(t)
    PROVE  LET u == InTurn(LeaseRetired, t, Attempt) IN
           /\ Follows(t, u) /\ Written(u) = Written(t)
           /\ \A b \in Attempt : ~ LeaseLive(u.att[b])
<1> DEFINE T == {u \in TablesType : Follows(t, u) /\ Written(u) = Written(t)}
<1>1. t \in T
  BY FollowsItself DEF StepKept
<1>2. ASSUME NEW u \in T, NEW a \in Attempt
      PROVE  /\ LeaseRetired(u, a) \in T /\ ~ LeaseLive(LeaseRetired(u, a).att[a])
             /\ \A b \in Attempt \ {a} : LeaseRetired(u, a).att[b] = u.att[b]
  <2>1. StepKept(u) /\ Follows(t, u) /\ Written(u) = Written(t)
    BY DEF Follows
  <2>2. u.att[a] \in Row /\ RowKept(u.att[a])
    BY <2>1, RowsOfKept
  <2>3. CASE ~ LeaseLive(u.att[a])
    BY <2>3 DEF LeaseRetired
  <2>4. CASE LeaseLive(u.att[a])
    <3> DEFINE w == Retired(u, a)
    <3>1. u.att[a].state # "none"
      BY <2>2, <2>4, BlankRow DEF LeaseLive
    <3>2. PutsOnly(u, w, a, RetiredRow(u.att[a]), u.run)
      BY <2>1, <2>4, <3>1, RetiredFollows
    <3>3. RetiredRow(u.att[a]).lease = "released"
      BY <2>2, <2>4, <3>1, RetiredRowStays
    <3> HIDE DEF w
    <3>4. /\ Follows(t, w) /\ w \in TablesType /\ Written(w) = Written(t)
          /\ ~ LeaseLive(w.att[a]) /\ \A b \in Attempt \ {a} : w.att[b] = u.att[b]
      BY <2>1, <3>2, <3>3, FollowsOn DEF PutsOnly, Follows, StepKept, LeaseLive
    <3>5. LeaseRetired(u, a) = w
      BY <2>4 DEF w, LeaseRetired
    <3> QED BY <3>4, <3>5
  <2> QED BY <2>3, <2>4
<1> HIDE DEF T
<1>3. /\ InTurn(LeaseRetired, t, Attempt) \in T
      /\ \A b \in Attempt : ~ LeaseLive(InTurn(LeaseRetired, t, Attempt).att[b])
  <2>1. \A u \in T, a \in Attempt :
            /\ LeaseRetired(u, a) \in T /\ ~ LeaseLive(LeaseRetired(u, a).att[a])
            /\ \A b \in Attempt \ {a} : LeaseRetired(u, a).att[b] = u.att[b]
    BY <1>2
  <2> DEFINE A == Attempt
  <2>2. A \in SUBSET Attempt
    OBVIOUS
  <2>3. RetiresWithin(T)
    BY <2>1, Zenon DEF RetiresWithin
  <2> HIDE DEF A
  <2>4. /\ InTurn(LeaseRetired, t, A) \in T
        /\ \A b \in A : ~ LeaseLive(InTurn(LeaseRetired, t, A).att[b])
    BY <1>1, <2>2, <2>3, RetiredInTurn
  <2> QED BY <2>4 DEF A
<1> QED BY <1>3 DEF T

\* A cancellation or revision retires the work, cancels the run, and classifies its holds
\* (cancelAndClassify, propose.ts).
LEMMA EndApprovalOnward == ASSUME StepInv, EndApproval PROVE Onward
<1> DEFINE retired == InTurn(LeaseRetired, Tables, Attempt)
           now == IF retired.run \in {"planned", "claimed"} THEN "cancelled" ELSE retired.run
           over == [retired EXCEPT !.run = IF @ \in {"planned", "claimed"} THEN "cancelled" ELSE @]
           t1 == InTurn(Classified, over, Held(Tables))
<1>1. StepKept(Tables)
  BY DEF StepInv
<1>3. /\ Follows(Tables, retired) /\ Written(retired) = Written(Tables)
      /\ \A b \in Attempt : ~ LeaseLive(retired.att[b])
  BY <1>1, AllRetired
<1> HIDE DEF retired
<1>4. /\ Follows(Tables, retired) /\ Written(retired) = Written(Tables)
      /\ StepKept(retired) /\ retired \in TablesType
  BY <1>3 DEF Follows, StepKept
<1>5. over = [retired EXCEPT !.run = now]
  BY <1>4 DEF TablesType
<1>6. now \in RunStates
  BY <1>4 DEF TablesType, RunStates
<1> HIDE DEF over, now
<1>7. StepKept(over) /\ Moving(retired, over) /\ over.att = retired.att
  BY <1>4, <1>5, <1>6, RunAloneKeeps
<1>8. Follows(Tables, over)
  BY <1>4, <1>7, FollowsOn DEF Follows
<1>9. Held(Tables) \in SUBSET Attempt
  BY DEF Held
<1>10. ASSUME NEW b \in Held(Tables)
       PROVE  over.att[b].state # "none" /\ ~ LeaseLive(over.att[b])
  <2>1. b \in Attempt /\ RowKept(Tables.att[b]) /\ Tables.att[b].hold = "held"
    BY <1>1, RowsOfKept DEF Held
  <2>2. b \in Written(Tables)
    BY <2>1 DEF RowKept, RowOpen, Written
  <2> QED BY <1>3, <1>4, <1>7, <2>1, <2>2 DEF Written
<1>11. Follows(over, t1) /\ \A b \in Attempt : t1.att[b].lease = over.att[b].lease
  BY <1>7, <1>9, <1>10, AllClassified
<1>12. approved' = FALSE /\ att' = t1.att /\ run' = t1.run /\ envelope' = t1.envelope
  BY DEF EndApproval, t1, over, retired
<1> HIDE DEF t1
<1>13. Follows(Tables, t1)
  BY <1>8, <1>11, FollowsOn
<1>14. t1 = [att |-> t1.att, run |-> t1.run, envelope |-> t1.envelope]
  BY <1>13 DEF Follows, StepKept, TablesType
<1>15. Tables' = t1
  BY <1>12, <1>14 DEF Tables
<1>16. LivesApproved'
  BY <1>3, <1>7, <1>11, <1>12 DEF LivesApproved, LeaseLive
<1> QED BY <1>12, <1>13, <1>15, <1>16 DEF Onward, StepInv, Follows

(***************************************************************************)
(* What stops the replacements of a written-off step, and a person's word. *)
(***************************************************************************)

\* A hold that is held unmarked is the newest attempt's.
LEMMA UnmarkedIsNewest ==
    ASSUME NEW t, StepKept(t), NEW a \in Attempt, t.att[a].hold = "held", ~ t.att[a].marked
    PROVE  a = Newest(t)
<1>1. RowKept(t.att[a])
  BY RowsOfKept
<1>2. ~ t.att[a].absent /\ t.att[a].state # "none"
  BY <1>1 DEF RowKept, RowOpen, RowMarked
<1>3. a \in Written(t) /\ ~ Past(t.att[a])
  BY <1>2 DEF Written, Past
<1> QED BY <1>3, OthersArePast

\* Stopping any unmarked replacements takes nothing back: at most the newest is one.
LEMMA ReplacementsFollow ==
    ASSUME NEW t, StepKept(t), NEW A \in SUBSET Attempt,
           \A b \in A : t.att[b].hold = "held" /\ ~ t.att[b].marked
    PROVE  LET u == InTurn(ReplacementStopped, t, A) IN
           /\ Follows(t, u) /\ u.run = t.run /\ Written(u) = Written(t)
           /\ \A b \in Attempt \ A : u.att[b] = t.att[b]
<1> DEFINE n == Newest(t)
           u == InTurn(ReplacementStopped, t, A)
<1>1. A \in SUBSET {n}
  <2> SUFFICES ASSUME NEW a \in A PROVE a = n
    OBVIOUS
  <2>1. a \in Attempt /\ t.att[a].hold = "held" /\ ~ t.att[a].marked
    OBVIOUS
  <2> QED BY <2>1, UnmarkedIsNewest
<1> HIDE DEF n
<1>2. u = IF A = {} THEN t ELSE ReplacementStopped(t, n)
  BY <1>1, ReplacementsInTurn
<1>3. CASE A = {}
  BY <1>2, <1>3, FollowsItself
<1>4. CASE A # {}
  <2>1. n \in A /\ A = {n}
    BY <1>1, <1>4
  <2>2. n \in Attempt /\ t.att[n].hold = "held" /\ ~ t.att[n].marked
    BY <2>1
  <2>3. Touches(t, ReplacementStopped(t, n), n)
    BY <2>2, ReplacementStoppedTouches
  <2> HIDE DEF u
  <2> QED BY <1>2, <1>4, <2>1, <2>3 DEF Touches, u
<1> QED BY <1>3, <1>4

\* The pass stops what replaces a written-off step (written-off-replacements.ts).
LEMMA StopWrittenOffReplacementsOnward ==
    ASSUME StepInv, StopWrittenOffReplacements PROVE Onward
<1> DEFINE A == Replacements
           u == InTurn(ReplacementStopped, Tables, A)
<1>1. StepKept(Tables) /\ Tables.att = att
  BY DEF StepInv, Tables
<1>2. A \in SUBSET Attempt /\ \A b \in A : Tables.att[b].hold = "held" /\ ~ Tables.att[b].marked
  BY <1>1 DEF Replacements, Held, Marked
<1>3. /\ att' = u.att /\ run' = u.run /\ envelope' = u.envelope /\ approved' = approved
  BY DEF StopWrittenOffReplacements, Commit
<1> HIDE DEF A
<1>4. Follows(Tables, u)
  BY <1>1, <1>2, ReplacementsFollow
<1> HIDE DEF u
<1> QED BY <1>3, <1>4, LandOnward

\* What the word makes of a row, and of its held call.
CallAfter(call, word) ==
    IF call # "unknown" THEN call
    ELSE IF word = "nothing_happened" THEN "released"
    ELSE IF word = "written_off" THEN call
    ELSE "settled"

ResolvedRow(r, word) == [r EXCEPT !.word = word, !.call = CallAfter(r.call, word)]

\* A person's word is written to the attempt and to its held call (resolveHeldCalls).
LEMMA CallResolvedPuts ==
    ASSUME NEW w, w.att \in [Attempt -> Row], NEW a \in Attempt, NEW word \in Words,
           w = [att |-> w.att, run |-> w.run, envelope |-> w.envelope]
    PROVE  CallResolved(w, a, word) = PutRow(w, a, ResolvedRow(w.att[a], word), w.run)
<1> DEFINE u == CallResolved(w, a, word)
           r == w.att[a]
           call == CallAfter(r.call, word)
           f == [w.att EXCEPT ![a].word = word, ![a].call = call]
           q == [r EXCEPT !.word = word, !.call = call]
<1>1. u = [w EXCEPT !.att[a].word = word, !.att[a].call = call]
  BY DEF CallResolved, CallAfter
<1>2. f = [w.att EXCEPT ![a] = q]
  <2> HIDE DEF call
  <2> QED OBVIOUS
<1> HIDE DEF u, call
<1>3. u = [att |-> u.att, run |-> u.run, envelope |-> u.envelope]
  BY <1>1
<1>4. u.run = w.run /\ u.envelope = w.envelope
  BY <1>1
<1>5. u.att = f
  BY <1>1
<1> HIDE DEF f, q
<1>6. u = PutRow(w, a, q, w.run)
  BY <1>2, <1>3, <1>4, <1>5 DEF PutRow
<1>7. q = ResolvedRow(r, word)
  BY DEF ResolvedRow, q, call
<1> QED BY <1>6, <1>7 DEF u

\* The row of an unknown liability that is closed with a person's word.
LEMMA ResolvedRowIs ==
    ASSUME NEW r \in Row, RowKept(r), r.state = "liability_unknown", r.hold = "held",
           NEW c \in Row, SameWork(r, c), NEW word \in Words,
           c.state \in {"settled", "abandoned"}, c.hold \in {"actual", "abandoned"},
           word = "happened" =>
               c.state = "settled" /\ c.outcome = "completed" /\ c.hold = "actual"
    PROVE  LET q == ResolvedRow(c, word) IN
           /\ q \in Row /\ SameMoney(c, q) /\ Stays(r, q) /\ Goes(r, q)
           /\ word \in {"nothing_happened", "happened_differently"} => Past(q)
<1> DEFINE call == CallAfter(c.call, word)
           q == ResolvedRow(c, word)
<1>1. /\ call \in {"none", "dispatched", "unknown", "settled", "released"}
      /\ (call \in {"none", "dispatched"} => c.call \in {"none", "dispatched"})
  <2>1. c.call \in {"none", "dispatched", "unknown", "settled", "released"}
    BY DEF Row
  <2> QED BY <2>1 DEF CallAfter
<1>2. q = [c EXCEPT !.word = word, !.call = call]
  BY DEF ResolvedRow
<1> HIDE DEF call, q
<1>3. q \in Row
  <2> DEFINE p == [c EXCEPT !.word = word]
  <2>1. p \in Row
    BY DEF Row
  <2>2. q = [p EXCEPT !.call = call]
    BY <1>2
  <2> HIDE DEF p
  <2> QED BY <1>1, <2>1, <2>2 DEF Row
<1>4. /\ q.state = c.state /\ q.outcome = c.outcome /\ q.hold = c.hold
      /\ q.amount = c.amount /\ q.actual = c.actual /\ q.marked = c.marked
      /\ q.observed = c.observed /\ q.absent = c.absent /\ q.lease = c.lease
      /\ q.note = c.note /\ q.lost = c.lost /\ q.word = word /\ q.call = call
  BY <1>2 DEF Row
<1>5. r.amount > 0 /\ r.word = "none" /\ r.outcome = "none" /\ (r.absent => r.note # "written")
      /\ (LeaseLive(r) => r.marked)
  BY DEF RowKept, RowOpen, RowMarked, RowLeased
<1>6. RowKept(q)
  <2>1. RowOpen(q)
    BY <1>4, <1>5 DEF RowOpen, SameWork
  <2>2. RowLeased(q)
    BY <1>4, <1>5 DEF RowLeased, LeaseLive, SameWork
  <2>3. RowMarked(q)
    BY <1>1, <1>4 DEF RowKept, RowMarked, SameWork
  <2>4. RowAnswered(q)
    BY <1>4 DEF RowAnswered, Words
  <2> QED BY <2>1, <2>2, <2>3, <2>4 DEF RowKept
<1>7. Goes(r, q)
  BY <1>4, <1>5 DEF Goes, Steps, SameWork
<1>8. Past(r) => Past(q)
  BY <1>4, <1>5 DEF Past, SameWork
<1>9. Stays(r, q)
  BY <1>3, <1>4, <1>6, <1>8 DEF Stays
<1>10. word \in {"nothing_happened", "happened_differently"} => Past(q)
  BY <1>4 DEF Past
<1>11. SameMoney(c, q)
  BY <1>4 DEF SameMoney
<1> QED BY <1>3, <1>7, <1>9, <1>10, <1>11 DEF q

\* A closed row resolved, in the tables.
LEMMA ResolvedFollows ==
    ASSUME NEW t, StepKept(t), NEW a \in Attempt, NEW c \in Row, NEW word \in Words,
           t.att[a].state = "liability_unknown", t.att[a].hold = "held", SameWork(t.att[a], c),
           c.state \in {"settled", "abandoned"}, c.hold \in {"actual", "abandoned"},
           word = "happened" =>
               c.state = "settled" /\ c.outcome = "completed" /\ c.hold = "actual"
    PROVE  LET q == ResolvedRow(c, word)
               u == WithRow(t, a, q, t.run)
           IN
           /\ q \in Row /\ SameMoney(c, q)
           /\ PutsOnly(t, u, a, q, t.run)
           /\ word \in {"nothing_happened", "happened_differently"} => Past(q)
           /\ CallResolved(WithRow(t, a, c, t.run), a, word) = u
<1> DEFINE q == ResolvedRow(c, word)
           w == WithRow(t, a, c, t.run)
<1>1. /\ t.att[a] \in Row /\ RowKept(t.att[a]) /\ t \in TablesType
      /\ t.att \in [Attempt -> Row] /\ t.run \in RunStates
  BY RowsOfKept
<1>2. /\ q \in Row /\ SameMoney(c, q) /\ Stays(t.att[a], q) /\ Goes(t.att[a], q)
      /\ word \in {"nothing_happened", "happened_differently"} => Past(q)
  BY <1>1, ResolvedRowIs
<1>3. /\ w.att \in [Attempt -> Row] /\ w.att[a] = c /\ w.run = t.run
      /\ w = [att |-> w.att, run |-> w.run, envelope |-> w.envelope]
  BY <1>1 DEF WithRow
<1> HIDE DEF w
<1>4. CallResolved(w, a, word) = PutRow(w, a, q, t.run)
  BY <1>3, CallResolvedPuts
<1> HIDE DEF q
<1>5. PutRow(w, a, q, t.run) = WithRow(t, a, q, t.run)
  BY <1>1, <1>2, RowAlone DEF w
<1>6. PutsOnly(t, WithRow(t, a, q, t.run), a, q, t.run)
  BY <1>1, <1>2, RewritingFollows
<1> QED BY <1>2, <1>4, <1>5, <1>6 DEF w, q

\* A person's word settles, releases or redoes the step (outcome.ts).
LEMMA RecordOutcomeOnward ==
    ASSUME StepInv, NEW a \in Attempt, NEW word \in Words \ {"written_off"},
           NEW room \in BOOLEAN, RecordOutcome(a, word, room)
    PROVE  Onward
<1> DEFINE r == att[a]
           others == Held(Tables) \ {a}
           stopped == InTurn(ReplacementStopped, Tables, others)
           t1 == IF word = "happened" THEN stopped ELSE Tables
           c == IF word = "nothing_happened" THEN ReleasedRow(r)
                ELSE SettledRow(r, r.amount, "completed")
           q == ResolvedRow(c, word)
           t2 == IF word = "nothing_happened" THEN Released(t1, a)
                 ELSE Settled(t1, a, r.amount, "completed")
           t3 == CallResolved(t2, a, word)
           resumed == Resumed(t3, a, FALSE, room)
<1>1. /\ StepKept(Tables) /\ Tables.att = att /\ Tables.att[a] = r /\ Tables.run = run
      /\ r \in Row /\ RowKept(r)
  BY RowNow
<1>2. r.state = "liability_unknown" /\ r.hold = "held"
  BY DEF RecordOutcome, Unknown
<1>3. r.actual = 0 /\ r.amount \in Nat \ {0}
  BY <1>1, <1>2 DEF RowKept, RowOpen, Row
<1>4. Commit(IF ResumesOn(r, word) THEN resumed ELSE t3)
  BY DEF RecordOutcome
<1>5. /\ Follows(Tables, t1) /\ Written(t1) = Written(Tables) /\ t1.att[a] = r
      /\ word # "happened" => t1 = Tables
  <2>1. CASE word # "happened"
    BY <1>1, <2>1, FollowsItself
  <2>2. CASE word = "happened"
    <3>1. others \in SUBSET Attempt
      BY DEF Held
    <3>2. \A b \in others : Tables.att[b].hold = "held" /\ ~ Tables.att[b].marked
      BY <1>1, <2>2 DEF RecordOutcome, Held
    <3>3. a \in Attempt \ others
      OBVIOUS
    <3> HIDE DEF others
    <3>4. /\ Follows(Tables, stopped) /\ Written(stopped) = Written(Tables)
          /\ \A b \in Attempt \ others : stopped.att[b] = Tables.att[b]
      BY <1>1, <3>1, <3>2, ReplacementsFollow
    <3> HIDE DEF stopped
    <3> QED BY <1>1, <2>2, <3>3, <3>4
  <2> QED BY <2>1, <2>2
<1> HIDE DEF t1
<1>6. StepKept(t1) /\ t1 \in TablesType
  BY <1>5 DEF Follows, StepKept
<1>7. t2 = WithRow(t1, a, c, t1.run)
  <2>1. Released(t1, a) = WithRow(t1, a, ReleasedRow(r), t1.run)
    BY <1>2, <1>3, <1>5, <1>6, ReleasedIsWithRow
  <2>2. Settled(t1, a, r.amount, "completed")
        = WithRow(t1, a, SettledRow(r, r.amount, "completed"), t1.run)
    BY <1>2, <1>3, <1>5, <1>6, SettledIsWithRow
  <2> QED BY <2>1, <2>2
<1>8. /\ c \in Row /\ SameWork(r, c) /\ c.state \in {"settled", "abandoned"}
      /\ c.hold \in {"actual", "abandoned"}
      /\ word = "happened" => c.state = "settled" /\ c.outcome = "completed" /\ c.hold = "actual"
  <2>1. LET s == ReleasedRow(r) IN
        /\ s \in Row /\ s.state = "abandoned" /\ SameWork(r, s)
        /\ s.hold \in {"actual", "abandoned"}
    BY <1>1, ReleasedRowIs
  <2>2. LET s == SettledRow(r, r.amount, "completed") IN
        /\ s \in Row /\ s.state = "settled" /\ s.outcome = "completed" /\ s.hold = "actual"
        /\ SameWork(r, s)
    <3> DEFINE n == r.amount
    <3>1. n \in Nat \ {0} /\ r \in Row
      BY <1>1, <1>3
    <3>2. n = r.amount
      OBVIOUS
    <3> HIDE DEF n
    <3>3. LET s == SettledRow(r, n, "completed") IN
          /\ s \in Row /\ s.state = "settled" /\ s.outcome = "completed" /\ s.hold = "actual"
          /\ SameWork(r, s)
      BY <3>1, SettledRowIs
    <3> QED BY <3>2, <3>3
  <2> QED BY <2>1, <2>2
<1> HIDE DEF c, t2
<1>9. /\ q \in Row /\ PutsOnly(t1, WithRow(t1, a, q, t1.run), a, q, t1.run)
      /\ word \in {"nothing_happened", "happened_differently"} => Past(q)
      /\ CallResolved(WithRow(t1, a, c, t1.run), a, word) = WithRow(t1, a, q, t1.run)
  BY <1>2, <1>5, <1>6, <1>8, ResolvedFollows
<1>10. t3 = WithRow(t1, a, q, t1.run)
  BY <1>7, <1>9
<1> HIDE DEF q, t3
<1>11. /\ StepKept(t3) /\ Follows(Tables, t3) /\ t3.att[a] = q /\ Written(t3) = Written(Tables)
       /\ \A b \in Attempt \ {a} : t3.att[b] = t1.att[b]
  BY <1>5, <1>9, <1>10, FollowsOn DEF PutsOnly, Follows
<1>12. CASE ~ ResumesOn(r, word)
  <2>1. /\ att' = t3.att /\ run' = t3.run /\ envelope' = t3.envelope /\ approved' = approved
    BY <1>4, <1>12 DEF Commit
  <2> QED BY <1>11, <2>1, LandOnward
<1>13. CASE ResumesOn(r, word)
  <2>1. word \in {"nothing_happened", "happened_differently"} /\ ~ r.absent
    BY <1>13 DEF ResumesOn, Words
  <2>2. t1 = Tables /\ Past(q)
    BY <1>5, <1>9, <2>1
  <2>3. a \in Written(Tables) /\ ~ Past(Tables.att[a])
    BY <1>1, <1>2, <2>1 DEF Written, Past
  <2>4. \A b \in Written(Tables) \ {a} : Past(Tables.att[b])
    BY <1>1, <2>3, OthersArePast
  <2>5. \A b \in Written(t3) : Past(t3.att[b])
    BY <1>11, <2>2, <2>4 DEF Written
  <2>6. t3.att[a].state # "none"
    BY <1>11, <2>3 DEF Written
  <2>7. Follows(t3, resumed)
    BY <1>11, <2>5, <2>6, ResumedFollows
  <2>8. /\ att' = resumed.att /\ run' = resumed.run
        /\ envelope' = resumed.envelope /\ approved' = approved
    BY <1>4, <1>13 DEF Commit
  <2> HIDE DEF resumed
  <2>9. Follows(Tables, resumed)
    BY <1>11, <2>7, FollowsOn
  <2> QED BY <2>8, <2>9, LandOnward
<1> QED BY <1>12, <1>13

\* A replacement stopped, as what it makes of its row.
StoppedRow(r) == ReleasedRow(IF LeaseLive(r) THEN RetiredRow(r) ELSE r)

\* Stopping a replacement rewrites its row and gives its hold back by amount.
LEMMA StoppedIsWithRow ==
    ASSUME NEW t \in TablesType, NEW b \in Attempt, RowKept(t.att[b]),
           t.att[b].hold = "held", ~ CallOpen(t.att[b])
    PROVE  ReplacementStopped(t, b) = WithRow(t, b, StoppedRow(t.att[b]), t.run)
<1> DEFINE r == t.att[b]
           g == IF LeaseLive(r) THEN RetiredRow(r) ELSE r
           x == LeaseRetired(t, b)
           s == ReleasedRow(g)
<1>1. /\ r \in Row /\ t.att \in [Attempt -> Row] /\ t.run \in RunStates
      /\ t.envelope \in [held : Nat, actual : Nat]
      /\ t = [att |-> t.att, run |-> t.run, envelope |-> t.envelope]
      /\ r.state # "none" /\ r.actual = 0
  BY DEF TablesType, RowKept, RowOpen
<1>2. g \in Row /\ SameMoney(r, g)
  <2>1. LeaseLive(r) => RetiredRow(r) \in Row /\ SameEnd(r, RetiredRow(r))
    BY <1>1, RetiredRowStays
  <2> QED BY <1>1, <2>1 DEF SameMoney, SameEnd
<1>3. x = PutRow(t, b, g, t.run)
  <2>1. CASE ~ LeaseLive(r)
    BY <2>1, RowAlone DEF LeaseRetired
  <2>2. CASE LeaseLive(r)
    <3> DEFINE q == UnseatedRow(r)
               p == RetiredRow(r)
    <3>1. Unseated(t, b) = PutRow(t, b, q, t.run)
      BY <1>1 DEF Unseated, UnseatedRow, PutRow
    <3>2. Retired(t, b) = [PutRow(t, b, q, t.run) EXCEPT !.att[b].lease = "released"]
      BY <3>1 DEF Retired
    <3>3. p = [q EXCEPT !.lease = "released"]
      BY DEF RetiredRow
    <3>4. x = Retired(t, b) /\ g = p
      BY <2>2 DEF LeaseRetired
    <3> HIDE DEF q, p, x, g
    <3>5. Retired(t, b) = PutRow(t, b, p, t.run)
      BY <1>1, <3>2, <3>3 DEF PutRow
    <3> QED BY <3>4, <3>5
  <2> QED BY <2>1, <2>2
<1> HIDE DEF g, x
<1>4. /\ x \in TablesType /\ x.att[b] = g /\ x.run = t.run
      /\ g.hold = "held" /\ g.actual = 0
  BY <1>1, <1>2, <1>3 DEF TablesType, PutRow, SameMoney
<1>5. Released(x, b) = WithRow(x, b, s, x.run)
  BY <1>4, ReleasedIsWithRow
<1> HIDE DEF s
<1>6. WithRow(x, b, s, x.run) = WithRow(t, b, s, t.run)
  <2>1. HeldOf(x.att[b]) = HeldOf(r) /\ x.att[b].actual = r.actual /\ x.envelope = t.envelope
    BY <1>2, <1>3, <1>4 DEF HeldOf, SameMoney, PutRow
  <2>2. [x.att EXCEPT ![b] = s] = [t.att EXCEPT ![b] = s]
    BY <1>1, <1>3 DEF PutRow
  <2> QED BY <1>4, <2>1, <2>2 DEF WithRow
<1>7. ReplacementStopped(t, b) = Released(x, b)
  BY DEF ReplacementStopped, x
<1> QED BY <1>5, <1>6, <1>7 DEF StoppedRow, s, g

\* It does not matter to it what another row holds.
LEMMA StoppedBeside ==
    ASSUME NEW w \in TablesType, NEW a \in Attempt, NEW n \in Attempt, a # n,
           RowKept(w.att[n]), w.att[n].hold = "held", NEW c \in Row
    PROVE  ReplacementStopped(PutRow(w, a, c, w.run), n)
           = PutRow(ReplacementStopped(w, n), a, c, w.run)
<1> DEFINE p == PutRow(w, a, c, w.run)
           s == StoppedRow(w.att[n])
<1>1. /\ p \in TablesType /\ p.att[n] = w.att[n] /\ p.run = w.run /\ p.envelope = w.envelope
      /\ p.att = [w.att EXCEPT ![a] = c] /\ w.att \in [Attempt -> Row]
  BY DEF TablesType, PutRow
<1> HIDE DEF p, s
<1>2. CASE CallOpen(w.att[n])
  BY <1>1, <1>2 DEF ReplacementStopped, p
<1>3. CASE ~ CallOpen(w.att[n])
  <2>1. ReplacementStopped(w, n) = WithRow(w, n, s, w.run)
    BY <1>3, StoppedIsWithRow DEF s
  <2>2. ReplacementStopped(p, n) = WithRow(p, n, s, w.run)
    BY <1>1, <1>3, StoppedIsWithRow DEF s
  <2>3. [p.att EXCEPT ![n] = s] = [[w.att EXCEPT ![n] = s] EXCEPT ![a] = c]
    BY <1>1
  <2>4. WithRow(p, n, s, w.run) = PutRow(WithRow(w, n, s, w.run), a, c, w.run)
    BY <1>1, <2>3 DEF WithRow, PutRow
  <2> QED BY <2>1, <2>2, <2>4 DEF p
<1> QED BY <1>2, <1>3

\* What a write-off closes with is the row's own, whatever it stops beside it.
LEMMA ResolvedBeside ==
    ASSUME NEW y, StepKept(y), NEW a \in Attempt, NEW c \in Row, NEW word \in Words,
           y.att[a] = ResolvedRow(c, word), SameMoney(c, y.att[a]),
           NEW A \in SUBSET (Attempt \ {a}),
           \A b \in A : y.att[b].hold = "held" /\ ~ y.att[b].marked
    PROVE  CallResolved(InTurn(ReplacementStopped, PutRow(y, a, c, y.run), A), a, word)
           = InTurn(ReplacementStopped, y, A)
<1> DEFINE n == Newest(y)
           q == ResolvedRow(c, word)
           t1 == PutRow(y, a, c, y.run)
           z == InTurn(ReplacementStopped, t1, A)
           u == InTurn(ReplacementStopped, y, A)
<1>1. A \in SUBSET {n}
  <2> SUFFICES ASSUME NEW b \in A PROVE b = n
    OBVIOUS
  <2>1. b \in Attempt /\ y.att[b].hold = "held" /\ ~ y.att[b].marked
    OBVIOUS
  <2> QED BY <2>1, UnmarkedIsNewest
<1> HIDE DEF n, t1
<1>2. /\ z = IF A = {} THEN t1 ELSE ReplacementStopped(t1, n)
      /\ u = IF A = {} THEN y ELSE ReplacementStopped(y, n)
  BY <1>1, ReplacementsInTurn
<1> HIDE DEF z, u
<1>3. ASSUME NEW x \in TablesType, x.att[a] = q, x.run = y.run
      PROVE  CallResolved(PutRow(x, a, c, y.run), a, word) = x
  <2> DEFINE w == PutRow(x, a, c, y.run)
  <2>1. /\ w.att \in [Attempt -> Row] /\ w.att[a] = c /\ w.run = y.run
        /\ w = [att |-> w.att, run |-> w.run, envelope |-> w.envelope]
    BY DEF TablesType, PutRow
  <2> HIDE DEF w
  <2>2. CallResolved(w, a, word) = PutRow(w, a, q, y.run)
    BY <2>1, CallResolvedPuts
  <2> HIDE DEF q
  <2>3. PutRow(w, a, q, y.run) = PutRow(x, a, q, y.run)
    BY RowAlone DEF w
  <2>4. PutRow(x, a, q, y.run) = x
    BY <1>3, RowAlone
  <2> QED BY <2>2, <2>3, <2>4 DEF w
<1>4. y \in TablesType
  BY DEF StepKept
<1> HIDE DEF q
<1>5. CASE A = {}
  <2>1. CallResolved(t1, a, word) = y
    BY <1>3, <1>4 DEF t1, q
  <2> QED BY <1>2, <1>5, <2>1 DEF z, u, t1
<1>6. CASE A # {}
  <2> DEFINE x == ReplacementStopped(y, n)
  <2>1. n \in A /\ n \in Attempt /\ a # n /\ y.att[n].hold = "held" /\ ~ y.att[n].marked
    BY <1>1, <1>6
  <2>2. RowKept(y.att[n])
    BY <2>1, RowsOfKept
  <2>3. ReplacementStopped(t1, n) = PutRow(x, a, c, y.run)
    BY <1>4, <2>1, <2>2, StoppedBeside DEF t1
  <2>4. Touches(y, x, n)
    BY <2>1, ReplacementStoppedTouches
  <2> HIDE DEF x
  <2>5. x \in TablesType /\ x.att[a] = q /\ x.run = y.run
    BY <2>1, <2>4 DEF Touches, Follows, StepKept, q
  <2>6. CallResolved(PutRow(x, a, c, y.run), a, word) = x
    BY <1>3, <2>5
  <2>7. z = PutRow(x, a, c, y.run) /\ u = x
    BY <1>2, <1>6, <2>3 DEF x
  <2> QED BY <2>6, <2>7 DEF z, u, t1
<1> QED BY <1>5, <1>6

\* A write-off charges the larger of the figure and what the calls cost, a number.
LEMMA LargerOfTwo ==
    ASSUME NEW m \in Nat, NEW n \in Nat
    PROVE  Max({m, n}) \in Nat
<1>1. \E x \in {m, n} : \A y \in {m, n} : x >= y
  <2>1. CASE m >= n
    BY <2>1
  <2>2. CASE n >= m
    BY <2>2
  <2> QED BY <2>1, <2>2
<1>2. Max({m, n}) \in {m, n}
  BY <1>1 DEF Max
<1> QED BY <1>2

\* A write-off closes the hold at its figure, and stops the replacements (write-off.ts).
LEMMA WriteOffOnward ==
    ASSUME StepInv, NEW a \in Attempt, NEW figure \in Figures, WriteOff(a, figure)
    PROVE  Onward
<1> DEFINE r == att[a]
           charge == Max({figure, CallsSpent(r)})
           records == (figure = 0 /\ r.marked)
           k == ClosedRow(r, "written_off", charge, records)
           state == IF figure > 0 THEN "settled" ELSE "abandoned"
           outcome == IF figure = 0 /\ r.marked THEN "abandoned" ELSE "unknown"
           c == [k EXCEPT !.state = state, !.outcome = outcome]
           q == ResolvedRow(c, "written_off")
           closed == Closed(Tables, a, "written_off", charge, records)
           t1 == [closed EXCEPT !.att[a].state = state, !.att[a].outcome = outcome]
           others == {b \in Held(Tables) \ {a} : ~ att[b].marked}
           y == WithRow(Tables, a, q, run)
           u == InTurn(ReplacementStopped, y, others)
           z == CallResolved(InTurn(ReplacementStopped, t1, others), a, "written_off")
<1>1. /\ StepKept(Tables) /\ Tables.att = att /\ Tables.att[a] = r /\ Tables.run = run
      /\ r \in Row /\ RowKept(r) /\ Tables \in TablesType /\ att \in [Attempt -> Row]
  BY RowNow, RowsOfKept
<1>2. r.state = "liability_unknown" /\ r.hold = "held" /\ r.actual = 0
  BY <1>1 DEF WriteOff, Unknown, RowKept, RowOpen
<1>3. charge \in Nat /\ records \in BOOLEAN
  <2>1. figure \in Nat /\ CallsSpent(r) \in Nat
    BY SomeMoney, CallsSpentNat
  <2>2. charge \in Nat
    BY <2>1, LargerOfTwo
  <2> QED BY <2>2
<1>4. /\ state \in {"settled", "abandoned"} /\ outcome \in {"abandoned", "unknown"}
  OBVIOUS
<1>5. Commit(z)
  BY DEF WriteOff
<1> HIDE DEF charge, records, state, outcome
<1>6. closed = WithRow(Tables, a, k, run)
  <2>1. "written_off" \in Causes
    BY DEF Causes
  <2> QED BY <1>1, <1>2, <1>3, <2>1, ClosedIsWithRow
<1>7. /\ k \in Row /\ k.hold \in {"actual", "abandoned"} /\ SameWork(r, k)
  <2>1. "written_off" \in Causes
    BY DEF Causes
  <2>2. \A cause \in Causes, x \in Nat, yes \in BOOLEAN :
            LET s == ClosedRow(r, cause, x, yes) IN
            s \in Row /\ s.hold \in {"actual", "abandoned"} /\ SameWork(r, s)
    BY <1>1, ClosedRowIs
  <2> QED BY <1>3, <2>1, <2>2
<1> HIDE DEF k, closed
<1>8. /\ c \in Row /\ c.state = state /\ c.hold = k.hold /\ c.actual = k.actual /\ SameWork(k, c)
  <2> DEFINE Ends(x, out) ==
                 LET s == [k EXCEPT !.state = x, !.outcome = out] IN
                 /\ s \in Row
                 /\ s.state = x /\ s.outcome = out /\ s.hold = k.hold
                 /\ s.actual = k.actual /\ SameWork(k, s)
  <2>1. \A x \in {"settled", "abandoned", "dropped", "handed_back"},
           out \in {"completed", "failed", "abandoned", "unknown"} : Ends(x, out)
    BY <1>7, EndedRowIs
  <2> HIDE DEF Ends
  <2>2. Ends(state, outcome)
    BY <1>4, <2>1
  <2> QED BY <2>2, Zenon DEF Ends
<1>9. t1 = PutRow(closed, a, c, run)
  <2>1. /\ closed.att \in [Attempt -> Row] /\ closed.att[a] = k /\ closed.run = run
        /\ closed = [att |-> closed.att, run |-> closed.run, envelope |-> closed.envelope]
    BY <1>1, <1>6, <1>7 DEF WithRow
  <2>2. \A x, out :
            [closed EXCEPT !.att[a].state = x, !.att[a].outcome = out]
            = PutRow(closed, a, [closed.att[a] EXCEPT !.state = x, !.outcome = out], closed.run)
    BY <2>1, EndedPut
  <2>3. [closed EXCEPT !.att[a].state = state, !.att[a].outcome = outcome]
        = PutRow(closed, a, [closed.att[a] EXCEPT !.state = state, !.outcome = outcome], closed.run)
    BY <2>2, Zenon
  <2> QED BY <2>1, <2>3
<1> HIDE DEF c, t1
<1>10. SameMoney(k, c) /\ SameWork(r, c) /\ c.hold \in {"actual", "abandoned"}
       /\ c.state \in {"settled", "abandoned"}
  BY <1>4, <1>7, <1>8 DEF SameMoney, SameWork
<1>11. t1 = WithRow(Tables, a, c, run)
  BY <1>1, <1>6, <1>7, <1>8, <1>9, <1>10, RowAlone
<1>12. q \in Row /\ SameMoney(c, q) /\ PutsOnly(Tables, y, a, q, run)
  <2>1. "written_off" \in Words /\ "written_off" # "happened"
    BY DEF Words
  <2> QED BY <1>1, <1>2, <1>8, <1>10, <2>1, ResolvedFollows
<1>13. t1 = PutRow(y, a, c, run)
  <2>1. SameMoney(q, c)
    BY <1>12 DEF SameMoney
  <2> HIDE DEF q
  <2> QED BY <1>1, <1>8, <1>11, <1>12, <2>1, RowAlone
<1> HIDE DEF y
<1>14. /\ StepKept(y) /\ Follows(Tables, y) /\ y.att[a] = q /\ y.run = run
       /\ \A b \in Attempt \ {a} : y.att[b] = att[b]
  BY <1>1, <1>12 DEF PutsOnly, Follows
<1>15. /\ others \in SUBSET (Attempt \ {a})
       /\ \A b \in others : y.att[b].hold = "held" /\ ~ y.att[b].marked
  BY <1>1, <1>14 DEF Held
<1> HIDE DEF others
<1>16. z = u
  <2>1. "written_off" \in Words
    BY DEF Words
  <2>2. y.att[a] = ResolvedRow(c, "written_off") /\ SameMoney(c, y.att[a])
    BY <1>12, <1>14
  <2>3. CallResolved(InTurn(ReplacementStopped, PutRow(y, a, c, y.run), others), a, "written_off") = u
    BY <1>8, <1>14, <1>15, <2>1, <2>2, ResolvedBeside
  <2> QED BY <1>13, <1>14, <2>3
<1>17. Follows(y, u)
  <2>1. others \in SUBSET Attempt
    BY <1>15
  <2> QED BY <1>14, <1>15, <2>1, ReplacementsFollow
<1> HIDE DEF u, z
<1>18. Follows(Tables, u)
  BY <1>14, <1>17, FollowsOn
<1>19. /\ att' = u.att /\ run' = u.run /\ envelope' = u.envelope /\ approved' = approved
  BY <1>5, <1>16 DEF Commit
<1> QED BY <1>18, <1>19, LandOnward

(***************************************************************************)
(* The claims.                                                             *)
(***************************************************************************)
Climbs(t, u) == \A b \in Attempt : Steps(t.att[b], u.att[b])

\* What no transaction takes back, read across a claim.
LEMMA ClimbsOn ==
    ASSUME NEW t, NEW u, NEW w, Climbs(t, u), Climbs(u, w)
    PROVE  Climbs(t, w)
<1> SUFFICES ASSUME NEW a \in Attempt
             PROVE  Steps(t.att[a], w.att[a])
  BY DEF Climbs
<1>1. Steps(t.att[a], u.att[a]) /\ Steps(u.att[a], w.att[a])
  BY DEF Climbs
<1> QED BY <1>1 DEF Steps

\* Tables that follow take nothing back.
LEMMA FollowsClimbs ==
    ASSUME NEW t, NEW u, Follows(t, u)
    PROVE  Climbs(t, u)
  BY DEF Follows, Moving, Goes, Climbs

TakenRow(r, worker) == [r EXCEPT !.state = "dispatched", !.lease = "live", !.worker = worker]

\* A claim of a hold nobody has claimed or marked.
LEMMA LeaseTakenClimbs ==
    ASSUME NEW t, StepKept(t), NEW a \in Attempt, NEW agent \in BOOLEAN,
           t.att[a].hold = "held", t.att[a].lease = "none", ~ t.att[a].marked
    PROVE  StepKept(LeaseTaken(t, a, agent)) /\ Climbs(t, LeaseTaken(t, a, agent))
<1> DEFINE w == Fenced(t)
           r == t.att[a]
           worker == IF agent THEN "agent" ELSE "person"
           s == TakenRow(r, worker)
           u == LeaseTaken(t, a, agent)
<1>1. /\ Follows(t, w) /\ StepKept(w) /\ w.att[a] = r
  BY FencedFollows DEF Follows
<1>2. worker \in {"agent", "person"}
  OBVIOUS
<1>3. u = [w EXCEPT !.att[a].state = "dispatched", !.att[a].lease = "live",
                    !.att[a].worker = worker, !.run = "claimed"]
  BY DEF LeaseTaken
<1>4. s = [r EXCEPT !.state = "dispatched", !.lease = "live", !.worker = worker]
  BY DEF TakenRow
<1> HIDE DEF w, worker, s, u
<1>5. /\ r \in Row /\ RowKept(r) /\ w.att \in [Attempt -> Row]
      /\ w = [att |-> w.att, run |-> w.run, envelope |-> w.envelope]
  BY <1>1, RowsOfKept
<1>6. u = PutRow(w, a, s, "claimed")
  <2> DEFINE f == [w.att EXCEPT ![a].state = "dispatched", ![a].lease = "live",
                                ![a].worker = worker]
  <2>1. u = [att |-> u.att, run |-> u.run, envelope |-> u.envelope]
    BY <1>3, <1>5
  <2>2. u.run = "claimed" /\ u.envelope = w.envelope
    BY <1>3, <1>5
  <2>3. u.att = f
    BY <1>3, <1>5
  <2>4. f = [w.att EXCEPT ![a] = s]
    BY <1>1, <1>4, <1>5
  <2> HIDE DEF f
  <2> QED BY <2>1, <2>2, <2>3, <2>4 DEF PutRow
<1>7. s \in Row
  <2> DEFINE q == [r EXCEPT !.state = "dispatched"]
             p == [q EXCEPT !.lease = "live"]
  <2>1. q \in Row
    BY <1>5 DEF Row
  <2>2. s = [p EXCEPT !.worker = worker]
    BY <1>4
  <2> HIDE DEF q
  <2>3. p \in Row
    BY <2>1 DEF Row
  <2> HIDE DEF p
  <2> QED BY <1>2, <2>2, <2>3 DEF Row
<1>8. /\ s.state = "dispatched" /\ s.lease = "live" /\ s.outcome = r.outcome /\ s.hold = "held"
      /\ s.amount = r.amount /\ s.actual = r.actual /\ s.marked = r.marked
      /\ s.observed = r.observed /\ s.absent = r.absent /\ s.note = r.note
      /\ s.call = r.call /\ s.lost = r.lost /\ s.word = r.word
  BY <1>4, <1>5 DEF Row
<1>9. /\ r.state # "none" /\ r.amount > 0 /\ r.actual = 0 /\ r.outcome = "none"
      /\ r.word = "none" /\ ~ r.absent /\ ~ r.observed /\ r.note # "written"
      /\ r.state # "settled"
  BY <1>5 DEF RowKept, RowOpen, RowMarked
<1>10. RowKept(s)
  <2>1. RowOpen(s)
    BY <1>8, <1>9 DEF RowOpen
  <2>2. RowMarked(s)
    BY <1>5, <1>8, <1>9 DEF RowKept, RowMarked
  <2> QED BY <1>8, <1>9, <2>1, <2>2 DEF RowKept, RowLeased, RowAnswered
<1>11. Stays(r, s) /\ SameMoney(r, s) /\ Steps(r, s)
  BY <1>7, <1>8, <1>9, <1>10 DEF Stays, SameMoney, Steps, Past
<1>12. "claimed" \in RunStates
  BY DEF RunStates
<1>13. /\ StepKept(u)
       /\ \A b \in Attempt : u.att[b] = IF b = a THEN s ELSE w.att[b]
  <2>1. \A q \in Row, now \in RunStates : Stays(r, q) /\ SameMoney(r, q) =>
            /\ StepKept(PutRow(w, a, q, now))
            /\ \A b \in Attempt : PutRow(w, a, q, now).att[b] = IF b = a THEN q ELSE w.att[b]
    BY <1>1, <1>9, PuttingKeeps
  <2> QED BY <1>6, <1>7, <1>11, <1>12, <2>1
<1>14. Climbs(w, u)
  BY <1>1, <1>11, <1>13 DEF Climbs, Steps
<1>15. Climbs(t, u)
  BY <1>1, <1>14, FollowsClimbs, ClimbsOn
<1> QED BY <1>13, <1>15 DEF u

\* Claims are made of an approved step.
LEMMA LandTaken ==
    ASSUME StepInv, approved, NEW u, StepKept(u), Climbs(Tables, u),
           att' = u.att, run' = u.run, envelope' = u.envelope, approved' = approved
    PROVE  StepInv' /\ \A b \in Attempt : Steps(att[b], att'[b])
<1>1. u = [att |-> u.att, run |-> u.run, envelope |-> u.envelope]
  BY DEF StepKept, TablesType
<1>2. Tables' = u
  BY <1>1 DEF Tables
<1>3. \A b \in Attempt : Steps(att[b], att'[b])
  BY DEF Climbs, Tables
<1> QED BY <1>2, <1>3 DEF StepInv, LivesApproved

\* A pickup of a hold nobody claimed takes it, once every lapsed lease is fenced (pickup.ts).
LEMMA PickUpKeeps ==
    ASSUME StepInv, NEW a \in Attempt, NEW agent \in BOOLEAN, PickUp(a, agent)
    PROVE  StepInv' /\ \A b \in Attempt : Steps(att[b], att'[b])
<1> DEFINE u == LeaseTaken(Tables, a, agent)
<1>1. /\ StepKept(Tables) /\ Tables.att[a] = att[a] /\ approved
      /\ att[a].hold = "held" /\ att[a].lease = "none" /\ ~ att[a].marked
  BY RowNow DEF PickUp, Claimable, Marked
<1>2. /\ att' = u.att /\ run' = u.run /\ envelope' = u.envelope /\ approved' = approved
  BY DEF PickUp, Commit
<1>3. StepKept(u) /\ Climbs(Tables, u)
  BY <1>1, LeaseTakenClimbs
<1> HIDE DEF u
<1> QED BY <1>1, <1>2, <1>3, LandTaken

\* What a claim that replaces an attempt leaves of it: every attempt is past.
LEMMA LetGoFollows ==
    ASSUME StepInv, NEW a \in Attempt, att[a].state # "none", Claimable(a), Replaceable(a),
           LetGo(Tables, a).att[a].hold # "held"
    PROVE  LET t1 == LetGo(Tables, a) IN
           Follows(Tables, t1) /\ \A b \in Written(t1) : Past(t1.att[b])
<1> DEFINE r == att[a]
           t1 == LetGo(Tables, a)
<1>1. /\ StepKept(Tables) /\ Tables.att = att /\ Tables.att[a] = r
      /\ Tables.run = run /\ r \in Row /\ RowKept(r) /\ ~ Marked(r)
  BY RowNow DEF Claimable
<1>2. ~ r.absent /\ r.note # "written"
  BY <1>1 DEF Marked, RowKept, RowMarked
<1>3. CASE r.hold # "held"
  <2>1. t1 = Tables
    BY <1>1, <1>3 DEF LetGo
  <2>2. a = Newest(Tables)
    BY <1>3 DEF Replaceable, Newest
  <2>3. Past(r)
    BY <1>1, <1>2, <1>3 DEF Past, RowKept, RowOpen
  <2>4. \A b \in Written(Tables) : Past(Tables.att[b])
    BY <1>1, <2>2, <2>3 DEF StepKept
  <2> QED BY <1>1, <2>1, <2>4, FollowsItself
<1>4. CASE r.hold = "held"
  <2> DEFINE end == IF LeaseLive(r) THEN "expired" ELSE r.lease
             s == [r EXCEPT !.lease = end]
             x == [Tables EXCEPT !.att[a].lease = end]
             classified == Classified(x, a)
  <2>1. end \in {"expired", "released"} /\ r.lease # "none"
    BY <1>4 DEF Replaceable, LeaseLive
  <2>2. t1 = classified
    BY <1>1, <1>4 DEF LetGo
  <2> HIDE DEF end
  <2>3. PutsOnly(Tables, x, a, s, run) /\ s \in Row /\ SameEnd(r, s) /\ s.lease = end
    BY <1>1, <2>1, LeaseEnds
  <2> HIDE DEF x, s
  <2>4. /\ StepKept(x) /\ Follows(Tables, x) /\ x.att[a] = s /\ ~ LeaseLive(s)
        /\ s.state = r.state /\ s.hold = "held" /\ s.state # "none"
    BY <1>4, <2>1, <2>3 DEF PutsOnly, Follows, LeaseLive, SameEnd
  <2>5. Touches(x, classified, a) /\ classified.att[a] = ClassifiedRow(s)
    BY <2>4, ClassifiedTouches
  <2> HIDE DEF classified
  <2>6. Follows(Tables, classified)
    BY <2>4, <2>5, FollowsOn DEF Touches
  <2>7. a \in Written(x) /\ ~ Past(s)
    BY <1>2, <2>3, <2>4 DEF Written, Past, SameEnd
  <2>8. \A b \in Written(x) \ {a} : Past(x.att[b])
    BY <2>4, <2>7, OthersArePast
  <2>9. Past(classified.att[a])
    <3>1. RowKept(s)
      BY <2>4, RowsOfKept
    <3>2. ClassifiedRow(s).hold # "held" => Past(ClassifiedRow(s))
      BY <2>3, <2>4, <3>1, ClassifiedRowStays
    <3> QED BY <2>2, <2>5, <3>2
  <2>10. \A b \in Written(classified) : Past(classified.att[b])
    BY <2>5, <2>8, <2>9 DEF Touches, Written
  <2> QED BY <2>2, <2>6, <2>10
<1> QED BY <1>3, <1>4

\* A replacement reserves the smaller of what the old hold left and the version's room.
LEMMA SmallerOfTwo ==
    ASSUME NEW m \in Int, NEW n \in Int
    PROVE  Min({m, n}) \in Int /\ Min({m, n}) <= m
<1>1. \E x \in {m, n} : \A y \in {m, n} : x <= y
  <2>1. CASE m <= n
    BY <2>1
  <2>2. CASE n <= m
    BY <2>2
  <2> QED BY <2>1, <2>2
<1>2. Min({m, n}) \in {m, n} /\ \A y \in {m, n} : Min({m, n}) <= y
  BY <1>1 DEF Min
<1> QED BY <1>2

\* A replacing pickup lets the old attempt go and reserves the next one, or stops at the budget.
LEMMA PickUpReplacingKeeps ==
    ASSUME StepInv, NEW a \in Attempt, NEW agent \in BOOLEAN, NEW room \in BOOLEAN,
           PickUpReplacing(a, agent, room)
    PROVE  StepInv' /\ \A b \in Attempt : Steps(att[b], att'[b])
<1> DEFINE t1 == LetGo(Tables, a)
           amount == Min({Left(t1, a), VersionRoom(t1)})
           asked == AtBudget(t1)
           n == NextNumber(t1)
           w == Reserved(t1, amount)
           u == LeaseTaken(w, n, agent)
<1>1. /\ Follows(Tables, t1) /\ \A b \in Written(t1) : Past(t1.att[b])
  BY LetGoFollows DEF PickUpReplacing
<1>2. approved
  BY DEF PickUpReplacing, Claimable
<1>3. \/ Commit(asked)
      \/ amount > 0 /\ Numbered(t1) /\ Commit(u)
  BY DEF PickUpReplacing
<1> HIDE DEF t1
<1>4. StepKept(t1)
  BY <1>1 DEF Follows
<1>5. amount \in Int /\ amount <= Left(t1, a) /\ Left(t1, a) \in Int /\ Left(t1, a) <= Amount
  <2>1. Left(t1, a) \in Int /\ Left(t1, a) <= Amount
    BY <1>4, LeftWithin
  <2>2. VersionRoom(t1) \in Int
    <3> DEFINE f == [b \in Attempt |-> IF t1.att[b].hold = "held" THEN t1.att[b].amount
                                       ELSE t1.att[b].actual]
    <3>1. \A b \in Attempt : t1.att[b] \in Row
      BY <1>4, RowsOfKept
    <3>2. \A b \in Attempt : f[b] \in Int
      BY <3>1 DEF Row
    <3>3. VersionRoom(t1) = Amount - SumFunctionOnSet(f, Attempt)
      BY DEF VersionRoom
    <3> HIDE DEF f
    <3>4. SumFunctionOnSet(f, Attempt) \in Int
      BY <3>2, AttemptsAreFinite, SumType
    <3> QED BY <3>3, <3>4, SomeMoney
  <2> QED BY <2>1, <2>2, SmallerOfTwo
<1> HIDE DEF amount
<1>6. CASE Commit(asked)
  <2>1. /\ att' = asked.att /\ run' = asked.run
        /\ envelope' = asked.envelope /\ approved' = approved
    BY <1>6 DEF Commit
  <2>2. Follows(t1, asked)
    BY <1>4, AtBudgetFollows
  <2> HIDE DEF asked
  <2>3. StepKept(asked) /\ Climbs(Tables, asked)
    BY <1>1, <2>2, FollowsOn, FollowsClimbs DEF Follows
  <2> QED BY <1>2, <2>1, <2>3, LandTaken
<1>7. CASE amount > 0 /\ Numbered(t1) /\ Commit(u)
  <2>1. amount \in 1 .. Amount
    BY <1>5, <1>7, SomeMoney
  <2>2. /\ StepKept(w) /\ Moving(t1, w) /\ w.att[n] = Fresh(amount)
    BY <1>1, <1>4, <1>7, <2>1, ReservedKeeps
  <2>3. n \in Attempt
    BY <1>7 DEF Numbered
  <2>4. Fresh(amount).hold = "held" /\ Fresh(amount).lease = "none" /\ ~ Fresh(amount).marked
    BY <2>1, FreshRow
  <2>5. /\ att' = u.att /\ run' = u.run /\ envelope' = u.envelope /\ approved' = approved
    BY <1>7 DEF Commit
  <2> HIDE DEF w, n
  <2>6. StepKept(u) /\ Climbs(w, u)
    BY <2>2, <2>3, <2>4, LeaseTakenClimbs
  <2> HIDE DEF u
  <2>7. Climbs(Tables, u)
    BY <1>1, <2>2, <2>6, FollowsOn, FollowsClimbs, ClimbsOn DEF Follows
  <2> QED BY <1>2, <2>5, <2>6, <2>7, LandTaken
<1> QED BY <1>3, <1>6, <1>7

(***************************************************************************)
(* The invariant and the properties.                                       *)
(***************************************************************************)
LEMMA InitKeepsStep == Init => StepInv
<1> SUFFICES ASSUME Init PROVE StepInv
  OBVIOUS
<1>1. /\ att = [a \in Attempt |-> IF a = 1 THEN Fresh(Amount) ELSE Unwritten]
      /\ run = "planned" /\ approved = TRUE /\ envelope = [held |-> Amount, actual |-> 0]
  BY DEF Init
<1>2. Tables.att = att /\ Tables.run = run /\ Tables.envelope = envelope
  BY DEF Tables
<1>3. 1 \in Attempt /\ Amount \in 1 .. Amount /\ Amount \in Nat
  BY SomeAttempts, SomeMoney DEF Attempt
<1>4. /\ Fresh(Amount) \in Row /\ RowKept(Fresh(Amount)) /\ Fresh(Amount).hold = "held"
      /\ Fresh(Amount).state = "reserved" /\ Fresh(Amount).amount = Amount
      /\ Fresh(Amount).actual = 0 /\ Fresh(Amount).lease = "none"
  BY <1>3, FreshRow
<1>5. Unwritten \in Row
  BY SomeMoney DEF Unwritten, Row
<1>6. RowKept(Unwritten)
  BY DEF Unwritten, RowKept, RowOpen, RowLeased, RowMarked, RowAnswered, LeaseLive
<1>7. /\ Unwritten.state = "none" /\ Unwritten.hold = "none" /\ Unwritten.amount = 0
      /\ Unwritten.actual = 0
  BY DEF Unwritten
<1>8. att[1] = Fresh(Amount) /\ \A a \in Attempt : a # 1 => att[a] = Unwritten
  BY <1>1, <1>3
<1>9. att \in [Attempt -> Row] /\ \A a \in Attempt : RowKept(att[a])
  BY <1>1, <1>4, <1>5, <1>6
<1>10. Tables \in TablesType
  <2>1. envelope \in [held : Nat, actual : Nat] /\ run \in RunStates
    BY <1>1, <1>3 DEF RunStates
  <2> QED BY <1>9, <2>1 DEF Tables, TablesType
<1>11. Written(Tables) = {1} /\ Held(Tables) = {1}
  BY <1>2, <1>3, <1>4, <1>7, <1>8 DEF Written, Held
<1>12. Newest(Tables) = 1
  BY <1>11, FS_Singleton DEF Newest
<1>13. InOrder(Tables)
  BY <1>3, <1>11, <1>12 DEF InOrder
<1> DEFINE am == [a \in Attempt |-> Tables.att[a].amount]
           cm == [a \in Attempt |-> Tables.att[a].actual]
<1>14. SumFunctionOnSet(am, {1}) = Amount
  <2>1. am[1] = Amount
    BY <1>2, <1>3, <1>4, <1>8
  <2> HIDE DEF am
  <2>2. IsFiniteSet({}) /\ 1 \notin {} /\ \A y \in {} \cup {1} : am[y] \in Int
    BY <1>3, <2>1, FS_EmptySet
  <2>3. SumFunctionOnSet(am, {} \cup {1}) = SumFunctionOnSet(am, {}) + am[1]
    BY <2>2, SumWith
  <2>4. {} \cup {1} = {1}
    OBVIOUS
  <2> QED BY <1>3, <2>1, <2>3, <2>4, SumOfNothing
<1>15. SumFunctionOnSet(cm, Attempt) = 0
  <2>1. \A a \in Attempt : cm[a] = 0
    BY <1>2, <1>4, <1>7, <1>8
  <2> HIDE DEF cm
  <2> QED BY <2>1, AttemptsAreFinite, SumOfZeroes
<1>16. Balanced(Tables)
  BY <1>1, <1>2, <1>11, <1>14, <1>15 DEF Balanced
<1>17. \A a \in Written(Tables) : a # Newest(Tables) => Past(Tables.att[a])
  BY <1>11, <1>12
<1>18. StepKept(Tables)
  BY <1>2, <1>9, <1>10, <1>13, <1>16, <1>17 DEF StepKept
<1> QED BY <1>1, <1>18 DEF StepInv, LivesApproved

\* What every action keeps.
StepsKeep == StepInv' /\ AnswersKept /\ MarksKept

\* A step that keeps the invariant and what no transaction takes back keeps the answers too.
LEMMA StepsSuffice ==
    ASSUME StepInv', \A b \in Attempt : Steps(att[b], att'[b])
    PROVE  StepsKeep
<1>1. AnswersKept
  BY DEF Steps, AnswersKept, Answers
<1>2. MarksKept
  BY DEF Steps, MarksKept
<1> QED BY <1>1, <1>2 DEF StepsKeep

\* What follows is such a step.
LEMMA OnwardSuffices == ASSUME Onward PROVE StepsKeep
<1>1. Moving(Tables, Tables') /\ Tables.att = att /\ Tables'.att = att'
  BY DEF Onward, Tables
<1>2. \A b \in Attempt : Steps(att[b], att'[b])
  BY <1>1 DEF Moving, Goes
<1>3. StepInv'
  BY DEF Onward
<1> QED BY <1>2, <1>3, StepsSuffice

\* Every call of a worker's is such a step,
LEMMA WorkerKeeps ==
    ASSUME StepInv, NEW a \in Attempt, NEW flag \in BOOLEAN, NEW room \in BOOLEAN,
           Worker(a, flag, room)
    PROVE  StepsKeep
<1>1. CASE PickUp(a, flag)
  BY <1>1, PickUpKeeps, StepsSuffice
<1>2. CASE PickUpReplacing(a, flag, room)
  BY <1>2, PickUpReplacingKeeps, StepsSuffice
<1>3. CASE Lapse(a)
  BY <1>3, LapseOnward, OnwardSuffices
<1>4. CASE Dispatch(a)
  BY <1>4, DispatchKeeps DEF StepsKeep
<1>5. CASE StartProvider(a)
  BY <1>5, StartProviderOnward, OnwardSuffices
<1>6. CASE CheckEffect(a)
  BY <1>6, CheckEffectOnward, OnwardSuffices
<1>7. CASE WriteEffect(a)
  BY <1>7, WriteEffectOnward, OnwardSuffices
<1>8. CASE \E ending \in {"completed", "failed", "dropped"} : HandBack(a, ending, room)
  BY <1>8, HandBackOnward, OnwardSuffices
<1>9. CASE StartCall(a)
  BY <1>9, StartCallOnward, OnwardSuffices
<1>10. CASE AnswerCall(a, flag, room)
  BY <1>10, AnswerCallOnward, OnwardSuffices
<1>11. CASE \E ending \in {"completed", "failed"}, cost \in Costs \cup {0} : Observe(a, ending, cost)
  BY <1>11, ObserveOnward, OnwardSuffices
<1> QED BY <1>1, <1>2, <1>3, <1>4, <1>5, <1>6, <1>7, <1>8, <1>9, <1>10, <1>11 DEF Worker

\* every phase of the pass,
LEMMA PassKeeps ==
    ASSUME StepInv, NEW a \in Attempt, NEW flag \in BOOLEAN, NEW room \in BOOLEAN,
           Pass(a, flag, room)
    PROVE  StepsKeep
<1>1. CASE Sweep(room)
  BY <1>1, SweepOnward, OnwardSuffices
<1>2. CASE Replay
  BY <1>2, ReplayOnward, OnwardSuffices
<1>3. CASE ProveCall(a)
  BY <1>3, ProveCallOnward, OnwardSuffices
<1>4. CASE \E cost \in Costs : Reconcile(a, flag, cost, room)
  BY <1>4, ReconcileOnward, OnwardSuffices
<1>5. CASE StopWrittenOffReplacements
  BY <1>5, StopWrittenOffReplacementsOnward, OnwardSuffices
<1> QED BY <1>1, <1>2, <1>3, <1>4, <1>5 DEF Pass

\* and every word of a person.
LEMMA PersonKeeps ==
    ASSUME StepInv, NEW a \in Attempt, NEW room \in BOOLEAN, Person(a, room)
    PROVE  StepsKeep
<1>1. CASE \E word \in Words \ {"written_off"} : RecordOutcome(a, word, room)
  BY <1>1, RecordOutcomeOnward, OnwardSuffices
<1>2. CASE \E figure \in Figures : WriteOff(a, figure)
  BY <1>2, WriteOffOnward, OnwardSuffices
<1> QED BY <1>1, <1>2 DEF Person

\* So every transaction is.
LEMMA NextKeepsStep == ASSUME StepInv, [Next]_vars PROVE StepsKeep
<1>1. CASE UNCHANGED vars
  <2>1. att' = att /\ Tables' = Tables /\ approved' = approved
    BY <1>1 DEF vars, Tables
  <2>2. StepInv'
    BY <2>1 DEF StepInv, LivesApproved
  <2>3. \A b \in Attempt : Steps(att[b], att'[b])
    BY <2>1 DEF Steps
  <2> QED BY <2>2, <2>3, StepsSuffice
<1>2. CASE Next
  <2>1. PICK a \in Attempt, flag \in BOOLEAN, room \in BOOLEAN :
            \/ Worker(a, flag, room)
            \/ LoseAuthority(a) \/ EndApproval
            \/ Pass(a, flag, room)
            \/ Person(a, room)
    BY <1>2 DEF Next
  <2>2. CASE Worker(a, flag, room)
    BY <2>2, WorkerKeeps
  <2>3. CASE LoseAuthority(a)
    BY <2>3, LoseAuthorityOnward, OnwardSuffices
  <2>4. CASE EndApproval
    BY <2>4, EndApprovalOnward, OnwardSuffices
  <2>5. CASE Pass(a, flag, room)
    BY <2>5, PassKeeps
  <2>6. CASE Person(a, room)
    BY <2>6, PersonKeeps
  <2> QED BY <2>1, <2>2, <2>3, <2>4, <2>5, <2>6
<1> QED BY <1>1, <1>2

\* Whoever ends, answers or redoes an attempt of the step finds its rows, its
\* envelope and the order of its attempts as the invariant says, and leaves them so.
THEOREM StepIsKept == Spec => []StepInv
<1>1. Init => StepInv
  BY InitKeepsStep
<1>2. StepInv /\ [Next]_vars => StepInv'
  BY NextKeepsStep DEF StepsKeep
<1> QED BY <1>1, <1>2, PTL DEF Spec

\* Each hold of the step is given back or charged exactly once: the envelope's
\* totals are those of its holds, whether the worker's hand-back, the pass, a
\* person's word or a write-off closed them (close-hold.ts, outcome.ts,
\* write-off.ts, written-off-replacements.ts).
THEOREM HoldsCloseOnce == Spec => []EachHoldClosedOnce
<1>1. StepInv => EachHoldClosedOnce
  <2> SUFFICES ASSUME StepInv PROVE EachHoldClosedOnce
    OBVIOUS
  <2>1. /\ StepKept(Tables) /\ Tables.att = att /\ Tables.run = run
        /\ Tables.envelope = envelope /\ approved \in BOOLEAN
    BY DEF StepInv, Tables
  <2>2. TypeOK
    BY <2>1 DEF StepKept, TablesType, RunStates, TypeOK
  <2> QED BY <2>1, <2>2 DEF StepKept, Balanced, EachHoldClosedOnce
<1> QED BY <1>1, StepIsKept, PTL

\* At most one hold of the step works: a replacement is reserved beside a held hold
\* only when the register proved that hold's effect absent (drop.ts resume,
\* reconcile.ts settleAbsent).
THEOREM OneHoldWorks == Spec => []OneWorkingHold
<1>1. StepInv => OneWorkingHold
  <2> SUFFICES ASSUME StepInv PROVE OneWorkingHold
    OBVIOUS
  <2> DEFINE S == {a \in Held(Tables) : ~ att[a].absent}
             n == Newest(Tables)
  <2>1. StepKept(Tables) /\ Tables.att = att
    BY DEF StepInv, Tables
  <2>2. S \in SUBSET {n}
    <3> SUFFICES ASSUME NEW a \in S PROVE a = n
      OBVIOUS
    <3>1. a \in Attempt /\ att[a].hold = "held" /\ ~ att[a].absent
      BY <2>1 DEF Held
    <3>2. RowKept(att[a])
      BY <2>1, <3>1, RowsOfKept
    <3>3. a \in Written(Tables) /\ ~ Past(Tables.att[a])
      BY <2>1, <3>1, <3>2 DEF Written, Past, RowKept, RowOpen
    <3> QED BY <2>1, <3>1, <3>3, OthersArePast
  <2> HIDE DEF S, n
  <2>3. IsFiniteSet({n}) /\ Cardinality({n}) = 1
    BY FS_Singleton
  <2>4. Cardinality(S) \in Nat /\ Cardinality(S) <= Cardinality({n})
    BY <2>2, <2>3, FS_Subset, FS_CardinalityType
  <2> QED BY <2>3, <2>4 DEF OneWorkingHold, S
<1> QED BY <1>1, StepIsKept, PTL

\* The step's effect is sent again only where a person's word on the first allows
\* it: whatever resumes the step, the attempt it leaves behind wrote nothing, or
\* was answered (outcome.ts, reconcile.ts, drop.ts, pickup.ts replace).
THEOREM RedoingNeedsAWord == Spec => []RedoneOnlyOnAWord
<1>1. StepInv => RedoneOnlyOnAWord
  <2> SUFFICES ASSUME StepInv, NEW a \in Attempt, NEW b \in Attempt, a < b,
                      att[a].note = "written", att[b].note = "written"
               PROVE  att[a].word \in {"nothing_happened", "happened_differently"}
    BY DEF RedoneOnlyOnAWord
  <2>1. StepKept(Tables) /\ Tables.att = att
    BY DEF StepInv, Tables
  <2>2. att[a].state # "none" /\ att[b].state # "none"
    <3>1. /\ att[a] \in Row /\ RowKept(att[a])
          /\ att[b] \in Row /\ RowKept(att[b])
      BY RowNow
    <3> QED BY <3>1, BlankRow
  <2>3. a \in Written(Tables) /\ b \in Written(Tables)
    BY <2>1, <2>2 DEF Written
  <2>4. Written(Tables) = 1 .. Newest(Tables) /\ Newest(Tables) \in Attempt
    BY <2>1 DEF StepKept, InOrder
  <2>5. a # Newest(Tables)
    BY <2>3, <2>4, SomeAttempts DEF Attempt
  <2>6. Past(att[a])
    BY <2>1, <2>3, <2>5 DEF StepKept
  <2> QED BY <2>6 DEF Past
<1> QED BY <1>1, StepIsKept, PTL

\* No transaction changes what a closed hold was charged, an attempt's recorded
\* end, or a person's word (outcome.ts, write-off.ts, close-hold.ts).
THEOREM AnswersStand == Spec => AnswersAreFinal
<1>1. StepInv /\ [Next]_vars => AnswersKept
  BY NextKeepsStep DEF StepsKeep
<1> QED BY <1>1, StepIsKept, PTL DEF Spec, AnswersAreFinal, AnswersKept, Answers

\* Once a person has said that the step happened, or written it off, no attempt of
\* it is dispatched: only a call that is lost may still mark one (dispatch.ts and
\* the STEP_SETTLED facts).
THEOREM FinishedStepsStay == Spec => FinishedStepStaysFinished
<1>1. StepInv /\ [Next]_vars => MarksKept
  BY NextKeepsStep DEF StepsKeep
<1> QED BY <1>1, StepIsKept, PTL DEF Spec, FinishedStepStaysFinished, MarksKept
=============================================================================
