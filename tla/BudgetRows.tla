---------------------------- MODULE BudgetRows ----------------------------
(***************************************************************************)
(* The words the proofs about the budget stop are written in: what each    *)
(* helper makes of the rows of holds, calls, asks and envelope, written    *)
(* out as records, and how one state of the tables follows another.        *)
(***************************************************************************)
EXTENDS BudgetInvariant

\* A lease only ends, a hold only closes, and what was proved of it stays.
RowFollows(r, s) ==
    /\ s \in LooseRow /\ RowKept(s)
    /\ r.state = "none" <=> s.state = "none"
    /\ s.state = "held" => r.state = "held"
    /\ \/ s.lease = r.lease
       \/ r.lease # "none" /\ s.lease = "over"
       \/ r.lease = "live" /\ s.lease = "lapsed"
    /\ r.absent => s.absent

\* The tables follow when each row does.
HoldsFollow(t, u) ==
    /\ u \in TablesType
    /\ \A h \in Hold : RowFollows(t.hold[h], u.hold[h])

\* A helper that only ends things.
Quiet(t, u) == HoldsFollow(t, u) /\ u.asks = t.asks /\ u.run = t.run

\* An envelope's account.
EnvelopeType == [held : Int, actual : Int, maximum : Int]

\* The tables with one hold's row rewritten, and the envelope.
With(t, h, r, e) ==
    [hold |-> [t.hold EXCEPT ![h] = r], call |-> t.call, asks |-> t.asks, run |-> t.run,
     envelope |-> e]

\* The tables with the calls rewritten.
WithCalls(t, k) ==
    [hold |-> t.hold, call |-> k, asks |-> t.asks, run |-> t.run, envelope |-> t.envelope]

\* The calls of C moved to a state.
MovedCalls(t, C, state) ==
    [c \in Call |-> IF c \in C THEN [t.call[c] EXCEPT !.state = state] ELSE t.call[c]]

\* A hold closed at what it is charged, and what its envelope then carries.
ClosedRow(r, charge, step) ==
    [r EXCEPT !.state = IF charge > 0 THEN "actual" ELSE "abandoned",
              !.actual = charge, !.step = step]

ClosedEnvelope(t, h, charge) ==
    [held |-> t.envelope.held - t.hold[h].amount, actual |-> t.envelope.actual + charge,
     maximum |-> t.envelope.maximum]

\* A hold given back to, and its envelope.
GivenRow(r, back) == [r EXCEPT !.amount = IF r.state = "held" THEN r.amount + back ELSE r.amount]

GivenEnvelope(t, h, back) ==
    [held |-> IF t.hold[h].state = "held" THEN t.envelope.held + back ELSE t.envelope.held,
     actual |-> t.envelope.actual - back, maximum |-> t.envelope.maximum]

\* Whether an ended call gives anything back.
GivesBack(t, c) ==
    /\ t.call[c].state \in {"settled", "released"} /\ ~ t.call[c].writtenOff
    /\ Counted(t, t.call[c].of)

\* What an ended call gives back.
Back(t, c) == CallMax - t.call[c].actual

\* A lease ended.
RetiredRow(r, stop) ==
    [r EXCEPT !.lease = "over", !.stop = IF r.stop = "none" THEN stop ELSE r.stop]

\* The calls the end of a lease releases.
Releasable(t, h) == IF Counted(t, h) THEN {} ELSE Unsent(t, h)

\* An attempt at work turned unknown.
UnknownRow(r) == [r EXCEPT !.step = IF r.step = "dispatched" \/ ~ r.marked THEN "unknown" ELSE r.step]

\* Who keeps the whole hold for a person.
KeepsHold(t, h) == t.hold[h].marked \/ CallOut(t, h)

\* A helper that ends things of one hold.
Touches(t, u, h) == Quiet(t, u) /\ \A g \in Hold \ {h} : u.hold[g] = t.hold[g]

\* Giving back in turn.
GivesOn(C, P) ==
    \A v : \A s \in SUBSET C, x \in C :
        x \in s /\ <<s \ {x}, v>> \in P => v \in TablesType /\ <<s, GivenBack(v, x)>> \in P

\* Fencing in turn.
FencesOn(C, P) ==
    \A v : \A s \in SUBSET C, x \in C :
        x \in s /\ <<s \ {x}, v>> \in P => v \in TablesType /\ <<s, Classified(Retired(v, x, "open"), x)>> \in P

\* Stopping the attempts beside in turn.
StopsOn(C, P) ==
    \A v : \A s \in SUBSET C, x \in C :
        x \in s /\ <<s \ {x}, v>> \in P => v \in TablesType /\ <<s, ReplacementStopped(v, x)>> \in P

\* Ending what nothing started in turn.
EndsOn(C, P) ==
    \A v : \A s \in SUBSET C, x \in C :
        x \in s /\ <<s \ {x}, v>> \in P => v \in TablesType /\ <<s, [Closed(v, x, 0, "abandoned") EXCEPT !.hold[x].ended = TRUE]>> \in P

\* Nothing but amounts changes of the holds, nor anything of the calls.
OnlyAmounts(t, u) ==
    /\ u.call = t.call
    /\ \A h \in Hold : u.hold[h] = [t.hold[h] EXCEPT !.amount = u.hold[h].amount]

\* What stopping an attempt beside another makes of its row.
StoppedRow(r, charge) ==
    [ClosedRow(r, charge, "abandoned") EXCEPT !.lease = IF r.lease = "none" THEN "none" ELSE "over"]

\* What nothing started ends with the run: closed at nothing, and ended.
EndedRow(r) == [ClosedRow(r, 0, "abandoned") EXCEPT !.ended = TRUE]

\* The holds nothing started.
Others(t, h) == {g \in HeldIn(t) \ {h} : /\ t.hold[g].lease = "none"
                                         /\ t.hold[g].step = "reserved"
                                         /\ CallsOn(t, g) = {}}

\* The started calls of a hold.
Started(t, h) == {c \in CallsOn(t, h) : t.call[c].state = "dispatched"}

\* The calls of a lost worker: the started ones held.
HeldCalls(t, h) ==
    [c \in Call |-> IF c \in Started(t, h)
                    THEN [t.call[c] EXCEPT !.state = "unknown", !.lost = TRUE] ELSE t.call[c]]

\* A hold marked for its started calls.
LostRow(t, h) ==
    [t.hold[h] EXCEPT !.marked = @ \/ (Started(t, h) # {} /\ t.hold[h].step = "dispatched")]

\* The tables with both.
HeldLost(t, h) == With(WithCalls(t, HeldCalls(t, h)), h, LostRow(t, h), t.envelope)

\* A person's word on the hold's calls.
Unknowns(t, h) == {c \in CallsOn(t, h) : t.call[c].state = "unknown" /\ ~ t.call[c].writtenOff}

\* What a word makes of the unanswered calls.
ResolvedCalls(t, h, word) ==
    [c \in Call |->
        IF c \notin Unknowns(t, h) THEN t.call[c]
        ELSE IF word = "nothing" THEN [t.call[c] EXCEPT !.state = "released"]
        ELSE IF word = "written_off" THEN [t.call[c] EXCEPT !.writtenOff = TRUE]
        ELSE [t.call[c] EXCEPT !.state = "settled", !.actual = CallMax]]

\* What a run may be.
Runs == {"planned", "claimed", "waiting", "cancelled"}

\* The tables with the asks and the run rewritten.
WithRun(t, a, now) ==
    [hold |-> t.hold, call |-> t.call, asks |-> a, run |-> now, envelope |-> t.envelope]

\* An ask just put.
NewAsk(h) == [of |-> h, answer |-> "open", amount |-> 0, found |-> "none"]

\* A planned run taken up.
Unplanned(t) == [t EXCEPT !.run = IF @ = "planned" THEN "claimed" ELSE @]

\* A hold just reserved, and its envelope.
FreshHold(amount) == [NoHold EXCEPT !.state = "held", !.amount = amount, !.step = "reserved"]

ReservedEnvelope(t, amount) ==
    [held |-> t.envelope.held + amount, actual |-> t.envelope.actual,
     maximum |-> t.envelope.maximum]

\* A hold just claimed.
ClaimedRow(r) == [r EXCEPT !.lease = "live", !.step = "dispatched"]

\* A hold with a person's word.
Worded(t, h, v) == [t EXCEPT !.hold[h].word = v]
WordedRow(r, v) == [r EXCEPT !.word = v]

\* What an answer adds to the ceiling.
TopUpOf(r) == IF r.answer = "top_up" THEN r.amount ELSE 0

\* The last ask answered.
AnsweredAsks(t, kind, amount, found) ==
    [t.asks EXCEPT ![Len(t.asks)] =
        [of |-> t.asks[Len(t.asks)].of, answer |-> kind, amount |-> amount, found |-> found]]

\* The count that stands.
CountTyped ==
    /\ count.of \in Hold /\ count.amount \in Nat /\ count.spent \in Int
    /\ count.unsent \in SUBSET Call

\* A hold raised by the count, and its envelope.
RaisedRow(r) == [r EXCEPT !.amount = r.amount + count.amount - count.spent]

RaisedEnvelope(e) ==
    [held |-> e.held + count.amount - count.spent, actual |-> e.actual + count.spent,
     maximum |-> e.maximum + count.amount]

\* A hold ended by the count, and its envelope.
CountedRow(r) == [r EXCEPT !.state = "abandoned", !.ended = TRUE]

CountedEnvelope(t, h) ==
    [held |-> t.envelope.held - t.hold[h].amount, actual |-> t.envelope.actual + count.spent,
     maximum |-> t.envelope.maximum]

\* A call settled at its price.
PricedCalls(t, c, cost) ==
    [t.call EXCEPT ![c] = [t.call[c] EXCEPT !.state = "settled", !.actual = cost]]

\* A call just reserved.
NewCalls(t, n, h) == [t.call EXCEPT ![n] = [NoCall EXCEPT !.state = "reserved", !.of = h]]

\* A call left unanswered, and its hold marked.
UnansweredCalls(t, c) ==
    [t.call EXCEPT ![c] = [t.call[c] EXCEPT !.state = "unknown", !.lost = TRUE]]

Unanswered(t, c, h, m) ==
    [t EXCEPT !.call[c].state = "unknown", !.call[c].lost = TRUE,
              !.hold[h].marked = @ \/ m]

\* What a sweep has counted and locked.
SweepType ==
    sweep \in [at : {"idle", "counted", "locked"}, counted : SUBSET Call, locked : SUBSET Call]

\* A ceiling raised by an answer.
TopUpTaken(t, amount) == [t EXCEPT !.envelope.maximum = @ + amount, !.run = "planned"]

TakenEnvelope(e, amount) ==
    [held |-> e.held, actual |-> e.actual, maximum |-> e.maximum + amount]

\* Tables whose money is kept, the calls of D not yet given back, with n of the
\* approved spend and k of the cap to spare.
Sound(t, D, n, k) == t \in TablesType /\ MoneyKept(t, D) /\ CeilingsKept(t, D, n, k)

\* What the rewritten row of a hold leaves of the calls: a hold that no call is on
\* may be ended, and a word may only take charges off the approved spend.
LeavesCharges(t, h, r) ==
    /\ r.ended = t.hold[h].ended \/ CallsOn(t, h) = {}
    /\ Again(t.hold[h]) => Again(r)

\* Nothing was ever called or asked on a hold.
Fresh(t, h) == CallsOn(t, h) = {} /\ \A i \in DOMAIN t.asks : t.asks[i].of # h

\* A hold's row that may take the place of another: it holds no less of what it
\* held, or is a new one, and stays claimed and written off.
RowGoesOn(t, h, r) ==
    /\ RowPaid(r)
    /\ r.state = "held" =>
          \/ t.hold[h].state = "held" /\ r.amount >= t.hold[h].amount
          \/ Fresh(t, h)
    /\ t.hold[h].lease # "none" => r.lease # "none"
    /\ t.hold[h].step = "written_off" => r.step = "written_off"

\* The envelope with what one row takes of it and what another puts there.
EnvelopeFor(t, h, r, e) ==
    /\ e.held = t.envelope.held - HeldOf(t.hold[h]) + HeldOf(r)
    /\ e.actual = t.envelope.actual - t.hold[h].actual + r.actual

\* A row that changes no amount, and whose hold stays as it was.
SameMoney(o, r) ==
    /\ r.state = o.state /\ r.amount = o.amount /\ r.actual = o.actual /\ r.ended = o.ended
    /\ Again(r) = Again(o)
    /\ o.lease # "none" => r.lease # "none"
    /\ o.step = "written_off" => r.step = "written_off"
    /\ RowPaid(o) => RowPaid(r)

\* Holds and calls as they were, the asks counting the same holds' calls.
AsksGoOn(t, u) ==
    /\ u \in TablesType /\ u.hold = t.hold /\ u.call = t.call
    /\ \A h \in Hold : MovedIn(u, h) = MovedIn(t, h)
    /\ \A c \in Call : t.call[c].state \in Open /\ Counted(u, t.call[c].of)
                          => Counted(t, t.call[c].of)
    /\ StoppedOnce(u)
    /\ u.envelope.held = t.envelope.held /\ u.envelope.actual = t.envelope.actual

\* A call's row that may take the place of another: of the same hold, open only if
\* it was, and written off only when its closed hold's step is.
CallGoesOn(t, r, s) ==
    /\ s.of = r.of /\ (r.state = "none" <=> s.state = "none") /\ (r.state = "none" => s = r)
    /\ s.state # "settled" => s.actual = 0
    /\ s.state \in Open => r.state \in Open
    /\ CallSpend(s) <= CallSpend(r)
    /\ s.writtenOff => r.writtenOff \/ (WrittenOff(t) /\ t.hold[r.of].state # "held")

\* All the calls may.
CallsGoOn(t, f) == \A c \in Call : CallGoesOn(t, t.call[c], f[c])

\* The envelope carries of every call what it did, those of E still whole.
ChargesStay(t, f, D, E) ==
    \A c \in Call : ChargeOf(WithCalls(t, f), c, E) = ChargeOf(t, c, D)

\* Of the calls of D, those counted were moved.
Owed(t, D) == \A c \in D : Counted(t, t.call[c].of) => MovedIn(t, t.call[c].of)

\* Open calls released, those of E still to give back: the others were not counted.
Releases(t, C, E) ==
    /\ C \in SUBSET Call /\ E \in SUBSET C
    /\ \A c \in C : t.call[c].state \in Open
    /\ \A c \in C \ E : ~ MovedIn(t, t.call[c].of)

\* What the top-up of a closed stop finds of its hold: no call it would count is open.
NoneLeftOut(t, h) ==
    /\ t.hold[h].state # "held"
    /\ \A c \in CallsOn(t, h) : t.call[c].state \in Open => Counted(t, h)

\* The calls counted unsent that the sweep released since.
ReleasedOf(t) == {c \in count.unsent : t.call[c].state = "released"}

\* Tables in which the counted hold alone is moved.
CountsOnly(u) ==
    /\ u \in TablesType /\ u.call = call /\ MovedIn(u, count.of)
    /\ \A g \in Hold \ {count.of} : MovedIn(u, g) = MovedIn(Tables, g)
    /\ \A g \in Hold : Again(u.hold[g]) = Again(hold[g])

\* What the counted spend is of each call.
SpendMoved(c) == IF c \in CallsOn(Tables, count.of) THEN CountedSpend(c) ELSE 0

\* An open call that stays open, whatever else is written of it.
StillOpen(r, s) ==
    r.state \in Open /\ s.state \in Open /\ s.of = r.of /\ s.actual = r.actual
                     /\ s.writtenOff = r.writtenOff

\* Calls that stay as they were or open.
StayOpen(t, f) == \A c \in Call : f[c] = t.call[c] \/ StillOpen(t.call[c], f[c])

\* What may become of a call while a count stands.
CallBeside(r, s) ==
    /\ s.of = r.of
    /\ \/ s = r
       \/ r.state = "dispatched" /\ s.state = "unknown"
       \/ r.state = "reserved" /\ s.state = "released"

\* All the calls beside a count.
CallsBeside(t) == \A c \in Call : CallBeside(call[c], t.call[c])

\* What a word leaves of a hold to be spent again.
Regained(r, word) == IF word = "differently" /\ ~ r.absent THEN r.amount ELSE 0

\* What the calls of each hold add to the spend.
NetOn(t, g) ==
    SumFunctionOnSet([c \in Call |-> NetCharge(t, c, {})], {c \in Call : t.call[c].of = g})

============================================================================
