-------------------------- MODULE BudgetInvariant --------------------------
(***************************************************************************)
(* The inductive invariants behind the properties of BudgetAnswers, over   *)
(* the rows a transaction passes from one helper to the next: first the    *)
(* order of the step's holds and their leases, then the money of every     *)
(* hold and call, then the ceilings.                                       *)
(***************************************************************************)
EXTENDS BudgetAnswers

Running == {"live", "lapsed"}

\* HoldRow, before anything is known of the amounts' signs.
LooseRow ==
    [state : {"none", "held", "actual", "abandoned"}, amount : Int, actual : Int,
     ended : BOOLEAN, lease : {"none", "live", "lapsed", "over"},
     stop : {"none", "open", "final"},
     step : {"none", "reserved", "dispatched", "unknown", "completed", "failed", "written_off",
             "abandoned", "dropped"},
     marked : BOOLEAN, observed : BOOLEAN, absent : BOOLEAN,
     word : {"none", "nothing", "happened", "differently"}]

TablesType ==
    [hold : [Hold -> LooseRow], call : [Call -> CallRow], asks : Seq(AskRow),
     run : {"planned", "claimed", "waiting", "cancelled"},
     envelope : [held : Int, actual : Int, maximum : Int]]

(***************************************************************************)
(* The order of the holds.                                                 *)
(***************************************************************************)

\* A row nobody wrote is blank; one nobody claimed did nothing; and one whose lease
\* runs is held at work, unless its effect is marked.
RowKept(r) ==
    /\ r.state = "none" => r = NoHold
    /\ r.lease = "none" => ~ r.marked /\ ~ r.absent /\ r.step \notin {"dispatched", "unknown"}
    /\ r.lease \in Running /\ ~ r.marked => r.state = "held" /\ r.step = "dispatched"

\* The holds are numbered without a gap; only the newest is held and not proved
\* absent; and while one's lease runs none after it was claimed.
HoldsInOrder(t) ==
    \A g, h \in Hold : g < h /\ t.hold[h].state # "none" =>
        /\ t.hold[g].state # "none"
        /\ t.hold[g].state = "held" => t.hold[g].absent
        /\ t.hold[g].lease \in Running => t.hold[h].lease = "none"

\* Every ask is of a hold whose lease is over.
AsksAreOver(t) == \A i \in DOMAIN t.asks : t.hold[t.asks[i].of].lease = "over"

\* Nothing works for a run that waits.
WaitsAlone(t) == t.run = "waiting" => \A h \in Hold : t.hold[h].lease # "live"

OrderKept(t) ==
    /\ t \in TablesType
    /\ \A h \in Hold : RowKept(t.hold[h])
    /\ HoldsInOrder(t) /\ AsksAreOver(t) /\ WaitsAlone(t)

\* An answer between its count and its commit is the newest ask's, of a held hold.
CountStands ==
    count.kind # "none" =>
        /\ Answerable /\ count.of = Stop
        /\ hold[count.of].state = "held" /\ sweep.counted = {}

CountType ==
    /\ count \in [kind : {"none", "top_up", "end"}, of : Hold, amount : Nat, spent : Int,
                  unsent : SUBSET Call]
    /\ count.kind = "none" => count = Uncounting
    /\ sweep \in [at : {"idle", "counted", "locked"}, counted : SUBSET Call, locked : SUBSET Call]

OrderInv == OrderKept(Tables) /\ CountType /\ CountStands

(***************************************************************************)
(* The money.                                                              *)
(***************************************************************************)

\* What a hold may be charged is positive; a held one was charged nothing and its
\* step is at work or unknown; one ended at a stop was charged nothing of its own.
RowPaid(r) ==
    /\ r.amount \in Nat /\ r.actual \in Nat
    /\ r.state # "none" => r.amount > 0
    /\ r.state = "held" => /\ r.actual = 0 /\ ~ r.ended /\ r.word = "none"
                           /\ r.step \in {"reserved", "dispatched", "unknown"}
    /\ r.absent => r.marked
    /\ r.ended => r.state = "abandoned" /\ r.actual = 0

MovedIn(t, h) == t.hold[h].ended \/ ToppedUpHeld(t, h)

\* A call is of a claimed hold, numbered without a gap, and costs nothing before it
\* is settled; an open one that was counted was moved to the envelope, and only a
\* written-off step's closed hold has a written-off call.
CallKept(t, c) ==
    LET r == t.call[c] IN
    /\ r.state = "none" => r = NoCall
    /\ r.state # "none" => t.hold[r.of].lease # "none"
    /\ r.state # "settled" => r.actual = 0
    /\ r.state \in Open /\ Counted(t, r.of) => MovedIn(t, r.of)
    /\ r.writtenOff => WrittenOff(t) /\ t.hold[r.of].state # "held"

CallsInOrder(t) ==
    \A c, d \in Call : c < d /\ t.call[d].state # "none" => t.call[c].state # "none"

\* A held hold stopped once at most, and its top-up found it held.
StoppedOnce(t) ==
    \A i, j \in DOMAIN t.asks :
        t.hold[t.asks[i].of].state = "held" =>
            /\ t.asks[i].of = t.asks[j].of => i = j
            /\ t.asks[i].answer = "top_up" => t.asks[i].found = "held"

\* What the envelope carries of a call; one in D it still carries whole.
ChargeOf(t, c, D) ==
    IF t.call[c].state = "none" \/ ~ MovedIn(t, t.call[c].of) THEN 0
    ELSE IF c \in D THEN CallMax ELSE Carried(t.call[c])

HeldOf(r) == IF r.state = "held" THEN r.amount ELSE 0

HeldSum(t) == SumFunctionOnSet([h \in Hold |-> HeldOf(t.hold[h])], Hold)
ActualSum(t) == SumFunctionOnSet([h \in Hold |-> t.hold[h].actual], Hold)
ChargeSum(t, D) == SumFunctionOnSet([c \in Call |-> ChargeOf(t, c, D)], Call)

\* The envelope's totals, with the calls of D ended and not yet given back.
Balanced(t, D) ==
    /\ t.envelope.held = HeldSum(t)
    /\ t.envelope.actual = ActualSum(t) + ChargeSum(t, D)

\* A held hold covers its calls, unless a count took them.
Covers(t) == \A h \in HeldIn(t) : MovedIn(t, h) \/ SpentOn(t, h) <= t.hold[h].amount

RowsKept(t) ==
    /\ \A h \in Hold : RowPaid(t.hold[h])
    /\ \A c \in Call : CallKept(t, c)
    /\ CallsInOrder(t) /\ StoppedOnce(t) /\ Covers(t)

MoneyKept(t, D) == RowsKept(t) /\ Balanced(t, D)

\* What a count recorded is still what the calls come to, those the sweep released
\* since at their maximum.
CountedSpend(c) == IF c \in count.unsent THEN CallMax ELSE CallSpend(call[c])

CountHolds ==
    count.kind # "none" =>
        /\ Unsent(Tables, count.of) \subseteq count.unsent
        /\ \A c \in count.unsent : call[c].of = count.of /\ call[c].state \in {"reserved", "released"}
        /\ count.spent = SumFunctionOnSet([c \in Call |-> CountedSpend(c)],
                                          CallsOn(Tables, count.of))
        /\ count.spent <= hold[count.of].amount
        /\ count.kind = "top_up" <=> count.amount > 0

MoneyInv == MoneyKept(Tables, {}) /\ CountHolds

(***************************************************************************)
(* The ceilings.                                                           *)
(***************************************************************************)
Again(r) == r.word = "differently" \/ r.absent

\* What a hold adds to the spend a person approved, or takes of it.
NetOf(r) == (IF Again(r) THEN r.amount ELSE 0) - HeldOf(r) - r.actual

NetCharge(t, c, D) == IF Again(t.hold[t.call[c].of]) THEN 0 ELSE ChargeOf(t, c, D)

NetSum(t) == SumFunctionOnSet([h \in Hold |-> NetOf(t.hold[h])], Hold)
NetChargeSum(t, D) == SumFunctionOnSet([c \in Call |-> NetCharge(t, c, D)], Call)

\* What is left of the approved spend.
Spare(t, D) == Approved + TopUpsOf(t) + NetSum(t) - NetChargeSum(t, D)

Committed(t) == t.envelope.held + t.envelope.actual

\* The ceilings hold, with n of the approved spend and k of the cap to spare.
CeilingsKept(t, D, n, k) ==
    /\ Spare(t, D) >= n
    /\ Committed(t) <= t.envelope.maximum
    /\ Committed(t) + k <= Cap

CeilingInv == CeilingsKept(Tables, {}, 0, count.amount)

BudgetInv == OrderInv /\ MoneyInv /\ CeilingInv
=============================================================================
