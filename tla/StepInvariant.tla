--------------------------- MODULE StepInvariant ---------------------------
(***************************************************************************)
(* The inductive invariant behind StepOutcome's properties.  A row is kept *)
(* if its fields agree; every attempt but the newest is past: it can       *)
(* neither work nor write any more, and an effect of it that stands beside *)
(* a later attempt had a person's word.                                    *)
(***************************************************************************)
EXTENDS StepOutcome

\* A held hold is of an attempt that nobody has ended; one nobody claimed is as
\* it was reserved.
RowOpen(r) ==
    /\ r.state = "none" => r = Unwritten
    /\ r.state = "reserved" => r = Fresh(r.amount)
    /\ r.state # "none" => r.amount > 0 /\ r.hold # "none"
    /\ r.hold = "held" <=> r.state \in {"reserved", "dispatched", "liability_unknown"}
    /\ r.hold = "held" => r.actual = 0 /\ r.outcome = "none" /\ r.word = "none"

\* A live lease has its attempt dispatched, or its step acted.
RowLeased(r) == LeaseLive(r) => r.marked \/ r.state = "dispatched"

\* Who has an observation, a written effect or a proof of absence was marked; one
\* proved absent wrote nothing, and never will.
RowMarked(r) ==
    /\ r.observed \/ r.absent \/ r.note = "written" => r.marked
    /\ r.absent => r.note # "written" /\ r.state # "dispatched"
    /\ r.call \in {"none", "dispatched"} => ~ r.lost

\* A closed hold whose effect was written had a person's word, or settled as done.
RowAnswered(r) ==
    /\ r.word = "happened" => r.state = "settled" /\ r.outcome = "completed"
    /\ r.note = "written" /\ r.hold # "held" =>
          \/ r.word \in {"nothing_happened", "happened_differently", "written_off"}
          \/ r.hold = "actual" /\ r.state = "settled"

RowKept(r) == RowOpen(r) /\ RowLeased(r) /\ RowMarked(r) /\ RowAnswered(r)

\* What a later attempt leaves of an earlier one.
Past(r) ==
    /\ r.state \notin {"none", "reserved", "dispatched"}
    /\ r.hold = "held" => r.absent
    /\ r.note = "written" => r.word \in {"nothing_happened", "happened_differently"}

RunStates == {"planned", "claimed", "handed_back", "waiting_budget", "cancelled"}

TablesType == [att : [Attempt -> Row], run : RunStates, envelope : [held : Nat, actual : Nat]]

Newest(t) == Cardinality(Written(t))

\* Attempts are numbered in the order they are reserved.
InOrder(t) == Newest(t) \in Attempt /\ Written(t) = 1 .. Newest(t)

Balanced(t) ==
    /\ t.envelope.held = SumFunctionOnSet([a \in Attempt |-> t.att[a].amount], Held(t))
    /\ t.envelope.actual = SumFunctionOnSet([a \in Attempt |-> t.att[a].actual], Attempt)

StepKept(t) ==
    /\ t \in TablesType
    /\ \A a \in Attempt : RowKept(t.att[a])
    /\ InOrder(t)
    /\ \A a \in Written(t) : a # Newest(t) => Past(t.att[a])
    /\ Balanced(t)

\* No lease outlives the approval.
LivesApproved == ~ approved => \A a \in Attempt : ~ LeaseLive(att[a])

StepInv == StepKept(Tables) /\ approved \in BOOLEAN /\ LivesApproved
=============================================================================
