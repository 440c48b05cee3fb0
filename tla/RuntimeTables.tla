--------------------------- MODULE RuntimeTables ---------------------------
(***************************************************************************)
(* The rows the core runtime (src/packages/core-runtime) keeps for one      *)
(* business, and the helpers its transactions are built from.               *)
(*                                                                         *)
(* Every command of the runtime is one database transaction that locks the  *)
(* complete set of rows it needs and re-reads them before it writes, so it  *)
(* is one action here.  Its helpers (classifyUnderLocks, retireWork,        *)
(* reserve, ...) write inside that transaction, each reading what the one   *)
(* before wrote: a helper is therefore an operator from tables to tables,   *)
(* a command composes helpers, and Commit makes the result the next state.  *)
(*                                                                         *)
(* A proposal version, its planned run, its one step and its gate are       *)
(* written together by writeProposal and never exist apart: they are one    *)
(* row.  So are a reservation and its attempt ("hold"), and a lease, its    *)
(* delegation and its hand-back reports.  One business, one cap, one        *)
(* currency.                                                               *)
(***************************************************************************)
EXTENDS Integers, FiniteSets, FiniteSetsExt

CONSTANTS
    Task, Lineage, Version, Hold, Lease, Envelope, Call,  \* row identities
    Nil,             \* an absent reference
    Amounts,         \* the amounts, in minor units, requests may name
    CapLimit,        \* budget_caps.limit_minor
    MaxBudgetAsks    \* MAX_BUDGET_ASKS, the budget asks one run may raise

ASSUME NilAssumption ==
    Nil \notin Task \cup Lineage \cup Version \cup Hold \cup Lease \cup Envelope

ASSUME AmountsAssumption == Amounts \subseteq Nat \ {0}

ASSUME LimitsAssumption == CapLimit \in Nat /\ MaxBudgetAsks \in Nat

\* A business writes finitely many rows, so its sums are of finitely many amounts.
ASSUME RowsAssumption ==
    /\ IsFiniteSet(Version) /\ IsFiniteSet(Hold) /\ IsFiniteSet(Lease)
    /\ IsFiniteSet(Envelope) /\ IsFiniteSet(Call)

VARIABLES lineage, version, hold, lease, envelope, call

vars == <<lineage, version, hold, lease, envelope, call>>

(***************************************************************************)
(* Rows.                                                                   *)
(***************************************************************************)
GateStates == {"none", "pending", "approved", "rejected", "changes_requested", "superseded"}
RunStates  == {"planned", "claimed", "handed_back", "waiting_budget", "cancelled"}
AttemptStates == {"none", "reserved", "dispatched", "handed_back", "abandoned", "dropped",
                  "liability_unknown"}

LineageRow == [state: {"none", "live", "rejected", "cancelled"},
               task: Task \cup {Nil}, restarts: Lineage \cup {Nil}]

\* lapsed: the gate's expires_at has passed.  reviewed: a reviewed_outputs row
\* names the version.  asks: the run's budget asks.
VersionRow == [state: {"none", "current", "superseded"}, lineage: Lineage \cup {Nil},
               maximum: Nat, reviewed: BOOLEAN, gate: GateStates, round: Nat,
               lapsed: BOOLEAN, run: RunStates, asks: Nat]

\* end: the attempt's recorded stop (run_outcomes), by whether a later claim
\* may still replace it (claimStopped).  marked: the attempt's dispatch_marker.
\* replaced: its run has a newer reservation.  A quarantined attempt is never
\* written except from a quarantined attempt: the state is left out.
HoldRow == [state: {"none", "held", "abandoned", "actual"},
            version: Version \cup {Nil}, envelope: Envelope \cup {Nil},
            amount: Int, actual: Int, lease: Lease \cup {Nil}, replaced: BOOLEAN,
            attempt: AttemptStates, marked: BOOLEAN, end: {"none", "retryable", "final"}]

\* lapsed: expires_at has passed.  settled counts the lease's settled hand-back
\* reports.
LeaseRow == [state: {"none", "live", "released", "expired"}, task: Task \cup {Nil},
             hold: Hold \cup {Nil}, fence: Nat, lapsed: BOOLEAN,
             delegation: {"none", "live", "settled", "revoked"},
             settled: Nat]

EnvelopeRow == [state: {"none", "open", "closed"}, task: Task \cup {Nil},
                maximum: Nat, held: Int, actual: Int]

CallRow == [state: {"none", "reserved", "dispatched", "liability_unknown", "settled", "released"},
            hold: Hold \cup {Nil}, lease: Lease \cup {Nil}, maximum: Nat, actual: Nat]

Tables == [lineage |-> lineage, version |-> version, hold |-> hold, lease |-> lease,
           envelope |-> envelope, call |-> call]

Commit(t) ==
    /\ lineage' = t.lineage
    /\ version' = t.version
    /\ hold' = t.hold
    /\ lease' = t.lease
    /\ envelope' = t.envelope
    /\ call' = t.call

(***************************************************************************)
(* Reads.                                                                  *)
(***************************************************************************)
Versions(t, l) == {v \in Version : t.version[v].lineage = l}

\* The version a lineage has live: the one not superseded.
Current(t, l) == {v \in Versions(t, l) : t.version[v].state = "current"}

TaskOf(t, v) == t.lineage[t.version[v].lineage].task

HeldOn(t, V) == {h \in Hold : t.hold[h].state = "held" /\ t.hold[h].version \in V}

LiveOnTask(t, k) == {x \in Lease : t.lease[x].state = "live" /\ t.lease[x].task = k}

OpenEnvelope(t, k) == {e \in Envelope : t.envelope[e].state = "open" /\ t.envelope[e].task = k}

\* The gate approved, the lineage live, the version not superseded.
ApprovalCurrent(t, v) ==
    /\ t.version[v].gate = "approved"
    /\ t.version[v].state = "current"
    /\ t.lineage[t.version[v].lineage].state = "live"

\* The lease still holds its work now: live and not past its expiry.
Standing(t, x) == t.lease[x].state = "live" /\ ~ t.lease[x].lapsed

\* The rounds of requested changes a lineage has used, counting the one open.
RoundsUsed(t, l) ==
    Cardinality({v \in Versions(t, l) : t.version[v].gate = "changes_requested"}) + 1

CallsOn(t, h) == {c \in Call : t.call[c].hold = h}

Spent(t, h) ==
    SumFunctionOnSet([c \in Call |-> t.call[c].actual],
                     {c \in CallsOn(t, h) : t.call[c].state = "settled"})

OpenCall(t, h) ==
    \E c \in CallsOn(t, h) : t.call[c].state \in {"dispatched", "liability_unknown"}

\* What the hold's calls have taken of it: settled ones their cost, calls not
\* yet closed their maximum.
CallsTaken(t, h) ==
    Spent(t, h) + SumFunctionOnSet([c \in Call |-> t.call[c].maximum],
                    {c \in CallsOn(t, h) : t.call[c].state \in {"reserved", "dispatched", "liability_unknown"}})

Committed(t) == 
    SumFunctionOnSet([e \in Envelope |-> t.envelope[e].held + t.envelope[e].actual], Envelope)

CapFits(t, amount) == Committed(t) + amount <= CapLimit

EnvelopeFits(t, e, amount) ==
    t.envelope[e].held + t.envelope[e].actual + amount <= t.envelope[e].maximum
=============================================================================
