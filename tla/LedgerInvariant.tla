-------------------------- MODULE LedgerInvariant --------------------------
(***************************************************************************)
(* The rest of the runtime's inductive invariant, beside WorkInvariant:    *)
(* what is recorded of stopped attempts, and the money.  Predicates of     *)
(* tables as well; what a transaction has still to do is a parameter.      *)
(***************************************************************************)
EXTENDS WorkInvariant

(***************************************************************************)
(* Stops: behind MarkedHoldIsKept, FinalStopIsNotReplaced and              *)
(* EndedWorkIsClassified.                                                  *)
(***************************************************************************)

\* A dispatched attempt still holds its money, and keeps it once marked; a mark is
\* written on a dispatched attempt only.
MarksHold(t) ==
    \A h \in Hold :
        /\ t.hold[h].marked \/ t.hold[h].attempt = "dispatched" => t.hold[h].state = "held"
        /\ t.hold[h].marked => t.hold[h].attempt \in {"dispatched", "liability_unknown"}

\* A hold's lease is written for that hold.
LeasesBound(t) ==
    \A h \in Hold : t.hold[h].lease # Nil =>
        /\ t.hold[h].lease \in Lease
        /\ t.lease[t.hold[h].lease].state # "none"
        /\ t.lease[t.hold[h].lease].hold = h

\* An attempt stops with its lease.
StopsEnd(t) ==
    \A h \in Hold : t.hold[h].end # "none" =>
        /\ t.hold[h].lease # Nil
        /\ t.lease[t.hold[h].lease].state # "live"

\* A version's reservations replace one another in a chain: the newest alone may be
\* held, and it alone may stop for good.
NewestAlone(t) ==
    \A h \in Hold :
        /\ t.hold[h].state = "none" => t.hold[h] = NoHold
        /\ t.hold[h].state = "held" \/ t.hold[h].end = "final" => ~ t.hold[h].replaced
        /\ \A i \in Hold :
              /\ t.hold[h].state # "none" /\ t.hold[i].state # "none"
              /\ t.hold[h].version = t.hold[i].version
              /\ ~ t.hold[h].replaced /\ ~ t.hold[i].replaced
              => h = i

Over(t, v) ==
    t.version[v].state = "superseded" \/ t.lineage[t.version[v].lineage].state # "live"

\* S: the holds the transaction under way has still to classify.
EndedClassified(t, S) ==
    \A h \in Hold \ S :
        t.hold[h].state = "held" /\ Over(t, t.hold[h].version)
            => t.hold[h].attempt = "liability_unknown"

\* A version is written under a lineage already opened.
LineagesOpened(t) ==
    \A v \in Version : t.version[v].state # "none" =>
        t.lineage[t.version[v].lineage].state # "none"

StopsKept(t, S) ==
    /\ MarksHold(t)
    /\ LeasesBound(t)
    /\ StopsEnd(t)
    /\ NewestAlone(t)
    /\ EndedClassified(t, S)
    /\ LineagesOpened(t)

StopsInv == StopsKept(Tables, {})

(***************************************************************************)
(* Money: behind LedgerBalanced, ClosedHoldPaidItsCalls, CeilingsHold and  *)
(* ProposalFitsCap.                                                        *)
(***************************************************************************)
Typed(t) ==
    /\ t.lineage \in [Lineage -> LineageRow] /\ t.version \in [Version -> VersionRow]
    /\ t.hold \in [Hold -> HoldRow] /\ t.lease \in [Lease -> LeaseRow]
    /\ t.envelope \in [Envelope -> EnvelopeRow] /\ t.call \in [Call -> CallRow]

\* A lineage once opened always has its current version: a restart repeats it.
LineagesCurrent(t) ==
    \A l \in Lineage : t.lineage[l].state # "none" => Current(t, l) # {}

\* A reservation is in an open or closed envelope, and a call on a reservation.
RowsBound(t) ==
    /\ \A h \in Hold : t.hold[h].state # "none" =>
          /\ t.hold[h].envelope \in Envelope
          /\ t.envelope[t.hold[h].envelope].state # "none"
    /\ \A c \in Call :
          IF t.call[c].state = "none" THEN t.call[c].hold = Nil
          ELSE t.call[c].hold \in Hold /\ t.hold[t.call[c].hold].state # "none"

\* A held reservation has paid nothing and covers every call on it; a closed one
\* has paid for its calls, and none of them is open.
HoldsPay(t) ==
    \A h \in Hold :
        /\ t.hold[h].state = "held" => t.hold[h].actual = 0 /\ CallsTaken(t, h) <= t.hold[h].amount
        /\ t.hold[h].state \in {"abandoned", "actual"} =>
              ~ OpenCall(t, h) /\ t.hold[h].actual = Spent(t, h)

Balanced(t) ==
    \A e \in Envelope :
        LET ofE == {h \in Hold : t.hold[h].envelope = e} IN
        /\ t.envelope[e].held =
              SumFunctionOnSet([h \in Hold |-> t.hold[h].amount],
                               {h \in ofE : t.hold[h].state = "held"})
        /\ t.envelope[e].actual = SumFunctionOnSet([h \in Hold |-> t.hold[h].actual], ofE)

OneOpenEnvelope(t) ==
    \A d, e \in Envelope :
        /\ t.envelope[d].state = "open" /\ t.envelope[e].state = "open"
        /\ t.envelope[d].task = t.envelope[e].task
        => d = e

MoneyKept(t) ==
    /\ Typed(t)
    /\ LineagesCurrent(t)
    /\ RowsBound(t)
    /\ HoldsPay(t)
    /\ Balanced(t)
    /\ OneOpenEnvelope(t)

Ceilings(t) ==
    /\ \A e \in Envelope : t.envelope[e].held + t.envelope[e].actual <= t.envelope[e].maximum
    /\ Committed(t) <= CapLimit

MoneyInv == MoneyKept(Tables) /\ Ceilings(Tables)

\* What every transaction of the runtime finds and leaves.
RuntimeInv == WorkInv /\ StopsInv /\ MoneyInv
=============================================================================
