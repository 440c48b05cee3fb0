--------------------------- MODULE WorkInvariant ---------------------------
(***************************************************************************)
(* The inductive invariant behind OneLiveLeasePerTask, LiveWorkIsApproved  *)
(* and OneHoldPerVersion, as a predicate of tables so that it can be       *)
(* carried through the helpers of a transaction.                           *)
(***************************************************************************)
EXTENDS TaskRuntime

\* The tables and their rows have the columns of the schema.  The money in them
\* is left untyped: it is computed by sums the invariant says nothing of.
Shaped(t) ==
    /\ DOMAIN t = {"lineage", "version", "hold", "lease", "envelope", "call"}
    /\ DOMAIN t.lineage = Lineage /\ DOMAIN t.version = Version /\ DOMAIN t.hold = Hold
    /\ DOMAIN t.lease = Lease /\ DOMAIN t.envelope = Envelope /\ DOMAIN t.call = Call
    /\ \A l \in Lineage : DOMAIN t.lineage[l] = DOMAIN NoLineage
    /\ \A v \in Version : DOMAIN t.version[v] = DOMAIN NoVersion
    /\ \A h \in Hold : DOMAIN t.hold[h] = DOMAIN NoHold
    /\ \A x \in Lease : DOMAIN t.lease[x] = DOMAIN NoLease
    /\ \A c \in Call : DOMAIN t.call[c] = DOMAIN NoCall

\* A lineage has one live version at most.
OneCurrent(t) ==
    \A v, w \in Version :
        /\ t.version[v].state = "current" /\ t.version[w].state = "current"
        /\ t.version[v].lineage = t.version[w].lineage
        => v = w

VersionsWritten(t) ==
    \A v \in Version :
        /\ t.version[v].state # "none" => t.version[v].lineage \in Lineage
        /\ t.version[v].gate = "approved" => t.version[v].state # "none"

\* Money is held under an approved gate only, and a held attempt is not one the
\* classifier has closed.
HoldsApproved(t) ==
    \A h \in Hold :
        /\ t.hold[h].state # "none" =>
              t.hold[h].version \in Version /\ t.version[t.hold[h].version].gate = "approved"
        /\ t.hold[h].state = "held" => t.hold[h].attempt # "abandoned"

\* A call belongs to the hold its lease works on.
CallsBound(t) ==
    \A c \in Call : t.call[c].state # "none" =>
        /\ t.call[c].lease \in Lease
        /\ t.lease[t.call[c].lease].state # "none"
        /\ t.call[c].hold = t.lease[t.call[c].lease].hold

\* M: the leases the transaction under way has still to end.
WorkKept(t, M) ==
    /\ Shaped(t)
    /\ OneCurrent(t)
    /\ VersionsWritten(t)
    /\ HoldsApproved(t)
    /\ CallsBound(t)
    /\ OneHeld(t)
    /\ OneLiveLease(t)
    /\ \A x \in Lease : t.lease[x].state = "live" /\ x \notin M => WorksApproved(t, x)

\* Between transactions nothing is left to end.
WorkInv == WorkKept(Tables, {})
=============================================================================
