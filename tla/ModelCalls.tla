----------------------------- MODULE ModelCalls -----------------------------
(***************************************************************************)
(* The broker's model calls (src/packages/core-custody).  A call is three  *)
(* transactions around one send: reserved, marked started, and settled     *)
(* from its answer.  Between them the lease can lapse, be fenced or be     *)
(* retired, and the process can die: nothing forces the second or third.   *)
(***************************************************************************)
EXTENDS Work

\* lockFacts: the lease stands, its delegation is live, its hold is held.
CallFacts(t, x) ==
    /\ Standing(t, x)
    /\ t.lease[x].delegation \in {"none", "live"}
    /\ t.hold[t.lease[x].hold].state = "held"

\* The room the hold has left for another call's priced maximum.
CallFits(t, h, maximum) == maximum <= t.hold[h].amount - CallsTaken(t, h)

ReserveCall(x, c, maximum) ==
    /\ CallFacts(Tables, x)
    /\ call[c].state = "none"
    /\ CallFits(Tables, lease[x].hold, maximum)
    /\ call' = [call EXCEPT ![c] = [state |-> "reserved", hold |-> lease[x].hold, lease |-> x,
                                    maximum |-> maximum, actual |-> 0]]
    /\ UNCHANGED <<lineage, version, hold, lease, envelope>>

\* stopAtCeiling: no room, so the attempt retires and its run asks for budget.
StopAtCeiling(x, maximum) ==
    LET h == lease[x].hold IN
    /\ CallFacts(Tables, x)
    /\ ~ CallFits(Tables, h, maximum)
    /\ Commit(AtBudget(Retired(Tables, {x}, "retryable"), VersionsOf(Tables, {h})))

\* Any other refusal at the reserve (an operation not catalogued, a route, a
\* rate, a sibling held unknown) retires the attempt for good.
RefuseCall(x) ==
    /\ CallFacts(Tables, x)
    /\ Commit(Retired(Tables, {x}, "final"))

\* markStarted: the facts are locked and read again before the call is sent.
StartCall(c) ==
    /\ call[c].state = "reserved"
    /\ CallFacts(Tables, call[c].lease)
    /\ call' = [call EXCEPT ![c].state = "dispatched"]
    /\ UNCHANGED <<lineage, version, hold, lease, envelope>>

\* Refused at the start: the call is released; a refusal beside facts that hold
\* (its source, route or prompt copy moved) retires the attempt as well.
RefuseStart(c) ==
    LET t1 == [Tables EXCEPT !.call[c].state = "released"] IN
    /\ call[c].state = "reserved"
    /\ \/ ~ CallFacts(Tables, call[c].lease) /\ Commit(t1)
       \/ CallFacts(Tables, call[c].lease) /\ Commit(Retired(t1, {call[c].lease}, "final"))

\* A call closed before its answer arrived stays closed.
Answerable(t, c) == t.call[c].state \in {"reserved", "dispatched", "liability_unknown"}

\* An answer comes only to a call that was sent, however late.
Sent(t, c) == t.call[c].state \in {"dispatched", "liability_unknown"}

\* settlePriced: within its maximum the call costs what it cost.
SettleCall(c, cost) ==
    /\ Sent(Tables, c) /\ Answerable(Tables, c)
    /\ cost <= call[c].maximum
    /\ call' = [call EXCEPT ![c].state = "settled", ![c].actual = cost]
    /\ UNCHANGED <<lineage, version, hold, lease, envelope>>

\* stopAtSettlement: only an attempt whose lease still stands is stopped.
StoppedAtSettlement(t, x) == IF Standing(t, x) THEN Retired(t, {x}, "final") ELSE t

\* The provider proved that nothing happened.
ReleaseCall(c) ==
    /\ Sent(Tables, c) /\ Answerable(Tables, c)
    /\ Commit(StoppedAtSettlement([Tables EXCEPT !.call[c].state = "released"], call[c].lease))

\* hold: an answer nobody can price, or one past its maximum, keeps the call
\* unknown and marks its step as acted.
HeldUnknown(t, c) ==
    LET h == t.call[c].hold IN
    IF t.call[c].state = "dispatched"
        THEN [t EXCEPT !.call[c].state = "liability_unknown",
                       !.hold[h].marked = @ \/ t.hold[h].attempt = "dispatched"]
        ELSE t

\* A failure of the provider or of the connection is dropped as well: under the
\* mark the hold is classified as an unknown liability and kept.
HoldCall(c, drops) ==
    LET x == call[c].lease
        t1 == StoppedAtSettlement(HeldUnknown(Tables, c), x)
    IN
    /\ Sent(Tables, c)
    /\ drops => Standing(Tables, x)
    /\ Commit(IF drops THEN Classified(t1, {call[c].hold}) ELSE t1)

\* Slip: the calls never sent are forgotten.
CallsSweptSent(t) ==
    [t EXCEPT !.call = [c \in Call |->
        IF t.call[c].state = "dispatched" /\ ~ Standing(t, t.call[c].lease)
            THEN [t.call[c] EXCEPT !.state = "liability_unknown"] ELSE t.call[c]]]

\* sweepModelCalls: what an ended or lapsed lease left open.  A sent call is
\* held unknown, one never sent is released.
CallsSwept(t) ==
    [t EXCEPT !.call = [c \in Call |->
        IF t.call[c].state = "dispatched" /\ ~ Standing(t, t.call[c].lease)
            THEN [t.call[c] EXCEPT !.state = "liability_unknown"]
        ELSE IF t.call[c].state = "reserved" /\ ~ Standing(t, t.call[c].lease)
            THEN [t.call[c] EXCEPT !.state = "released"]
        ELSE t.call[c]]]
=============================================================================
