---------------------- MODULE OperationRegisterProofs ----------------------
(***************************************************************************)
(* For any number of calls, resends, faults and turns: an operation's      *)
(* effect is kept once, what its callers are told agrees with it, the      *)
(* chain tells the register, and what is held of a standing still stands.  *)
(***************************************************************************)
EXTENDS OperationRegister, SequenceTheorems, TLAPS

\* The outcomes that say something.
Spoken == {p \in Pending : p.says # "none"}

\* What the outcomes have in common: a row says what the caller is told, and the handler's
\* writes are only kept beside a row.
LEMMA PendingShapes ==
  \A p \in Pending :
    /\ p.row \in {"none", "applied", "refused"} /\ p.asks \subseteq Parts
    /\ p.tells \in 0..(MaxCarried + 1)
    /\ p.row # "none" => p.says = p.row /\ p.event = p.row
    /\ p.keeps => p.row # "none"
    /\ p.row = "applied" => p.keeps
    /\ p.event = "applied" => p.row = "applied"
    /\ p.says # "none" => /\ p.event \in {"applied", "refused", "unnamed", "replayed"}
                          /\ p.says \in {"applied", "refused", "later", "withheld", "reused"}
BY DEF Pending

\* Nothing is an outcome that says nothing.
LEMMA NothingIsPending == Nothing \in Pending
BY OperationRegisterAssumption DEF Nothing, Outcome, Pending, Parts

\* A refusal says so, keeps nothing and is not asked about.
LEMMA RefusalsAreSpoken ==
  /\ Refused \in Spoken /\ Refused.row = "refused" /\ ~Refused.keeps /\ Refused.asks = {}
  /\ Unnamed \in Spoken /\ Unnamed.row = "none" /\ Unnamed.says = "later"
  /\ ~Unnamed.keeps /\ Unnamed.asks = {}
  /\ \A says \in {"later", "withheld", "reused"} :
       /\ Unheld(says) \in Spoken /\ Unheld(says).row = "none" /\ Unheld(says).says = says
       /\ ~Unheld(says).keeps /\ Unheld(says).asks = {}
BY OperationRegisterAssumption DEF Refused, Unnamed, Unheld, Outcome, Spoken, Pending, Parts

\* A refusal after the last wait holds no identity but a success's, of an agent.
LEMMA TooLateIsARefusal ==
  ASSUME NEW c \in Calls, pend[c] \in Pending
  PROVE  /\ TooLate(c) \in {Refused, Unheld("withheld"), Unnamed}
         /\ TooLate(c) = Refused => pend[c].row = "applied"
<1>1. Refused # Unheld("withheld") /\ Refused # Unnamed
  BY DEF Refused, Unheld, Unnamed, Outcome
<1> QED BY <1>1 DEF TooLate

\* What is asked is a part of a standing.
LEMMA AsksAreParts ==
  \A c \in Calls : Prepared(c) \subseteq Parts /\ Asked(c) \subseteq Parts
BY DEF Prepared, Asked, Parts

LEMMA AppliedIsSpoken ==
  ASSUME NEW c \in Calls, NEW asks \in SUBSET Parts
  PROVE  /\ \A p \in Applied(c, asks) :
              p \in Spoken /\ p.row = "applied" /\ p.asks = asks /\ (c \in Audited <=> p.tells > 0)
         /\ Retained(asks) \in Spoken /\ Retained(asks).row = "refused"
         /\ Retained(asks).asks = asks /\ Retained(asks).tells = 1
<1>1. Retained(asks) \in Spoken
  BY OperationRegisterAssumption DEF Retained, Outcome, Spoken, Pending
<1>2. ASSUME NEW n \in Told(c)
      PROVE  /\ Outcome("applied", TRUE, "applied", n, "applied", asks) \in Spoken
             /\ n \in Nat /\ (c \in Audited <=> n > 0)
  <2>1. n \in 0..(MaxCarried + 1) /\ (c \in Audited <=> n > 0)
    BY OperationRegisterAssumption DEF Told
  <2> QED BY <2>1, OperationRegisterAssumption DEF Outcome, Spoken, Pending
<1> QED BY <1>1, <1>2 DEF Applied, Retained, Outcome

\* What a handler comes to: a row with its answer, or a refusal that holds none.
LEMMA OutcomesArePending ==
  ASSUME NEW c \in Calls, NEW p \in Outcomes(c)
  PROVE  /\ p \in Spoken
         /\ p.row = "none" => p.says \notin {"applied", "refused", "reused"}
<1>1. /\ Asked(c) \subseteq Parts /\ {} \subseteq Parts /\ {"session"} \subseteq Parts
      /\ Asked(c) \ {"grant"} \subseteq Parts
  BY AsksAreParts DEF Parts
<1>2. CASE p \in {Refused, Unheld("later")}
  BY <1>2, RefusalsAreSpoken
<1>3. CASE \E asks \in SUBSET Parts : p \in Applied(c, asks) \/ p = Retained(asks)
  BY <1>3, AppliedIsSpoken
<1> QED BY <1>1, <1>2, <1>3 DEF Outcomes

\* A stored answer agrees with the row it is read from.
LEMMA StoredAgrees ==
  ASSUME TypeOK, NEW c \in Calls, register[OpOf[c]] # None, NEW p \in Stored(c)
  PROVE  /\ p \in Spoken
         /\ p.row = "none" /\ ~p.keeps
         /\ p.says \in {"applied", "refused"} => Settled(c, p.says)
         /\ p.says = "reused" => Differs(c)
<1> DEFINE row == register[OpOf[c]]
<1>1. row \in [outcome : {"applied", "refused"}, payload : Payloads]
  BY OperationRegisterAssumption DEF TypeOK, Rows
<1>2. CASE p \in {Unheld("reused")} /\ row.payload # PayloadOf[c]
  BY <1>2, RefusalsAreSpoken DEF Differs
<1>3. CASE p = Unheld("withheld")
  BY <1>3, RefusalsAreSpoken
<1>4. CASE \E asks \in SUBSET Parts : p = Replayed(c, row.outcome, asks) /\ row.payload = PayloadOf[c]
  <2>1. PICK asks \in SUBSET Parts : p = Replayed(c, row.outcome, asks)
    BY <1>4
  <2>2. row = [outcome |-> row.outcome, payload |-> PayloadOf[c]]
    BY <1>1, <1>4
  <2>3. p.says = row.outcome /\ p.row = "none" /\ ~p.keeps
    BY <2>1 DEF Replayed, Outcome
  <2>4. p \in Spoken
    BY <1>1, <2>1, OperationRegisterAssumption DEF Replayed, Outcome, Spoken, Pending
  <2> QED BY <1>1, <2>2, <2>3, <2>4 DEF Settled
<1>5. row.outcome \in {"applied", "refused"} /\ {} \subseteq Parts
      /\ Prepared(c) \subseteq Parts /\ Asked(c) \subseteq Parts
  BY <1>1, AsksAreParts
<1>6. \/ p \in {Unheld("reused")} /\ row.payload # PayloadOf[c]
      \/ p = Unheld("withheld")
      \/ \E asks \in SUBSET Parts : p = Replayed(c, row.outcome, asks) /\ row.payload = PayloadOf[c]
  <2>1. CASE row.payload # PayloadOf[c]
    BY <2>1 DEF Stored
  <2>2. CASE row.payload = PayloadOf[c] /\ row.outcome = "refused"
    <3>1. p = Replayed(c, "refused", {})
      BY <2>2 DEF Stored
    <3> QED BY <1>5, <2>2, <3>1
  <2>3. CASE row.payload = PayloadOf[c] /\ row.outcome = "applied"
    <3>1. \/ p = Unheld("withheld")
          \/ p = Replayed(c, "applied", IF IsAgent(c) THEN Prepared(c) ELSE Asked(c))
          \/ p = Replayed(c, "applied", {})
      BY <2>3 DEF Stored
    <3> QED BY <1>5, <2>3, <3>1
  <2> QED BY <1>5, <2>1, <2>2, <2>3
<1> QED BY <1>2, <1>3, <1>4, <1>6

LEMMA InitIsRegistered == Init => IdentityInv
<1> SUFFICES ASSUME Init PROVE IdentityInv
  OBVIOUS
<1>1. TypeOK
  BY OperationRegisterAssumption, NothingIsPending DEF Init, TypeOK, Phases, Rows, Entries
<1>2. DoorIsExclusive
  BY DEF Init, DoorIsExclusive, InTransaction, Held
<1>3. PendingAgrees
  BY DEF Init, PendingAgrees, Agrees, Held
<1>4. EffectOnce
  BY DEF Init, EffectOnce, None
<1> QED BY <1>1, <1>2, <1>3, <1>4 DEF IdentityInv

---------------------------------------------------------------------------

\* Steps that commit nothing leave what is kept alone.
LEMMA NothingCommitted ==
  ASSUME EffectOnce, UNCHANGED <<register, effects>>
  PROVE  EffectOnce'
BY DEF EffectOnce

\* A call agrees as long as nothing it stands on moves.
LEMMA OthersAgree ==
  ASSUME NEW c \in Calls, PendingAgrees, UNCHANGED register,
         \A u \in Calls \ {c} : phase'[u] = phase[u] /\ pend'[u] = pend[u] /\ answer'[u] = answer[u],
         Agrees(c)'
  PROVE  PendingAgrees'
<1>1. ASSUME NEW u \in Calls \ {c} PROVE Agrees(u)'
  BY DEF PendingAgrees, Agrees, Settled, Differs
<1> QED BY <1>1 DEF PendingAgrees

\* A call comes to an outcome that agrees with the row it found, or did not find.
LEMMA ComesAgrees ==
  ASSUME IdentityInv, NEW c \in Calls, phase[c] \in InTransaction \cup {"queueing"},
         NEW p \in Spoken, Comes(c, p), UNCHANGED <<register, answer>>,
         p.row # "none" => register[OpOf[c]] = None,
         p.row = "none" => /\ p.says \in {"applied", "refused"} => Settled(c, p.says)
                           /\ p.says = "reused" => Differs(c)
  PROVE  /\ phase'[c] \in {"auditing", "judging"} /\ pend'[c] = p
         /\ \A u \in Calls \ {c} : phase'[u] = phase[u] /\ pend'[u] = pend[u]
         /\ phase' \in [Calls -> Phases]
         /\ pend' \in [Calls -> Pending]
         /\ PendingAgrees'
<1>1. /\ pend' = [pend EXCEPT ![c] = p]
      /\ \E f \in {"auditing", "judging"} : phase' = [phase EXCEPT ![c] = f]
  BY DEF Comes, Goes
<1>2. p \in Pending /\ p.says # "none"
  BY DEF Spoken
<1>3. /\ phase'[c] \in {"auditing", "judging"} /\ pend'[c] = p
      /\ \A u \in Calls \ {c} : phase'[u] = phase[u] /\ pend'[u] = pend[u]
      /\ phase' \in [Calls -> Phases]
      /\ pend' \in [Calls -> Pending]
  BY <1>1, <1>2 DEF IdentityInv, TypeOK, InTransaction, Held, Phases
<1>4. answer'[c] = "none"
  BY DEF IdentityInv, PendingAgrees, Agrees, InTransaction, Held, Phases
<1>5. Agrees(c)'
  BY <1>2, <1>3, <1>4 DEF Agrees, Settled, Differs, Held
<1>6. PendingAgrees'
  BY <1>3, <1>5, OthersAgree DEF IdentityInv
<1> QED BY <1>3, <1>6

LEMMA SendKeepsRegister ==
  ASSUME IdentityInv, NEW c \in Calls, Send(c)
  PROVE  IdentityInv'
<1> USE DEF IdentityInv
<1>1. TypeOK'
  BY DEF Send, Goes, TypeOK, Phases, committed, locks, bounds
<1>2. DoorIsExclusive'
  BY DEF Send, Goes, TypeOK, DoorIsExclusive, InTransaction, Held, Phases, locks
<1>3. PendingAgrees'
  BY DEF Send, Goes, TypeOK, PendingAgrees, Agrees, committed, Settled, Differs, Held
<1>4. EffectOnce'
  BY NothingCommitted DEF Send, committed
<1> QED BY <1>1, <1>2, <1>3, <1>4

LEMMA EnterKeepsRegister ==
  ASSUME IdentityInv, NEW c \in Calls, Enter(c)
  PROVE  IdentityInv'
<1> USE DEF IdentityInv
<1>1. /\ phase[c] = "queueing" /\ DoorFree(c) /\ doors' = doors \cup {c}
      /\ UNCHANGED <<register, effects, chain, ended, tries, link, shares, keys, answer, bounds>>
  BY DEF Enter, committed
<1>2. CASE register[OpOf[c]] = None /\ phase' = [phase EXCEPT ![c] = "authorising"] /\ UNCHANGED pend
  <2>1. TypeOK'
    BY <1>1, <1>2 DEF TypeOK, bounds, InTransaction, Phases
  <2>2. DoorIsExclusive'
    BY <1>1, <1>2 DEF TypeOK, DoorIsExclusive, InTransaction, Held, Phases, DoorFree
  <2>3. Agrees(c)'
    BY <1>1, <1>2 DEF TypeOK, PendingAgrees, Agrees, Settled, Differs, Held
  <2>4. PendingAgrees'
    BY <1>1, <1>2, <2>3, OthersAgree DEF TypeOK
  <2> QED BY <1>1, <2>1, <2>2, <2>4, NothingCommitted
<1>3. ASSUME register[OpOf[c]] # None, NEW p \in Stored(c), Comes(c, p) PROVE IdentityInv'
  <2>1. /\ p \in Spoken /\ p.row = "none"
        /\ p.says \in {"applied", "refused"} => Settled(c, p.says)
        /\ p.says = "reused" => Differs(c)
    BY <1>3, StoredAgrees
  <2>2. /\ phase'[c] \in {"auditing", "judging"}
        /\ \A u \in Calls \ {c} : phase'[u] = phase[u]
        /\ phase' \in [Calls -> Phases]
        /\ pend' \in [Calls -> Pending]
        /\ PendingAgrees'
    BY <1>1, <1>3, <2>1, ComesAgrees
  <2>3. TypeOK'
    BY <1>1, <2>2 DEF TypeOK, bounds
  <2>4. DoorIsExclusive'
    BY <1>1, <2>2 DEF TypeOK, DoorIsExclusive, InTransaction, Held, Phases, DoorFree
  <2> QED BY <1>1, <2>2, <2>3, <2>4, NothingCommitted
<1> QED BY <1>2, <1>3 DEF Enter, Goes

\* Inside its transaction a call goes on, or comes to an outcome, and commits nothing.
LEMMA GoingOnKeepsRegister ==
  ASSUME IdentityInv, NEW c \in Calls, phase[c] \in InTransaction, PendingAgrees',
         \A u \in Calls \ {c} : phase'[u] = phase[u],
         phase'[c] \in InTransaction,
         phase' \in [Calls -> Phases],
         pend' \in [Calls -> Pending],
         link' \subseteq Calls, shares' \subseteq Calls, keys' \subseteq Calls,
         UNCHANGED <<committed, tries, doors, answer, bounds>>
  PROVE  IdentityInv'
<1>1. TypeOK'
  BY DEF IdentityInv, TypeOK, committed, bounds
<1>2. DoorIsExclusive'
  BY DEF IdentityInv, DoorIsExclusive
<1>3. EffectOnce'
  BY NothingCommitted DEF IdentityInv, committed
<1> QED BY <1>1, <1>2, <1>3 DEF IdentityInv

LEMMA AuthoriseKeepsRegister ==
  ASSUME IdentityInv, NEW c \in Calls, Authorise(c)
  PROVE  IdentityInv'
<1>1. /\ phase[c] = "authorising" /\ phase[c] \in InTransaction
      /\ UNCHANGED <<committed, register, tries, doors, link, shares, keys, answer, bounds>>
  BY DEF Authorise, locks, committed, InTransaction
<1>2. link' \subseteq Calls /\ shares' \subseteq Calls /\ keys' \subseteq Calls
  BY <1>1 DEF IdentityInv, TypeOK
<1>3. CASE phase' = [phase EXCEPT ![c] = "working"] /\ UNCHANGED pend
  <2>1. Agrees(c)'
    BY <1>1, <1>3 DEF IdentityInv, TypeOK, PendingAgrees, Agrees, Settled, Differs, Held
  <2>2. PendingAgrees'
    BY <1>1, <1>3, <2>1, OthersAgree DEF IdentityInv, TypeOK
  <2>3. /\ \A u \in Calls \ {c} : phase'[u] = phase[u]
        /\ phase'[c] \in InTransaction /\ pend' \in [Calls -> Pending]
        /\ phase' \in [Calls -> Phases]
    BY <1>3 DEF IdentityInv, TypeOK, InTransaction, Phases
  <2> QED BY <1>1, <1>2, <2>2, <2>3, GoingOnKeepsRegister
<1>4. ASSUME NEW p \in {Refused, Unheld("later")}, Comes(c, p) PROVE IdentityInv'
  <2>1. register[OpOf[c]] = None
    BY <1>1 DEF IdentityInv, PendingAgrees, Agrees
  <2>2. /\ phase'[c] \in {"auditing", "judging"}
        /\ \A u \in Calls \ {c} : phase'[u] = phase[u]
        /\ phase' \in [Calls -> Phases]
        /\ pend' \in [Calls -> Pending]
        /\ PendingAgrees'
    BY <1>1, <1>4, <2>1, ComesAgrees, RefusalsAreSpoken
  <2>3. phase'[c] \in InTransaction
    BY <2>2 DEF InTransaction, Held, Phases
  <2> QED BY <1>1, <1>2, <2>2, <2>3, GoingOnKeepsRegister
<1> QED BY <1>3, <1>4 DEF Authorise, Unprepared, Goes

LEMMA WorkKeepsRegister ==
  ASSUME IdentityInv, NEW c \in Calls, Work(c)
  PROVE  IdentityInv'
<1>1. PICK p \in Outcomes(c) : Comes(c, p) /\ shares' \in {shares, shares \cup {c}}
  BY DEF Work
<1>2. /\ phase[c] = "working" /\ phase[c] \in InTransaction
      /\ UNCHANGED <<committed, register, tries, doors, link, keys, answer, bounds>>
  BY DEF Work, committed, InTransaction
<1>3. link' \subseteq Calls /\ shares' \subseteq Calls /\ keys' \subseteq Calls
  BY <1>1, <1>2 DEF IdentityInv, TypeOK
<1>4. p \in Spoken /\ (p.row = "none" => p.says \notin {"applied", "refused", "reused"})
  BY OutcomesArePending
<1>5. register[OpOf[c]] = None
  BY <1>2 DEF IdentityInv, PendingAgrees, Agrees
<1>6. /\ phase'[c] \in {"auditing", "judging"}
      /\ \A u \in Calls \ {c} : phase'[u] = phase[u]
      /\ phase' \in [Calls -> Phases]
      /\ pend' \in [Calls -> Pending]
      /\ PendingAgrees'
  BY <1>1, <1>2, <1>4, <1>5, ComesAgrees
<1>7. phase'[c] \in InTransaction
  BY <1>6 DEF InTransaction, Held, Phases
<1> QED BY <1>2, <1>3, <1>6, <1>7, GoingOnKeepsRegister

LEMMA AuditKeepsRegister ==
  ASSUME IdentityInv, NEW c \in Calls, Audit(c)
  PROVE  IdentityInv'
<1>1. /\ phase[c] = "auditing" /\ phase[c] \in InTransaction /\ link' = {c}
      /\ phase' = [phase EXCEPT ![c] = "judging"]
      /\ UNCHANGED <<committed, register, tries, doors, shares, keys, pend, answer, bounds>>
  BY DEF Audit, Goes, committed, InTransaction, Held, Phases
<1>2. /\ link' \subseteq Calls /\ shares' \subseteq Calls /\ keys' \subseteq Calls
      /\ pend' \in [Calls -> Pending] /\ phase'[c] \in InTransaction
      /\ \A u \in Calls \ {c} : phase'[u] = phase[u]
      /\ phase' \in [Calls -> Phases]
  BY <1>1 DEF IdentityInv, TypeOK, InTransaction, Held, Phases
<1>3. Agrees(c)'
  BY <1>1 DEF IdentityInv, TypeOK, PendingAgrees, Agrees, Settled, Differs, Held
<1>4. PendingAgrees'
  BY <1>1, <1>2, <1>3, OthersAgree DEF IdentityInv
<1> QED BY <1>1, <1>2, <1>4, GoingOnKeepsRegister

LEMMA JudgeKeepsRegister ==
  ASSUME IdentityInv, NEW c \in Calls, Judge(c)
  PROVE  IdentityInv'
<1>1. /\ phase[c] = "judging" /\ phase[c] \in InTransaction
      /\ UNCHANGED <<committed, register, tries, doors, answer, bounds>>
  BY DEF Judge, committed, InTransaction, Held, Phases
<1>2. link' \subseteq Calls /\ shares' \subseteq Calls /\ keys' \subseteq Calls
  BY DEF Judge, IdentityInv, TypeOK
<1>3. CASE phase' = [phase EXCEPT ![c] = "committing"] /\ UNCHANGED pend
  <2>1. Agrees(c)'
    BY <1>1, <1>3 DEF IdentityInv, TypeOK, PendingAgrees, Agrees, Settled, Differs, Held
  <2>2. PendingAgrees'
    BY <1>1, <1>3, <2>1, OthersAgree DEF IdentityInv, TypeOK
  <2>3. /\ \A u \in Calls \ {c} : phase'[u] = phase[u]
        /\ phase'[c] \in InTransaction /\ pend' \in [Calls -> Pending]
        /\ phase' \in [Calls -> Phases]
    BY <1>3 DEF IdentityInv, TypeOK, InTransaction, Held, Phases
  <2> QED BY <1>1, <1>2, <2>2, <2>3, GoingOnKeepsRegister
<1>4. CASE Comes(c, TooLate(c))
  <2> DEFINE p == TooLate(c)
  <2>0. /\ p \in Spoken /\ p.row \in {"none", "refused"}
        /\ p.row = "none" => p.says \in {"withheld", "later"}
        /\ p.row = "refused" => pend[c].row = "applied"
    BY TooLateIsARefusal, RefusalsAreSpoken DEF IdentityInv, TypeOK
  <2>1. p.row # "none" => register[OpOf[c]] = None
    BY <1>1, <2>0 DEF IdentityInv, PendingAgrees, Agrees, Held
  <2> HIDE DEF p
  <2>2. /\ phase'[c] \in {"auditing", "judging"}
        /\ \A u \in Calls \ {c} : phase'[u] = phase[u]
        /\ phase' \in [Calls -> Phases]
        /\ pend' \in [Calls -> Pending]
        /\ PendingAgrees'
    BY <1>1, <1>4, <2>0, <2>1, ComesAgrees DEF p
  <2>3. phase'[c] \in InTransaction
    BY <2>2 DEF InTransaction, Held, Phases
  <2> QED BY <1>1, <1>2, <2>2, <2>3, GoingOnKeepsRegister
<1> QED BY <1>3, <1>4 DEF Judge, Goes

\* What a commit adds to the chain: the call's own events, numbered from its own record on.
LEMMA EventsAreRows ==
  ASSUME TypeOK, NEW c \in Calls, NEW n \in 0..(MaxCarried + 1),
         NEW outcome \in {"applied", "refused", "unnamed", "replayed", "failed"}
  PROVE  /\ Events(c, outcome, n) \in Seq(EventRows)
         /\ Len(Events(c, outcome, n)) = n
         /\ \A k \in 1..n : Events(c, outcome, n)[k] =
              [call |-> c, op |-> OpOf[c], outcome |-> outcome, record |-> k - 1]
<1>1. /\ MaxCarried \in Nat /\ OpOf[c] \in Ops /\ n \in Nat
  BY OperationRegisterAssumption
<1>2. ASSUME NEW k \in 1..n
      PROVE  [call |-> c, op |-> OpOf[c], outcome |-> outcome, record |-> k - 1] \in EventRows
  BY <1>1 DEF EventRows
<1> QED BY <1>1, <1>2 DEF Events

\* The row, the effect and the events land together: the operation was unsettled until now.
LEMMA LandsKeepsEffectOnce ==
  ASSUME IdentityInv, NEW c \in Calls, phase[c] = "committing", Lands(c)
  PROVE  /\ EffectOnce'
         /\ register' \in [Ops -> Rows] /\ effects' \subseteq Calls /\ chain' \in Seq(EventRows)
         /\ ended' \subseteq Entries \X Parts
         /\ \A o \in Ops : register'[o] = register[o] \/ (register[o] = None /\ o = OpOf[c])
         /\ pend[c].says \in {"applied", "refused"} =>
              register'[OpOf[c]] = [outcome |-> pend[c].says, payload |-> PayloadOf[c]]
         /\ pend[c].says = "reused" =>
              register'[OpOf[c]] # None /\ register'[OpOf[c]].payload # PayloadOf[c]
<1> USE OperationRegisterAssumption
<1>1. /\ pend[c] \in Pending /\ pend[c].says # "none"
      /\ pend[c].row # "none" => register[OpOf[c]] = None
      /\ pend[c].row = "none" => /\ pend[c].says \in {"applied", "refused"} => Settled(c, pend[c].says)
                                 /\ pend[c].says = "reused" => Differs(c)
  BY DEF IdentityInv, TypeOK, PendingAgrees, Agrees, Held
<1>2. /\ pend[c].row \in {"none", "applied", "refused"}
      /\ pend[c].row # "none" => pend[c].says = pend[c].row
      /\ pend[c].keeps => pend[c].row # "none"
      /\ pend[c].row = "applied" => pend[c].keeps
      /\ pend[c].event \in {"applied", "refused", "unnamed", "replayed"}
      /\ pend[c].tells \in 0..(MaxCarried + 1)
  BY <1>1, PendingShapes
<1>3. /\ OpOf[c] \in Ops /\ PayloadOf[c] \in Payloads
      /\ register \in [Ops -> Rows] /\ effects \subseteq Calls /\ chain \in Seq(EventRows)
  BY DEF IdentityInv, TypeOK
<1>4. \A d \in effects : register[OpOf[d]] # None
  BY DEF IdentityInv, EffectOnce, None
<1>5. chain' \in Seq(EventRows)
  <2>1. Events(c, pend[c].event, pend[c].tells) \in Seq(EventRows)
    BY <1>2, EventsAreRows DEF IdentityInv
  <2> QED BY <1>3, <2>1 DEF Lands
<1>6. ended' \subseteq Entries \X Parts
  BY DEF Lands, IdentityInv, TypeOK, Parts
<1>7. CASE pend[c].row = "none"
  <2>1. register' = register /\ effects' = effects
    BY <1>2, <1>7 DEF Lands
  <2>2. EffectOnce'
    BY <2>1, NothingCommitted DEF IdentityInv
  <2>3. /\ pend[c].says \in {"applied", "refused"} =>
             register'[OpOf[c]] = [outcome |-> pend[c].says, payload |-> PayloadOf[c]]
        /\ pend[c].says = "reused" =>
             register'[OpOf[c]] # None /\ register'[OpOf[c]].payload # PayloadOf[c]
    BY <1>1, <1>7, <2>1 DEF Settled, Differs
  <2> QED BY <1>3, <1>5, <1>6, <2>1, <2>2, <2>3
<1>8. CASE pend[c].row # "none"
  <2> DEFINE new == [outcome |-> pend[c].row, payload |-> PayloadOf[c]]
  <2>1. /\ register' = [register EXCEPT ![OpOf[c]] = new]
        /\ effects' = IF pend[c].keeps THEN effects \cup {c} ELSE effects
    BY <1>8 DEF Lands
  <2>2. new \in Rows /\ new # None
    BY <1>2, <1>3, <1>8 DEF Rows, None
  <2>3. \A d \in effects : OpOf[d] # OpOf[c]
    BY <1>1, <1>4, <1>8
  <2>4. EffectOnce'
    <3>1. \A u, d \in effects' : OpOf[u] = OpOf[d] => u = d
      BY <2>1, <2>3 DEF IdentityInv, EffectOnce
    <3>2. ASSUME NEW o \in Ops, register'[o].outcome = "applied"
          PROVE  \E d \in effects' : OpOf[d] = o
      <4>1. CASE o = OpOf[c]
        BY <1>2, <1>3, <2>1, <3>2, <4>1
      <4>2. CASE o # OpOf[c]
        BY <1>3, <2>1, <3>2, <4>2 DEF IdentityInv, EffectOnce
      <4> QED BY <4>1, <4>2
    <3>3. \A d \in effects' : register'[OpOf[d]].payload = PayloadOf[d] /\ register'[OpOf[d]] # None
      BY <1>3, <1>4, <2>1, <2>2, <2>3 DEF IdentityInv, EffectOnce
    <3> QED BY <3>1, <3>2, <3>3 DEF EffectOnce, None
  <2>5. register' \in [Ops -> Rows] /\ effects' \subseteq Calls
    BY <1>3, <2>1, <2>2
  <2>6. \A o \in Ops : register'[o] = register[o] \/ (register[o] = None /\ o = OpOf[c])
    BY <1>1, <1>3, <1>8, <2>1
  <2>7. register'[OpOf[c]] = [outcome |-> pend[c].says, payload |-> PayloadOf[c]]
    BY <1>2, <1>3, <1>8, <2>1
  <2> QED BY <1>2, <1>5, <1>6, <1>8, <2>4, <2>5, <2>6, <2>7
<1> QED BY <1>7, <1>8

\* Nobody else who stands at the same identity is past its door.
LEMMA LandingLeavesOthers ==
  ASSUME IdentityInv, NEW c \in Calls, phase[c] = "committing", Lands(c),
         \A u \in Calls \ {c} : phase'[u] = phase[u] /\ pend'[u] = pend[u] /\ answer'[u] = answer[u],
         Agrees(c)'
  PROVE  PendingAgrees'
<1>1. ASSUME NEW u \in Calls \ {c} PROVE Agrees(u)'
  <2>1. \A o \in Ops : register'[o] = register[o] \/ (register[o] = None /\ o = OpOf[c])
    BY LandsKeepsEffectOnce
  <2>2. phase[u] \in InTransaction => OpOf[u] # OpOf[c]
    BY DEF IdentityInv, DoorIsExclusive, InTransaction, Held
  <2>3. OpOf[u] \in Ops /\ Agrees(u)
    BY OperationRegisterAssumption DEF IdentityInv, PendingAgrees
  <2>4. CASE phase[u] \in InTransaction
    <3>1. register'[OpOf[u]] = register[OpOf[u]]
      BY <2>1, <2>2, <2>3, <2>4
    <3> QED BY <2>3, <3>1 DEF Agrees, Settled, Differs
  <2>5. CASE phase[u] \notin InTransaction
    <3>1. register[OpOf[u]] # None => register'[OpOf[u]] = register[OpOf[u]]
      BY <2>1, <2>3
    <3>2. \A a : Settled(u, a) => register[OpOf[u]] # None
      BY DEF Settled, None
    <3> QED BY <2>3, <2>5, <3>1, <3>2 DEF Agrees, Settled, Differs, InTransaction
  <2> QED BY <2>4, <2>5
<1> QED BY <1>1 DEF PendingAgrees

LEMMA CommitKeepsRegister ==
  ASSUME IdentityInv, NEW c \in Calls, Commit(c)
  PROVE  IdentityInv'
<1>1. /\ phase[c] = "committing" /\ Lands(c) /\ LetGo(c)
      /\ phase' = [phase EXCEPT ![c] = "answering"]
      /\ UNCHANGED <<tries, pend, answer, bounds>>
  BY DEF Commit, Goes
<1>2. /\ EffectOnce'
      /\ register' \in [Ops -> Rows] /\ effects' \subseteq Calls /\ chain' \in Seq(EventRows)
      /\ ended' \subseteq Entries \X Parts
      /\ pend[c].says \in {"applied", "refused"} =>
           register'[OpOf[c]] = [outcome |-> pend[c].says, payload |-> PayloadOf[c]]
      /\ pend[c].says = "reused" =>
           register'[OpOf[c]] # None /\ register'[OpOf[c]].payload # PayloadOf[c]
  BY <1>1, LandsKeepsEffectOnce
<1>3. TypeOK'
  BY <1>1, <1>2 DEF IdentityInv, TypeOK, Phases, LetGo, bounds
<1>4. DoorIsExclusive'
  BY <1>1 DEF IdentityInv, TypeOK, DoorIsExclusive, LetGo, InTransaction, Held
<1>5. PendingAgrees'
  <2>1. phase'[c] = "answering" /\ pend'[c] = pend[c] /\ pend[c].says # "none" /\ answer'[c] = "none"
    BY <1>1 DEF IdentityInv, TypeOK, PendingAgrees, Agrees, Held
  <2>2. Agrees(c)'
    BY <1>2, <2>1 DEF Agrees, Settled, Differs, Held
  <2> QED BY <1>1, <2>2, LandingLeavesOthers DEF IdentityInv, TypeOK
<1> QED BY <1>2, <1>3, <1>4, <1>5 DEF IdentityInv

\* A call that is over, or that starts again or records its failure, stands on nothing.
LEMMA NothingAgrees ==
  ASSUME IdentityInv, NEW c \in Calls,
         \/ phase' = [phase EXCEPT ![c] = "over"]
         \/ /\ \E f \in {"door", "queueing", "failing"} : phase' = [phase EXCEPT ![c] = f]
            /\ phase[c] # "over" /\ UNCHANGED answer
  PROVE  Agrees(c)'
BY DEF IdentityInv, TypeOK, PendingAgrees, Agrees, Held

LEMMA TellKeepsRegister ==
  ASSUME IdentityInv, NEW c \in Calls, phase[c] \notin InTransaction,
         NEW a \in {"applied", "refused", "later", "withheld", "reused", "fault", "lost"},
         Tell(c, a), chain' \in Seq(EventRows),
         UNCHANGED <<register, effects, ended, tries, locks, bounds>>
  PROVE  IdentityInv'
<1> USE DEF IdentityInv
<1>1. TypeOK'
  BY NothingIsPending DEF Tell, Goes, TypeOK, Phases, locks, bounds
<1>2. DoorIsExclusive'
  BY DEF Tell, Goes, TypeOK, DoorIsExclusive, InTransaction, Held, locks
<1>3. PendingAgrees'
  BY NothingAgrees, OthersAgree DEF Tell, Goes, TypeOK
<1>4. EffectOnce'
  BY NothingCommitted
<1> QED BY <1>1, <1>2, <1>3, <1>4

LEMMA AdmitKeepsRegister ==
  ASSUME IdentityInv, NEW c \in Calls, Admit(c)
  PROVE  IdentityInv'
<1>1. /\ phase[c] = "door" /\ phase[c] \notin InTransaction
      /\ UNCHANGED <<register, effects, chain, ended, tries, locks, bounds>>
  BY DEF Admit, committed, InTransaction, Held
<1>2. CASE phase' = [phase EXCEPT ![c] = "queueing"] /\ UNCHANGED <<pend, answer>>
  <2> USE DEF IdentityInv
  <2>1. TypeOK'
    BY <1>1, <1>2 DEF TypeOK, Phases, locks, bounds
  <2>2. DoorIsExclusive'
    BY <1>1, <1>2 DEF TypeOK, DoorIsExclusive, InTransaction, Held, locks
  <2>3. PendingAgrees'
    BY <1>1, <1>2, NothingAgrees, OthersAgree DEF TypeOK
  <2>4. EffectOnce'
    BY <1>1, NothingCommitted
  <2> QED BY <2>1, <2>2, <2>3, <2>4
<1>3. CASE Tell(c, "later")
  BY <1>1, <1>3, TellKeepsRegister DEF IdentityInv, TypeOK
<1> QED BY <1>2, <1>3 DEF Admit, Goes

LEMMA AnswerKeepsRegister ==
  ASSUME IdentityInv, NEW c \in Calls, Answer(c)
  PROVE  IdentityInv'
<1>1. pend[c] \in Pending /\ pend[c].says # "none" /\ phase[c] = "answering"
  BY DEF Answer, IdentityInv, TypeOK, PendingAgrees, Agrees
<1>2. pend[c].says \in {"applied", "refused", "later", "withheld", "reused"}
  BY <1>1, PendingShapes
<1>3. phase[c] \notin InTransaction
  BY <1>1 DEF InTransaction, Held
<1> QED BY <1>2, <1>3, TellKeepsRegister DEF Answer, committed, IdentityInv, TypeOK

LEMMA RecordFailureKeepsRegister ==
  ASSUME IdentityInv, NEW c \in Calls, RecordFailure(c)
  PROVE  IdentityInv'
<1>1. 1 \in 0..(MaxCarried + 1)
  BY OperationRegisterAssumption
<1>2. Events(c, "failed", 1) \in Seq(EventRows)
  BY <1>1, EventsAreRows DEF IdentityInv
<1>3. chain \in Seq(EventRows)
  BY DEF IdentityInv, TypeOK
<1>4. chain' = chain \o Events(c, "failed", 1) \/ chain' = chain
  BY DEF RecordFailure
<1>5. chain' \in Seq(EventRows)
  <2>1. chain \o Events(c, "failed", 1) \in Seq(EventRows)
    BY <1>2, <1>3
  <2> QED BY <1>3, <1>4, <2>1
<1>6. /\ phase[c] \notin InTransaction /\ Tell(c, "fault")
      /\ UNCHANGED <<register, effects, ended, tries, locks, bounds>>
  BY DEF RecordFailure, InTransaction, Held
<1> QED BY <1>5, <1>6, TellKeepsRegister

\* A transaction that rolls back or ends keeps what landed and lets its locks go.
LEMMA RaisedKeepsRegister ==
  ASSUME IdentityInv, NEW c \in Calls, phase[c] \in InTransaction, NEW again \in BOOLEAN,
         LetGo(c), Raised(c, again), answer' = answer,
         EffectOnce', register' \in [Ops -> Rows], effects' \subseteq Calls, chain' \in Seq(EventRows),
         ended' \subseteq Entries \X Parts, faults' \in 0..MaxFaults, turns' \in 0..MaxTurns,
         Agrees(c)' => PendingAgrees'
  PROVE  IdentityInv'
<1>1. /\ pend' = [pend EXCEPT ![c] = Nothing]
      /\ \/ /\ phase' = [phase EXCEPT ![c] = "door"] /\ tries[c] = 0
            /\ tries' = [tries EXCEPT ![c] = @ + 1]
         \/ phase' = [phase EXCEPT ![c] = "failing"] /\ UNCHANGED tries
  BY DEF Raised, Again, Goes
<1>2. TypeOK'
  <2>1. phase' \in [Calls -> Phases] /\ pend' \in [Calls -> Pending] /\ tries' \in [Calls -> {0, 1}]
    BY <1>1, NothingIsPending DEF IdentityInv, TypeOK, Phases
  <2>2. doors' \subseteq Calls /\ link' \subseteq Calls /\ shares' \subseteq Calls /\ keys' \subseteq Calls
    BY DEF IdentityInv, TypeOK, LetGo
  <2> QED BY <2>1, <2>2 DEF IdentityInv, TypeOK
<1>3. DoorIsExclusive'
  BY <1>1 DEF IdentityInv, TypeOK, DoorIsExclusive, LetGo, InTransaction, Held
<1>4. Agrees(c)'
  <2>1. phase[c] # "over"
    BY DEF InTransaction, Held
  <2> QED BY <1>1, <2>1, NothingAgrees
<1> QED BY <1>2, <1>3, <1>4 DEF IdentityInv

LEMMA RaiseKeepsRegister ==
  ASSUME IdentityInv, NEW c \in Calls, NEW again \in BOOLEAN, Raise(c, again)
  PROVE  IdentityInv'
<1>1. /\ phase[c] \in InTransaction /\ LetGo(c) /\ Raised(c, again)
      /\ UNCHANGED <<register, effects, chain, ended, answer, turns>>
      /\ faults < MaxFaults /\ faults' = faults + 1
  BY DEF Raise, committed
<1>2. \A u \in Calls \ {c} : phase'[u] = phase[u] /\ pend'[u] = pend[u] /\ answer'[u] = answer[u]
  BY <1>1 DEF IdentityInv, TypeOK, Raised, Goes
<1>3. Agrees(c)' => PendingAgrees'
  BY <1>1, <1>2, OthersAgree DEF IdentityInv
<1>4. EffectOnce'
  BY <1>1, NothingCommitted DEF IdentityInv
<1>5. /\ register' \in [Ops -> Rows] /\ effects' \subseteq Calls /\ chain' \in Seq(EventRows)
      /\ ended' \subseteq Entries \X Parts
      /\ faults' \in 0..MaxFaults /\ turns' \in 0..MaxTurns
  BY <1>1, OperationRegisterAssumption DEF IdentityInv, TypeOK
<1> QED BY <1>1, <1>3, <1>4, <1>5, RaisedKeepsRegister

LEMMA LoseAcknowledgementKeepsRegister ==
  ASSUME IdentityInv, NEW c \in Calls, LoseAcknowledgement(c)
  PROVE  IdentityInv'
<1>1. /\ phase[c] = "committing" /\ Lands(c) /\ LetGo(c) /\ Raised(c, FALSE)
      /\ answer' = answer /\ turns' = turns
      /\ faults < MaxFaults /\ faults' = faults + 1
  BY DEF LoseAcknowledgement
<1>2. \A u \in Calls \ {c} : phase'[u] = phase[u] /\ pend'[u] = pend[u] /\ answer'[u] = answer[u]
  BY <1>1 DEF IdentityInv, TypeOK, Raised, Goes
<1>3. Agrees(c)' => PendingAgrees'
  BY <1>1, <1>2, LandingLeavesOthers
<1>4. /\ EffectOnce' /\ register' \in [Ops -> Rows] /\ effects' \subseteq Calls
      /\ chain' \in Seq(EventRows) /\ ended' \subseteq Entries \X Parts
  BY <1>1, LandsKeepsEffectOnce
<1>5. faults' \in 0..MaxFaults /\ turns' \in 0..MaxTurns
  BY <1>1, OperationRegisterAssumption DEF IdentityInv, TypeOK
<1>6. phase[c] \in InTransaction
  BY <1>1 DEF InTransaction, Held
<1> QED BY <1>1, <1>3, <1>4, <1>5, <1>6, RaisedKeepsRegister

LEMMA CrashKeepsRegister ==
  ASSUME IdentityInv, NEW c \in Calls, Crash(c)
  PROVE  IdentityInv'
<1>1. /\ LetGo(c) /\ phase' = [phase EXCEPT ![c] = "over"]
      /\ pend' = [pend EXCEPT ![c] = Nothing] /\ answer' = [answer EXCEPT ![c] = "lost"]
      /\ UNCHANGED <<register, effects, chain, ended, tries, bounds>>
  BY DEF Crash, Tell, Goes, committed
<1>2. TypeOK'
  BY <1>1, NothingIsPending DEF IdentityInv, TypeOK, Phases, LetGo, bounds
<1>3. DoorIsExclusive'
  BY <1>1 DEF IdentityInv, TypeOK, DoorIsExclusive, LetGo, InTransaction, Held
<1>4. PendingAgrees'
  BY <1>1, NothingAgrees, OthersAgree DEF IdentityInv, TypeOK
<1>5. EffectOnce'
  BY <1>1, NothingCommitted DEF IdentityInv
<1> QED BY <1>2, <1>3, <1>4, <1>5 DEF IdentityInv

\* The ways a part of a standing turns, whoever's: nothing else moves.
Turns == (\E e \in Entries : Turn(e)) \/ EndAccess \/ StopAgent

LEMMA TurnsAlone ==
  ASSUME TypeOK, Turns
  PROVE  /\ UNCHANGED <<register, effects, chain, phase, tries, locks, pend, answer, faults>>
         /\ ended' \subseteq Entries \X Parts /\ turns' \in 0..MaxTurns
BY OperationRegisterAssumption
   DEF Turns, Turn, EndSession, RevokeGrant, EndAccess, StopAgent, RunOut, Regrant, Ends, TypeOK,
       Entries, Parts

LEMMA NextKeepsIdentity == IdentityInv /\ [Next]_vars => IdentityInv'
<1> SUFFICES ASSUME IdentityInv, [Next]_vars PROVE IdentityInv'
  OBVIOUS
<1>1. CASE \E c \in Calls : Send(c) \/ Runs(c) \/ Crash(c) \/ LoseAcknowledgement(c)
  BY <1>1, SendKeepsRegister, AdmitKeepsRegister, EnterKeepsRegister, AuthoriseKeepsRegister,
     WorkKeepsRegister, AuditKeepsRegister, JudgeKeepsRegister, CommitKeepsRegister,
     AnswerKeepsRegister, RecordFailureKeepsRegister, CrashKeepsRegister,
     LoseAcknowledgementKeepsRegister DEF Runs
<1>2. CASE \E c \in Calls, again \in BOOLEAN : Raise(c, again)
  BY <1>2, RaiseKeepsRegister
<1>3. CASE Turns
  <2>1. /\ UNCHANGED <<register, effects, chain, phase, tries, locks, pend, answer, faults>>
        /\ ended' \subseteq Entries \X Parts /\ turns' \in 0..MaxTurns
    BY <1>3, TurnsAlone DEF IdentityInv
  <2>2. TypeOK'
    BY <2>1 DEF IdentityInv, TypeOK, locks
  <2> QED BY <2>1, <2>2 DEF IdentityInv, DoorIsExclusive, PendingAgrees, Agrees, Settled, Differs,
                            EffectOnce, locks
<1>4. CASE UNCHANGED vars
  BY <1>4 DEF vars, committed, locks, bounds, IdentityInv, TypeOK, DoorIsExclusive, PendingAgrees,
              Agrees, Settled, Differs, EffectOnce
<1> QED BY <1>1, <1>2, <1>3, <1>4 DEF Next, Finished, Turns

---------------------------------------------------------------------------

\* Who holds the chain, the shared rows and the keys, and what stands by it: call by call.
Stands(c) ==
  /\ c \in link <=> phase[c] \in {"judging", "committing"} /\ pend[c].tells > 0
  /\ phase[c] = "auditing" => pend[c].tells > 0
  /\ IsAgent(c) /\ phase[c] \in Held /\ pend[c].keeps /\ pend[c].asks # {} => c \in shares
  /\ phase[c] = "committing" /\ "session" \in Firm(c) => c \in keys
  /\ phase[c] = "committing" => ~Gone(c, Firm(c))
  /\ phase[c] \in Held /\ EndsOwnAccess(pend[c]) => ~IsAgent(c) /\ pend[c].tells > 0

LEMMA StandingByCall ==
  StandingInv <=> (\A c \in Calls : Stands(c)) /\ (\A c, d \in link : c = d)
BY DEF StandingInv, ChainIsHeld, SharesAreHeld, KeysAreHeld, CommitsStanding, OwnEndingIsTold, Stands

LEMMA InitStands == Init => StandingInv
BY DEF Init, StandingInv, ChainIsHeld, SharesAreHeld, KeysAreHeld, CommitsStanding, OwnEndingIsTold,
       Held

\* One call steps, and what the others hold of their standing is not disturbed.
LEMMA OneStands ==
  ASSUME StandingInv, NEW c \in Calls,
         \A u \in Calls \ {c} : phase'[u] = phase[u] /\ pend'[u] = pend[u],
         \A u \in Calls \ {c} : (u \in link' <=> u \in link) /\ (u \in shares => u \in shares')
                                /\ (u \in keys => u \in keys'),
         \A u \in Calls \ {c} : phase[u] = "committing" =>
           \A p \in Firm(u) : <<EntryOf[u], p>> \in ended' => <<EntryOf[u], p>> \in ended,
         link' \subseteq link \/ link' = {c},
         Stands(c)'
  PROVE  StandingInv'
<1>1. ASSUME NEW u \in Calls \ {c} PROVE Stands(u)'
  <2>1. /\ Stands(u) /\ phase'[u] = phase[u] /\ pend'[u] = pend[u]
        /\ Firm(u)' = Firm(u)
    BY StandingByCall DEF Firm
  <2>2. phase[u] = "committing" => ~Gone(u, Firm(u))'
    BY <2>1 DEF Stands, Gone
  <2> QED BY <2>1, <2>2 DEF Stands
<1>2. \A u, d \in link' : u = d
  BY StandingByCall
<1>3. \A u \in Calls : Stands(u)'
  BY <1>1
<1> QED BY <1>2, <1>3 DEF StandingInv, ChainIsHeld, SharesAreHeld, KeysAreHeld, CommitsStanding,
                          OwnEndingIsTold, Stands

\* Only the handler's outcome keeps something, and only a person's with rows beyond its own
\* is asked about the session alone; that one tells the chain.
LEMMA StoredKeepsNothing ==
  ASSUME NEW c \in Calls, NEW p \in Stored(c)
  PROVE  ~p.keeps /\ ~EndsOwnAccess(p)
<1>1. /\ Prepared(c) # {"session"} /\ Asked(c) # {"session"} /\ {} # {"session"}
  BY DEF Prepared, Asked, Parts
<1>2. \/ p = Unheld("reused") \/ p = Unheld("withheld")
      \/ \E outcome, asks : p = Replayed(c, outcome, asks) /\ asks \in {{}, Prepared(c), Asked(c)}
  BY DEF Stored
<1> QED BY <1>1, <1>2 DEF Unheld, Replayed, Outcome, EndsOwnAccess

LEMMA OwnEndingIsAPersons ==
  ASSUME NEW c \in Calls, NEW p \in Outcomes(c), EndsOwnAccess(p)
  PROVE  ~IsAgent(c) /\ p.tells > 0
<1>1. /\ Asked(c) # {"session"} /\ Parts \ {"grant"} # {"session"} /\ {"session"} \subseteq Parts
      /\ Asked(c) \subseteq Parts /\ Asked(c) \ {"grant"} \subseteq Parts
      /\ Asked(c) \ {"grant"} # {"session"}
  BY DEF Asked, Parts
<1>2. p # Refused /\ p # Unheld("later") /\ p # Retained({}) /\ p # Retained(Parts \ {"grant"})
      /\ p # Retained(Asked(c))
  BY <1>1 DEF EndsOwnAccess, Refused, Unheld, Retained, Outcome
<1>3. p \notin Applied(c, Asked(c)) /\ p \notin Applied(c, Asked(c) \ {"grant"})
  BY <1>1, AppliedIsSpoken DEF EndsOwnAccess
<1>4. ~IsAgent(c) /\ c \notin Self /\ p \in Applied(c, {"session"})
  BY <1>2, <1>3 DEF Outcomes
<1>5. c \in Audited
  BY <1>4, OperationRegisterAssumption
<1> QED BY <1>1, <1>4, <1>5, AppliedIsSpoken

\* A call outside its transaction, or at the start of one, stands on nothing yet.
LEMMA EndingStands ==
  ASSUME IdentityInv, StandingInv, NEW c \in Calls, phase'[c] \notin Held,
         \A u \in Calls \ {c} : phase'[u] = phase[u] /\ pend'[u] = pend[u],
         \/ LetGo(c)
         \/ UNCHANGED <<link, shares, keys>> /\ c \notin link,
         \A u \in Calls \ {c} : phase[u] = "committing" =>
           \A p \in Firm(u) : <<EntryOf[u], p>> \in ended' => <<EntryOf[u], p>> \in ended
  PROVE  StandingInv'
<1>1. /\ c \notin link' /\ link' \subseteq link
      /\ \A u \in Calls \ {c} : (u \in link' <=> u \in link) /\ (u \in shares => u \in shares')
                                /\ (u \in keys => u \in keys')
  BY DEF LetGo
<1>2. Stands(c)'
  BY <1>1 DEF Stands, Held
<1> QED BY <1>1, <1>2, OneStands

\* An outcome comes to a call that is not past its last look.
LEMMA ComingStands ==
  ASSUME IdentityInv, StandingInv, NEW c \in Calls, NEW p \in Spoken, Comes(c, p),
         UNCHANGED <<ended, keys>>,
         \A u \in Calls \ {c} : (u \in link' <=> u \in link) /\ (u \in shares => u \in shares'),
         c \notin link', link' \subseteq link,
         IsAgent(c) /\ p.keeps /\ p.asks # {} => c \in shares',
         EndsOwnAccess(p) => ~IsAgent(c) /\ p.tells > 0
  PROVE  StandingInv'
<1>1. /\ pend' = [pend EXCEPT ![c] = p]
      /\ phase' = [phase EXCEPT ![c] = IF p.tells > 0 THEN "auditing" ELSE "judging"]
  BY DEF Comes, Goes
<1>2. /\ pend'[c] = p /\ phase'[c] = IF p.tells > 0 THEN "auditing" ELSE "judging"
      /\ \A u \in Calls \ {c} : phase'[u] = phase[u] /\ pend'[u] = pend[u]
  BY <1>1 DEF IdentityInv, TypeOK
<1>3. Stands(c)'
  BY <1>2 DEF Stands
<1> QED BY <1>2, <1>3, OneStands

LEMMA EnterStands ==
  ASSUME IdentityInv, StandingInv, NEW c \in Calls, Enter(c)
  PROVE  StandingInv'
<1>1. phase[c] = "queueing" /\ UNCHANGED <<ended, link, shares, keys>>
  BY DEF Enter, committed
<1>2. c \notin link
  BY <1>1, StandingByCall DEF Stands
<1>3. CASE phase' = [phase EXCEPT ![c] = "authorising"] /\ UNCHANGED pend
  <2>1. phase'[c] \notin Held /\ \A u \in Calls \ {c} : phase'[u] = phase[u]
    BY <1>3 DEF IdentityInv, TypeOK, Held
  <2> QED BY <1>1, <1>2, <1>3, <2>1, EndingStands
<1>4. ASSUME register[OpOf[c]] # None, NEW p \in Stored(c), Comes(c, p) PROVE StandingInv'
  <2>1. p \in Spoken /\ ~p.keeps /\ ~EndsOwnAccess(p)
    BY <1>4, StoredAgrees, StoredKeepsNothing DEF IdentityInv
  <2> QED BY <1>1, <1>2, <1>4, <2>1, ComingStands
<1> QED BY <1>3, <1>4 DEF Enter, Goes

LEMMA AuthoriseStands ==
  ASSUME IdentityInv, StandingInv, NEW c \in Calls, Authorise(c)
  PROVE  StandingInv'
<1>1. phase[c] = "authorising" /\ UNCHANGED <<ended, link, shares, keys>>
  BY DEF Authorise, committed, locks
<1>2. c \notin link
  BY <1>1, StandingByCall DEF Stands
<1>3. CASE phase' = [phase EXCEPT ![c] = "working"] /\ UNCHANGED pend
  <2>1. phase'[c] \notin Held /\ \A u \in Calls \ {c} : phase'[u] = phase[u]
    BY <1>3 DEF IdentityInv, TypeOK, Held
  <2> QED BY <1>1, <1>2, <1>3, <2>1, EndingStands
<1>4. ASSUME NEW p \in {Refused, Unheld("later")}, Comes(c, p) PROVE StandingInv'
  <2>1. p \in Spoken /\ ~p.keeps /\ ~EndsOwnAccess(p)
    BY RefusalsAreSpoken DEF EndsOwnAccess
  <2> QED BY <1>1, <1>2, <1>4, <2>1, ComingStands
<1> QED BY <1>3, <1>4 DEF Authorise, Unprepared, Goes

LEMMA WorkStands ==
  ASSUME IdentityInv, StandingInv, NEW c \in Calls, Work(c)
  PROVE  StandingInv'
<1>1. PICK p \in Outcomes(c) :
        /\ Comes(c, p)
        /\ shares' = IF IsAgent(c) /\ p.asks # {} THEN shares \cup {c} ELSE shares
  BY DEF Work
<1>2. phase[c] = "working" /\ UNCHANGED <<ended, link, keys>>
  BY DEF Work, committed
<1>3. c \notin link
  BY <1>2, StandingByCall DEF Stands
<1>4. p \in Spoken /\ (EndsOwnAccess(p) => ~IsAgent(c) /\ p.tells > 0)
  BY OutcomesArePending, OwnEndingIsAPersons
<1> QED BY <1>1, <1>2, <1>3, <1>4, ComingStands

LEMMA AuditStands ==
  ASSUME IdentityInv, StandingInv, NEW c \in Calls, Audit(c)
  PROVE  StandingInv'
<1>1. /\ phase[c] = "auditing" /\ link = {} /\ link' = {c}
      /\ phase' = [phase EXCEPT ![c] = "judging"]
      /\ UNCHANGED <<ended, shares, keys, pend>>
  BY DEF Audit, Goes, committed
<1>2. phase'[c] = "judging" /\ \A u \in Calls \ {c} : phase'[u] = phase[u]
  BY <1>1 DEF IdentityInv, TypeOK
<1>3. Stands(c) /\ pend[c].tells > 0
  BY <1>1, StandingByCall DEF Stands
<1>4. Stands(c)'
  BY <1>1, <1>2, <1>3 DEF Stands, Held
<1> QED BY <1>1, <1>2, <1>4, OneStands

LEMMA JudgeStands ==
  ASSUME IdentityInv, StandingInv, NEW c \in Calls, Judge(c)
  PROVE  StandingInv'
<1>1. phase[c] = "judging" /\ ended' = ended /\ Stands(c)
  BY StandingByCall DEF Judge, committed
<1>2. ASSUME ~Gone(c, pend[c].asks), phase' = [phase EXCEPT ![c] = "committing"],
             keys' = IF HoldsKeys(c) THEN keys \cup {c} ELSE keys,
             UNCHANGED <<pend, link, shares>>
      PROVE  StandingInv'
  <2>1. phase'[c] = "committing" /\ \A u \in Calls \ {c} : phase'[u] = phase[u]
    BY <1>2 DEF IdentityInv, TypeOK
  <2>2. /\ Firm(c)' = Firm(c) /\ Firm(c) \subseteq pend[c].asks
        /\ "session" \in Firm(c) => HoldsKeys(c)
    BY <1>2 DEF Firm, HoldsKeys, EndsOwnAccess
  <2>3. ~Gone(c, Firm(c))'
    BY <1>1, <1>2, <2>2 DEF Gone
  <2>4. Stands(c)'
    BY <1>1, <1>2, <2>1, <2>2, <2>3 DEF Stands, Held
  <2> QED BY <1>1, <1>2, <2>1, <2>4, OneStands
<1>3. ASSUME NEW p \in {Refused, Unheld("withheld"), Unnamed}, Comes(c, p),
             link' = link \ {c}, shares' = shares \ {c}, UNCHANGED keys
      PROVE  StandingInv'
  <2>1. p \in Spoken /\ ~p.keeps /\ ~EndsOwnAccess(p)
    BY RefusalsAreSpoken DEF EndsOwnAccess
  <2> QED BY <1>1, <1>3, <2>1, ComingStands
<1>4. pend[c] \in Pending
  BY DEF IdentityInv, TypeOK
<1> QED BY <1>2, <1>3, <1>4, TooLateIsARefusal DEF Judge, Goes

\* What a landing ends is its own caller's, told on the chain: and whoever else is past its
\* last look on the same entry and holds to it would hold the chain too.
LEMMA LandingStands ==
  ASSUME IdentityInv, StandingInv, NEW c \in Calls, phase[c] = "committing", Lands(c), LetGo(c),
         phase'[c] \notin Held,
         \A u \in Calls \ {c} : phase'[u] = phase[u] /\ pend'[u] = pend[u]
  PROVE  StandingInv'
<1>1. ASSUME NEW u \in Calls \ {c}, phase[u] = "committing", NEW p \in Firm(u),
             <<EntryOf[u], p>> \in ended'
      PROVE  <<EntryOf[u], p>> \in ended
  <2>1. CASE ~EndsOwnAccess(pend[c])
    BY <1>1, <2>1 DEF Lands
  <2>2. CASE EndsOwnAccess(pend[c])
    <3>1. ~IsAgent(c) /\ c \in link
      BY <2>2, StandingByCall DEF Stands, Held
    <3>2. u \notin link /\ ~(pend[u].tells > 0)
      BY <1>1, <3>1, StandingByCall DEF Stands
    <3>3. <<EntryOf[u], p>> \in ended \/ (EntryOf[u] = EntryOf[c] /\ p \in {"actor", "grant"})
      BY <1>1, <2>2 DEF Lands
    <3>4. ~(EntryOf[u] = EntryOf[c] /\ p \in {"actor", "grant"})
      BY <1>1, <3>1, <3>2 DEF Firm, IsAgent
    <3> QED BY <3>3, <3>4
  <2> QED BY <2>1, <2>2
<1> QED BY <1>1, EndingStands

\* What turns a part of a standing does not turn what a call past its last look holds.
LEMMA TurnStands ==
  ASSUME IdentityInv, StandingInv, Turns
  PROVE  StandingInv'
<1>1. UNCHANGED <<phase, link, shares, keys, pend>>
  BY TurnsAlone DEF IdentityInv, locks
<1>2. ASSUME NEW u \in Calls, phase[u] = "committing", NEW p \in Firm(u), <<EntryOf[u], p>> \in ended'
      PROVE  <<EntryOf[u], p>> \in ended
  <2>1. Stands(u) /\ p \in pend[u].asks
    BY <1>2, StandingByCall DEF Firm
  <2>2. ASSUME NEW e \in Entries, EndSession(e) PROVE <<EntryOf[u], p>> \in ended
    BY <1>2, <2>1, <2>2 DEF EndSession, Ends, Stands
  <2>3. ASSUME NEW e \in Entries, RevokeGrant(e) PROVE <<EntryOf[u], p>> \in ended
    BY <1>2, <2>1, <2>3 DEF RevokeGrant, Ends, Stands, Firm
  <2>4. ASSUME NEW e \in Entries, RunOut(e) PROVE <<EntryOf[u], p>> \in ended
    BY <1>2, <2>1, <2>4 DEF RunOut, Ends, Firm
  <2>5. ASSUME NEW e \in Entries, Regrant(e) PROVE <<EntryOf[u], p>> \in ended
    BY <1>2, <2>5 DEF Regrant
  <2>6. CASE EndAccess
    BY <1>2, <2>1, <2>6 DEF EndAccess, Ends, Stands, Firm, IsAgent
  <2>7. CASE StopAgent
    BY <1>2, <2>1, <2>7 DEF StopAgent, Ends, Stands, Firm, IsAgent, Held
  <2> QED BY <2>2, <2>3, <2>4, <2>5, <2>6, <2>7 DEF Turns, Turn
<1>3. ASSUME NEW u \in Calls PROVE Stands(u)'
  <2>1. Stands(u) /\ Firm(u)' = Firm(u)
    BY <1>1, StandingByCall DEF Firm
  <2>2. phase[u] = "committing" => ~Gone(u, Firm(u))'
    BY <1>2, <2>1 DEF Stands, Gone
  <2> QED BY <1>1, <2>1, <2>2 DEF Stands
<1>4. \A u, d \in link' : u = d
  BY <1>1, StandingByCall
<1> QED BY <1>3, <1>4 DEF StandingInv, ChainIsHeld, SharesAreHeld, KeysAreHeld, CommitsStanding,
                          OwnEndingIsTold, Stands

LEMMA NextStands == IdentityInv /\ StandingInv /\ [Next]_vars => StandingInv'
<1> SUFFICES ASSUME IdentityInv, StandingInv, [Next]_vars PROVE StandingInv'
  OBVIOUS
<1>1. CASE \E c \in Calls : Enter(c) \/ Authorise(c) \/ Work(c) \/ Audit(c) \/ Judge(c)
  BY <1>1, EnterStands, AuthoriseStands, WorkStands, AuditStands, JudgeStands
<1>2. ASSUME NEW c \in Calls, Commit(c) \/ LoseAcknowledgement(c) PROVE StandingInv'
  <2>1. /\ phase[c] = "committing" /\ Lands(c) /\ LetGo(c) /\ phase'[c] \notin Held
        /\ \A u \in Calls \ {c} : phase'[u] = phase[u] /\ pend'[u] = pend[u]
    BY <1>2 DEF IdentityInv, TypeOK, Commit, LoseAcknowledgement, Raised, Goes, Held
  <2> QED BY <2>1, LandingStands
<1>3. ASSUME NEW c \in Calls, (\E again \in BOOLEAN : Raise(c, again)) \/ Crash(c) PROVE StandingInv'
  <2>1. /\ LetGo(c) /\ UNCHANGED ended /\ phase'[c] \notin Held
        /\ \A u \in Calls \ {c} : phase'[u] = phase[u] /\ pend'[u] = pend[u]
    BY <1>3 DEF IdentityInv, TypeOK, Raise, Crash, Raised, Tell, Goes, committed, Held
  <2> QED BY <2>1, EndingStands
<1>4. ASSUME NEW c \in Calls, Send(c) \/ Admit(c) \/ Answer(c) \/ RecordFailure(c) PROVE StandingInv'
  <2>1. /\ UNCHANGED <<ended, link, shares, keys>> /\ phase'[c] \notin Held
        /\ phase[c] \notin {"judging", "committing"}
        /\ \A u \in Calls \ {c} : phase'[u] = phase[u] /\ pend'[u] = pend[u]
    BY <1>4 DEF IdentityInv, TypeOK, Send, Admit, Answer, RecordFailure, Tell, Goes, committed, locks,
                Held
  <2>2. c \notin link
    BY <2>1, StandingByCall DEF Stands
  <2> QED BY <2>1, <2>2, EndingStands
<1>5. CASE Turns
  BY <1>5, TurnStands
<1>6. CASE UNCHANGED vars
  BY <1>6 DEF vars, committed, locks, StandingInv, ChainIsHeld, SharesAreHeld, KeysAreHeld,
              CommitsStanding, OwnEndingIsTold, Gone, Firm
<1> QED BY <1>1, <1>2, <1>3, <1>4, <1>5, <1>6 DEF Next, Runs, Finished, Turns

---------------------------------------------------------------------------

\* The chain and the register.
LEMMA InitTells == Init => EventsInv
<1> SUFFICES ASSUME Init PROVE EventsInv
  OBVIOUS
<1>1. DOMAIN chain = {} /\ \A c \in Calls : phase[c] \notin Held
  BY DEF Init, Held
<1>2. \A o \in Ops : register[o].outcome = "none"
  BY DEF Init, None
<1>3. \A c \in Calls : OpOf[c] \in Ops
  BY OperationRegisterAssumption
<1>4. TellsRightly /\ AppliedOnce
  BY <1>1 DEF TellsRightly, AppliedOnce, AppliedAt
<1>5. RowsAreTold
  BY <1>1, <1>2, <1>3 DEF RowsAreTold, Settled
<1> QED BY <1>4, <1>5 DEF EventsInv

\* What an outcome's shape has to do with what it tells.
LEMMA OutcomesTell ==
  ASSUME NEW c \in Calls
  PROVE  /\ \A p \in Outcomes(c) : /\ p.row = "applied" => (c \in Audited <=> p.tells > 0)
                                   /\ p.row = "refused" => p.tells > 0
                                   /\ p.event # "replayed"
         /\ Refused.tells > 0 /\ Refused.row = "refused" /\ Refused.event # "replayed"
         /\ Unnamed.row = "none" /\ Unnamed.event # "replayed"
         /\ \A says : Unheld(says).row = "none" /\ Unheld(says).event # "replayed"
<1>1. \A asks : /\ Retained(asks).row = "refused" /\ Retained(asks).tells > 0
                /\ Retained(asks).event # "replayed"
  BY DEF Retained, Outcome
<1>2. /\ Refused.tells > 0 /\ Refused.row = "refused" /\ Refused.event # "replayed"
      /\ Unnamed.row = "none" /\ Unnamed.event # "replayed"
      /\ \A says : Unheld(says).row = "none" /\ Unheld(says).event # "replayed"
  BY DEF Refused, Unnamed, Unheld, Outcome
<1>3. ASSUME NEW asks \in SUBSET Parts, NEW p \in Applied(c, asks)
      PROVE  p.row = "applied" /\ (c \in Audited <=> p.tells > 0) /\ p.event # "replayed"
  <2>1. p.event = "applied"
    BY DEF Applied, Outcome
  <2> QED BY <2>1, AppliedIsSpoken
<1>4. Asked(c) \subseteq Parts /\ Asked(c) \ {"grant"} \subseteq Parts /\ {"session"} \subseteq Parts
  BY DEF Asked, Parts
<1>5. ASSUME NEW p \in Outcomes(c)
      PROVE  \/ p \in {Refused, Unheld("later")} \/ (\E asks : p = Retained(asks))
             \/ \E asks \in SUBSET Parts : p \in Applied(c, asks)
  BY <1>4 DEF Outcomes
<1>6. ASSUME NEW p \in Outcomes(c)
      PROVE  /\ p.row = "applied" => (c \in Audited <=> p.tells > 0)
             /\ p.row = "refused" => p.tells > 0
             /\ p.event # "replayed"
  BY <1>1, <1>2, <1>3, <1>5
<1> QED BY <1>2, <1>6

\* A replay tells the chain of a success only when the command is audited.
LEMMA StoredTells ==
  ASSUME TypeOK, NEW c \in Calls, register[OpOf[c]] # None, NEW p \in Stored(c)
  PROVE  /\ p.row = "none"
         /\ p.event = "replayed" => /\ p.says \in {"applied", "refused"}
                                    /\ p.says = "applied" /\ p.tells > 0 => c \in Audited
<1>1. \A says : Unheld(says).row = "none" /\ Unheld(says).event # "replayed"
  BY OutcomesTell
<1>2. \A outcome, asks :
        LET r == Replayed(c, outcome, asks)
        IN r.row = "none" /\ r.says = outcome /\ (r.tells > 0 => Joins(c, outcome))
  BY DEF Replayed, Outcome
<1>3. \/ \E says : p = Unheld(says)
      \/ \E outcome \in {"applied", "refused"} : \E asks : p = Replayed(c, outcome, asks)
  BY DEF Stored
<1> QED BY <1>1, <1>2, <1>3 DEF Joins

\* A step of one call that adds no event and settles nothing.
LEMMA SilenceTells ==
  ASSUME EventsInv, NEW c \in Calls, UNCHANGED <<register, effects, chain>>,
         \A u \in Calls \ {c} : phase'[u] = phase[u] /\ pend'[u] = pend[u],
         \/ phase'[c] \notin Held
         \/ phase[c] \in Held /\ pend'[c] = pend[c]
         \/ /\ pend'[c].row = "applied" => (c \in Audited <=> pend'[c].tells > 0)
            /\ pend'[c].row = "refused" => pend'[c].tells > 0
            /\ pend'[c].event = "replayed" =>
                 /\ pend'[c].says \in {"applied", "refused"}
                 /\ pend'[c].says = "applied" /\ pend'[c].tells > 0 => c \in Audited
  PROVE  EventsInv'
<1>1. TellsRightly'
  BY DEF EventsInv, TellsRightly
<1>2. AppliedOnce' /\ RowsAreTold'
  BY DEF EventsInv, AppliedOnce, RowsAreTold, AppliedAt, ToldBefore, At, Settled, Follows
<1> QED BY <1>1, <1>2 DEF EventsInv

\* Events more: what was told stays told, where it was, and what is told now follows it.
Grown(c, n, outcome) ==
  /\ Len(chain) \in Nat /\ Len(chain') \in Nat /\ Len(chain) <= Len(chain')
  /\ DOMAIN chain = 1..Len(chain) /\ DOMAIN chain' = 1..Len(chain')
  /\ \A i \in DOMAIN chain : i \in DOMAIN chain' /\ chain'[i] = chain[i] /\ chain[i] \in EventRows
  /\ n > 0 => Len(chain) + 1 \in DOMAIN chain'
  /\ \A i \in DOMAIN chain' : i \notin DOMAIN chain =>
       /\ n > 0 /\ i > Len(chain)
       /\ chain'[i].call = c /\ chain'[i].op = OpOf[c] /\ chain'[i].outcome = outcome
       /\ chain'[i].record = i - Len(chain) - 1

LEMMA ChainGrows ==
  ASSUME TypeOK, NEW c \in Calls, NEW n \in 0..(MaxCarried + 1),
         NEW outcome \in {"applied", "refused", "unnamed", "replayed", "failed"},
         chain' = chain \o Events(c, outcome, n)
  PROVE  Grown(c, n, outcome)
<1> DEFINE ev == Events(c, outcome, n)
           L == Len(chain)
<1>1. /\ ev \in Seq(EventRows) /\ Len(ev) = n
      /\ \A k \in 1..n : ev[k] = [call |-> c, op |-> OpOf[c], outcome |-> outcome, record |-> k - 1]
  BY EventsAreRows
<1>2. chain \in Seq(EventRows) /\ n \in Nat
  BY OperationRegisterAssumption DEF TypeOK
<1>3. chain' = chain \o ev
  OBVIOUS
<1> HIDE DEF ev
<1>4. /\ chain' \in Seq(EventRows) /\ Len(chain') = L + n
      /\ \A i \in 1..(L + n) : chain'[i] = IF i <= L THEN chain[i] ELSE ev[i - L]
  <2>1. /\ chain \o ev \in Seq(EventRows) /\ Len(chain \o ev) = L + n
        /\ \A i \in 1..(L + n) : (chain \o ev)[i] = IF i <= L THEN chain[i] ELSE ev[i - L]
    BY <1>1, <1>2, ConcatProperties
  <2> QED BY <1>3, <2>1
<1>5. /\ L \in Nat /\ DOMAIN chain = 1..L /\ DOMAIN chain' = 1..(L + n)
      /\ \A i \in 1..L : chain[i] \in EventRows
  BY <1>2, <1>4
<1> HIDE DEF L
<1>6. \A i \in 1..L : i \in 1..(L + n) /\ chain'[i] = chain[i]
  BY <1>2, <1>4, <1>5
<1>7. n > 0 => L + 1 \in 1..(L + n)
  BY <1>2, <1>5
<1>8. ASSUME NEW i \in 1..(L + n), i \notin 1..L
      PROVE  /\ n > 0 /\ i > L
             /\ chain'[i].call = c /\ chain'[i].op = OpOf[c] /\ chain'[i].outcome = outcome
             /\ chain'[i].record = i - L - 1
  <2>1. n > 0 /\ i > L /\ i - L \in 1..n /\ chain'[i] = ev[i - L]
    BY <1>2, <1>4, <1>5, <1>8
  <2> QED BY <1>1, <2>1
<1>9. L <= L + n /\ L + n \in Nat
  BY <1>2, <1>5
<1>10. Len(chain) = L
  BY DEF L
<1> QED BY <1>4, <1>5, <1>6, <1>7, <1>8, <1>9, <1>10 DEF Grown

\* What was told of an operation is told still.
LEMMA ToldStays ==
  ASSUME TypeOK, NEW c \in Calls, NEW n \in 0..(MaxCarried + 1),
         NEW outcome \in {"applied", "refused", "unnamed", "replayed", "failed"},
         chain' = chain \o Events(c, outcome, n),
         NEW o, NEW m \in 0..Len(chain), ToldBefore(o, m), NEW k \in m..Len(chain')
  PROVE  ToldBefore(o, k)'
<1>1. PICK i \in 1..m : chain[i].op = o /\ chain[i].outcome \in {"applied", "refused"}
  BY DEF ToldBefore
<1>2. /\ Len(chain) \in Nat /\ Len(chain') \in Nat /\ DOMAIN chain = 1..Len(chain)
      /\ \A j \in DOMAIN chain : chain'[j] = chain[j]
  BY ChainGrows DEF Grown
<1>3. i \in DOMAIN chain /\ i \in 1..k
  BY <1>2
<1> QED BY <1>1, <1>2, <1>3 DEF ToldBefore

\* Events that follow what they replay, beside rows that only say what is told.
LEMMA RowsStayTold ==
  ASSUME TypeOK, RowsAreTold, NEW c \in Calls, NEW n \in 0..(MaxCarried + 1),
         NEW outcome \in {"applied", "refused", "unnamed", "replayed", "failed"},
         chain' = chain \o Events(c, outcome, n),
         outcome = "replayed" /\ n > 0 => ToldBefore(OpOf[c], Len(chain)),
         \A o \in Ops : \/ register'[o] = register[o]
                        \/ /\ o = OpOf[c] /\ register'[o].outcome = outcome
                           /\ outcome = "refused" => n > 0
                           /\ outcome = "applied" =>
                                \A d \in Calls : OpOf[d] = o /\ register'[o].payload = PayloadOf[d]
                                                   /\ d \in Audited => n > 0
  PROVE  RowsAreTold'
<1>0. Grown(c, n, outcome)
  BY ChainGrows
<1>1. /\ Len(chain) \in Nat /\ Len(chain') \in Nat /\ Len(chain) <= Len(chain')
      /\ DOMAIN chain = 1..Len(chain) /\ DOMAIN chain' = 1..Len(chain')
      /\ \A i \in DOMAIN chain : i \in DOMAIN chain' /\ chain'[i] = chain[i]
      /\ n > 0 => Len(chain) + 1 \in DOMAIN chain'
      /\ \A i \in DOMAIN chain' : i \notin DOMAIN chain =>
           n > 0 /\ i > Len(chain) /\ chain'[i].op = OpOf[c] /\ chain'[i].outcome = outcome
  BY <1>0 DEF Grown
<1>2. \A d \in Calls : OpOf[d] \in Ops
  BY OperationRegisterAssumption
<1>3. n > 0 => /\ Len(chain) + 1 \in DOMAIN chain' /\ Len(chain) + 1 \in 1..Len(chain')
               /\ chain'[Len(chain) + 1].op = OpOf[c] /\ chain'[Len(chain) + 1].outcome = outcome
  BY <1>1
<1>4. ASSUME NEW d \in Calls, Settled(d, "applied")', d \in Audited PROVE AppliedAt(OpOf[d])' # {}
  <2>1. CASE register'[OpOf[d]] = register[OpOf[d]]
    <3>1. PICK i : i \in AppliedAt(OpOf[d])
      BY <1>4, <2>1 DEF RowsAreTold, Settled
    <3>2. i \in AppliedAt(OpOf[d])'
      BY <1>1, <3>1 DEF AppliedAt, At
    <3> QED BY <3>2
  <2>2. CASE register'[OpOf[d]] # register[OpOf[d]]
    <3>1. OpOf[d] = OpOf[c] /\ outcome = "applied" /\ n > 0
      BY <1>2, <1>4, <2>2 DEF Settled
    <3>2. Len(chain) + 1 \in AppliedAt(OpOf[d])'
      BY <1>3, <3>1 DEF AppliedAt, At
    <3> QED BY <3>2
  <2> QED BY <2>1, <2>2
<1>5. ASSUME NEW o \in Ops, register'[o].outcome = "refused" PROVE ToldBefore(o, Len(chain))'
  <2>1. CASE register'[o] = register[o]
    <3>1. ToldBefore(o, Len(chain)) /\ Len(chain) \in 0..Len(chain) /\ Len(chain') \in Len(chain)..Len(chain')
      BY <1>1, <1>5, <2>1 DEF RowsAreTold
    <3>2. ASSUME NEW k \in Len(chain)..Len(chain') PROVE ToldBefore(o, k)'
      BY <3>1, ToldStays
    <3> QED BY <3>1, <3>2 DEF ToldBefore
  <2>2. CASE register'[o] # register[o]
    <3>1. o = OpOf[c] /\ outcome = "refused" /\ n > 0
      BY <1>5, <2>2
    <3> QED BY <1>3, <3>1 DEF ToldBefore
  <2> QED BY <2>1, <2>2
<1>6. ASSUME NEW j \in DOMAIN chain', At(j, "replayed")' PROVE ToldBefore(chain[j].op, j - 1)'
  <2>1. CASE j \in DOMAIN chain
    <3>1. /\ ToldBefore(chain[j].op, j - 1) /\ chain'[j].op = chain[j].op
          /\ j - 1 \in 0..Len(chain) /\ j - 1 \in (j - 1)..Len(chain')
      BY <1>1, <1>6, <2>1 DEF RowsAreTold, At
    <3>2. \A o : o = chain[j].op => ToldBefore(o, j - 1)'
      BY <3>1, ToldStays
    <3> QED BY <3>1, <3>2 DEF ToldBefore
  <2>2. CASE j \notin DOMAIN chain
    <3>1. chain'[j].op = OpOf[c] /\ outcome = "replayed" /\ n > 0 /\ j > Len(chain)
      BY <1>1, <1>6, <2>2 DEF At
    <3>2. /\ ToldBefore(OpOf[c], Len(chain))
          /\ Len(chain) \in 0..Len(chain) /\ j - 1 \in Len(chain)..Len(chain')
      BY <1>1, <3>1
    <3>3. \A o : o = OpOf[c] => ToldBefore(o, j - 1)'
      BY <3>2, ToldStays
    <3> QED BY <3>1, <3>3 DEF ToldBefore
  <2> QED BY <2>1, <2>2
<1> QED BY <1>4, <1>5, <1>6 DEF RowsAreTold

\* Events that are not an operation's being applied leave the applied ones as they were.
LEMMA OtherEventsTell ==
  ASSUME TypeOK, AppliedOnce, NEW c \in Calls, NEW n \in 0..(MaxCarried + 1),
         NEW outcome \in {"refused", "unnamed", "replayed", "failed"},
         chain' = chain \o Events(c, outcome, n),
         effects \subseteq effects',
         \A o \in Ops : register[o].outcome = "applied" => register'[o] = register[o]
  PROVE  AppliedOnce'
<1>0. Grown(c, n, outcome)
  BY ChainGrows
<1>1. /\ Len(chain) \in Nat /\ DOMAIN chain = 1..Len(chain)
      /\ \A i \in DOMAIN chain : i \in DOMAIN chain' /\ chain'[i] = chain[i] /\ chain[i] \in EventRows
      /\ \A i \in DOMAIN chain' : i \notin DOMAIN chain => chain'[i].outcome = outcome
  BY <1>0 DEF Grown
<1>2. ASSUME NEW i \in DOMAIN chain', At(i, "applied")'
      PROVE  i \in DOMAIN chain /\ At(i, "applied") /\ chain'[i] = chain[i] /\ chain[i].op \in Ops
  BY <1>1, <1>2 DEF At, EventRows
<1>3. ASSUME NEW i \in DOMAIN chain', At(i, "applied")'
      PROVE  /\ chain'[i].call \in effects' \cap Audited
             /\ chain'[i].op = OpOf[chain'[i].call] /\ register'[chain'[i].op].outcome = "applied"
             /\ chain'[i].record > 0 => Follows(i)'
  <2>1. i \in DOMAIN chain /\ At(i, "applied") /\ chain'[i] = chain[i] /\ chain[i].op \in Ops
    BY <1>2, <1>3
  <2>2. Follows(i) => Follows(i)'
    BY <1>1, <2>1 DEF Follows, At
  <2> QED BY <2>1, <2>2 DEF AppliedOnce
<1>4. ASSUME NEW o \in Ops, NEW i \in AppliedAt(o)', NEW j \in AppliedAt(o)',
             chain'[i].record = chain'[j].record
      PROVE  i = j
  <2>1. i \in AppliedAt(o) /\ j \in AppliedAt(o) /\ chain'[i] = chain[i] /\ chain'[j] = chain[j]
    BY <1>2 DEF AppliedAt
  <2> QED BY <1>4, <2>1 DEF AppliedOnce
<1> QED BY <1>3, <1>4 DEF AppliedOnce

\* An operation is applied: nothing had told of it so, and its records are told in order.
LEMMA AppliedEventsTell ==
  ASSUME TypeOK, AppliedOnce, NEW c \in Calls, NEW n \in 0..(MaxCarried + 1),
         chain' = chain \o Events(c, "applied", n), n > 0 => c \in Audited,
         effects \subseteq effects', c \in effects',
         register[OpOf[c]] = None, register'[OpOf[c]].outcome = "applied",
         \A o \in Ops \ {OpOf[c]} : register'[o] = register[o]
  PROVE  AppliedOnce'
<1>0. Grown(c, n, "applied")
  BY ChainGrows
<1>1. /\ Len(chain) \in Nat /\ Len(chain') \in Nat
      /\ DOMAIN chain = 1..Len(chain) /\ DOMAIN chain' = 1..Len(chain')
      /\ \A i \in DOMAIN chain : i \in DOMAIN chain' /\ chain'[i] = chain[i] /\ chain[i] \in EventRows
      /\ \A i \in DOMAIN chain' : i \notin DOMAIN chain =>
           /\ n > 0 /\ i > Len(chain)
           /\ chain'[i].call = c /\ chain'[i].op = OpOf[c] /\ chain'[i].outcome = "applied"
           /\ chain'[i].record = i - Len(chain) - 1
  BY <1>0 DEF Grown
<1>2. ASSUME NEW i \in DOMAIN chain, At(i, "applied")
      PROVE  chain[i].op \in Ops \ {OpOf[c]} /\ chain'[i] = chain[i] /\ (Follows(i) => Follows(i)')
  <2>1. chain[i].op \in Ops
    BY <1>1 DEF EventRows
  <2>2. register[chain[i].op].outcome = "applied"
    BY <1>2 DEF AppliedOnce
  <2>3. chain'[i] = chain[i] /\ (Follows(i) => Follows(i)')
    BY <1>1 DEF Follows, At
  <2> QED BY <2>1, <2>2, <2>3 DEF None
<1>3. ASSUME NEW i \in DOMAIN chain', At(i, "applied")'
      PROVE  /\ chain'[i].call \in effects' \cap Audited
             /\ chain'[i].op = OpOf[chain'[i].call] /\ register'[chain'[i].op].outcome = "applied"
             /\ chain'[i].record > 0 => Follows(i)'
  <2>1. CASE i \in DOMAIN chain
    <3>1. At(i, "applied")
      BY <1>1, <1>3, <2>1 DEF At
    <3> QED BY <1>2, <2>1, <3>1 DEF AppliedOnce
  <2>2. CASE i \notin DOMAIN chain
    <3>1. chain'[i].record > 0 => i \in Nat /\ i > 1 /\ i - 1 \in DOMAIN chain' /\ i - 1 \notin DOMAIN chain
      BY <1>1, <2>2
    <3>2. ASSUME chain'[i].record > 0 PROVE Follows(i)'
      <4>1. /\ chain'[i - 1].record = (i - 1) - Len(chain) - 1
            /\ chain'[i].record = i - Len(chain) - 1
            /\ chain'[i - 1].call = c /\ chain'[i].call = c /\ chain'[i - 1].outcome = "applied"
        BY <1>1, <2>2, <3>1, <3>2
      <4>2. chain'[i - 1].record = chain'[i].record - 1
        BY <1>1, <3>1, <3>2, <4>1
      <4> QED BY <3>1, <3>2, <4>1, <4>2 DEF Follows, At
    <3> QED BY <1>1, <2>2, <3>2
  <2> QED BY <2>1, <2>2
<1>4. ASSUME NEW o \in Ops, NEW i \in AppliedAt(o)', NEW j \in AppliedAt(o)',
             chain'[i].record = chain'[j].record
      PROVE  i = j
  <2>1. i \in DOMAIN chain' /\ chain'[i].op = o /\ j \in DOMAIN chain' /\ chain'[j].op = o
    BY DEF AppliedAt
  <2>2. CASE o # OpOf[c]
    <3>1. i \in DOMAIN chain /\ j \in DOMAIN chain
      BY <1>1, <2>1, <2>2
    <3>2. i \in AppliedAt(o) /\ j \in AppliedAt(o) /\ chain'[i] = chain[i] /\ chain'[j] = chain[j]
      BY <1>1, <3>1 DEF AppliedAt, At
    <3> QED BY <1>4, <3>2 DEF AppliedOnce
  <2>3. CASE o = OpOf[c]
    <3>1. i \notin DOMAIN chain /\ j \notin DOMAIN chain
      BY <1>1, <1>2, <2>3 DEF AppliedAt, At
    <3>2. chain'[i].record = i - Len(chain) - 1 /\ chain'[j].record = j - Len(chain) - 1
      BY <1>1, <2>1, <3>1
    <3>3. i \in Nat /\ j \in Nat /\ Len(chain) \in Nat
      BY <1>1, <2>1
    <3>4. i - Len(chain) - 1 = j - Len(chain) - 1
      BY <1>4, <3>2
    <3> QED BY <3>3, <3>4
  <2> QED BY <2>2, <2>3
<1> QED BY <1>3, <1>4 DEF AppliedOnce

\* A row and its events land together.
LEMMA LandingTells ==
  ASSUME IdentityInv, EventsInv, NEW c \in Calls, phase[c] = "committing", Lands(c),
         phase'[c] \notin Held,
         \A u \in Calls \ {c} : phase'[u] = phase[u] /\ pend'[u] = pend[u]
  PROVE  EventsInv'
<1> DEFINE outcome == pend[c].event
           n == pend[c].tells
<1>1. /\ TypeOK /\ AppliedOnce /\ RowsAreTold
      /\ pend[c] \in Pending /\ pend[c].says # "none"
      /\ pend[c].row # "none" => register[OpOf[c]] = None
      /\ pend[c].row = "none" => (pend[c].says \in {"applied", "refused"} => Settled(c, pend[c].says))
  BY DEF IdentityInv, EventsInv, TypeOK, PendingAgrees, Agrees, Held
<1>2. /\ pend[c].row = "applied" => (c \in Audited <=> n > 0)
      /\ pend[c].row = "refused" => n > 0
      /\ outcome = "replayed" => /\ pend[c].says \in {"applied", "refused"}
                                 /\ pend[c].says = "applied" /\ n > 0 => c \in Audited
  BY DEF EventsInv, TellsRightly, Held
<1>3. /\ pend[c].row \in {"none", "applied", "refused"}
      /\ outcome \in {"applied", "refused", "unnamed", "replayed"}
      /\ pend[c].row # "none" => outcome = pend[c].row
      /\ outcome = "applied" => pend[c].row = "applied"
      /\ pend[c].row = "applied" => pend[c].keeps
      /\ n \in 0..(MaxCarried + 1)
  BY <1>1, PendingShapes
<1>4. /\ chain' = chain \o Events(c, outcome, n)
      /\ effects' = IF pend[c].keeps THEN effects \cup {c} ELSE effects
      /\ register' = IF pend[c].row = "none" THEN register
                     ELSE [register EXCEPT ![OpOf[c]] =
                             [outcome |-> pend[c].row, payload |-> PayloadOf[c]]]
  BY DEF Lands
<1>5. /\ OpOf[c] \in Ops /\ register \in [Ops -> Rows]
      /\ \A d \in Calls : OpOf[d] = OpOf[c] /\ PayloadOf[d] = PayloadOf[c] => (c \in Audited <=> d \in Audited)
  BY <1>1, OperationRegisterAssumption DEF TypeOK
<1> HIDE DEF outcome, n
<1>6. \A o \in Ops :
        \/ register'[o] = register[o] /\ (o = OpOf[c] => pend[c].row = "none")
        \/ /\ o = OpOf[c] /\ register[o] = None /\ pend[c].row # "none"
           /\ register'[o].outcome = outcome /\ register'[o].payload = PayloadOf[c]
  BY <1>1, <1>3, <1>4, <1>5
<1>7. TellsRightly'
  BY DEF EventsInv, TellsRightly
<1>8. outcome = "replayed" /\ n > 0 => ToldBefore(OpOf[c], Len(chain))
  <2> SUFFICES ASSUME outcome = "replayed", n > 0 PROVE ToldBefore(OpOf[c], Len(chain))
    OBVIOUS
  <2>1. pend[c].row = "none" /\ Settled(c, pend[c].says)
    BY <1>1, <1>2, <1>3
  <2>2. CASE pend[c].says = "refused"
    BY <1>1, <1>5, <2>1, <2>2 DEF Settled, RowsAreTold
  <2>3. CASE pend[c].says = "applied"
    <3>1. AppliedAt(OpOf[c]) # {}
      BY <1>1, <1>2, <2>1, <2>3 DEF RowsAreTold
    <3>2. DOMAIN chain = 1..Len(chain)
      BY <1>1 DEF TypeOK
    <3> QED BY <3>1, <3>2 DEF AppliedAt, At, ToldBefore
  <2> QED BY <1>2, <2>2, <2>3
<1>9. RowsAreTold'
  <2>1. ASSUME NEW o \in Ops, register'[o] # register[o]
        PROVE  /\ o = OpOf[c] /\ register'[o].outcome = outcome
               /\ outcome = "refused" => n > 0
               /\ outcome = "applied" =>
                    \A d \in Calls : OpOf[d] = o /\ register'[o].payload = PayloadOf[d]
                                       /\ d \in Audited => n > 0
    BY <1>2, <1>3, <1>5, <1>6, <2>1
  <2>2. outcome \in {"applied", "refused", "unnamed", "replayed", "failed"}
    BY <1>3
  <2>3. \A o \in Ops :
          \/ register'[o] = register[o]
          \/ /\ o = OpOf[c] /\ register'[o].outcome = outcome
             /\ outcome = "refused" => n > 0
             /\ outcome = "applied" =>
                  \A d \in Calls : OpOf[d] = o /\ register'[o].payload = PayloadOf[d]
                                     /\ d \in Audited => n > 0
    BY <2>1, Zenon
  <2>4. TypeOK /\ RowsAreTold /\ n \in 0..(MaxCarried + 1)
        /\ chain' = chain \o Events(c, outcome, n)
    BY <1>1, <1>3, <1>4
  <2> QED BY <1>8, <2>2, <2>3, <2>4, RowsStayTold, Zenon
<1>10. AppliedOnce'
  <2>1. CASE outcome = "applied"
    <3>1. /\ c \in effects' /\ effects \subseteq effects' /\ (n > 0 => c \in Audited)
          /\ register[OpOf[c]] = None /\ register'[OpOf[c]].outcome = "applied"
          /\ \A o \in Ops \ {OpOf[c]} : register'[o] = register[o]
      BY <1>1, <1>2, <1>3, <1>4, <1>5, <1>6, <2>1
    <3> QED BY <1>1, <1>3, <1>4, <2>1, <3>1, AppliedEventsTell
  <2>2. CASE outcome # "applied"
    <3>1. outcome \in {"refused", "unnamed", "replayed", "failed"} /\ effects \subseteq effects'
      BY <1>3, <1>4, <2>2
    <3>2. \A o \in Ops : register[o].outcome = "applied" => register'[o] = register[o]
      BY <1>6 DEF None
    <3> QED BY <1>1, <1>3, <1>4, <3>1, <3>2, OtherEventsTell
  <2> QED BY <2>1, <2>2
<1> QED BY <1>7, <1>9, <1>10 DEF EventsInv

\* A failed attempt's event says nothing of its operation.
LEMMA FailureTells ==
  ASSUME IdentityInv, EventsInv, NEW c \in Calls, RecordFailure(c)
  PROVE  EventsInv'
<1>1. /\ phase'[c] \notin Held /\ UNCHANGED <<register, effects>>
      /\ TypeOK /\ AppliedOnce /\ RowsAreTold
      /\ \A u \in Calls \ {c} : phase'[u] = phase[u] /\ pend'[u] = pend[u]
  BY DEF RecordFailure, Tell, Goes, IdentityInv, EventsInv, TypeOK, Held
<1>2. CASE UNCHANGED chain
  BY <1>1, <1>2, SilenceTells
<1>3. CASE chain' = chain \o Events(c, "failed", 1)
  <2>1. 1 \in 0..(MaxCarried + 1)
    BY OperationRegisterAssumption
  <2>2. AppliedOnce'
    BY <1>1, <1>3, <2>1, OtherEventsTell
  <2>3. RowsAreTold'
    BY <1>1, <1>3, <2>1, RowsStayTold
  <2>4. TellsRightly'
    BY <1>1 DEF EventsInv, TellsRightly
  <2> QED BY <2>2, <2>3, <2>4 DEF EventsInv
<1> QED BY <1>2, <1>3 DEF RecordFailure

\* A call that comes to an outcome tells of it rightly.
LEMMA ComingTells ==
  ASSUME IdentityInv, EventsInv, NEW c \in Calls, NEW p, Comes(c, p),
         UNCHANGED <<register, effects, chain>>,
         p.row = "applied" => (c \in Audited <=> p.tells > 0),
         p.row = "refused" => p.tells > 0,
         p.event = "replayed" => /\ p.says \in {"applied", "refused"}
                                 /\ p.says = "applied" /\ p.tells > 0 => c \in Audited
  PROVE  EventsInv'
<1>1. pend'[c] = p /\ \A u \in Calls \ {c} : phase'[u] = phase[u] /\ pend'[u] = pend[u]
  BY DEF Comes, Goes, IdentityInv, TypeOK
<1> QED BY <1>1, SilenceTells

LEMMA NextTells == IdentityInv /\ EventsInv /\ [Next]_vars => EventsInv'
<1> SUFFICES ASSUME IdentityInv, EventsInv, [Next]_vars PROVE EventsInv'
  OBVIOUS
<1>1. ASSUME NEW c \in Calls, Commit(c) \/ LoseAcknowledgement(c) PROVE EventsInv'
  <2>1. /\ phase[c] = "committing" /\ Lands(c) /\ phase'[c] \notin Held
        /\ \A u \in Calls \ {c} : phase'[u] = phase[u] /\ pend'[u] = pend[u]
    BY <1>1 DEF Commit, LoseAcknowledgement, Raised, Goes, Held, IdentityInv, TypeOK
  <2> QED BY <2>1, LandingTells
<1>2. ASSUME NEW c \in Calls, RecordFailure(c) PROVE EventsInv'
  BY <1>2, FailureTells
<1>3. ASSUME NEW c \in Calls,
             Send(c) \/ Admit(c) \/ Answer(c) \/ Crash(c) \/ \E again \in BOOLEAN : Raise(c, again)
      PROVE  EventsInv'
  <2>1. /\ UNCHANGED <<register, effects, chain>> /\ phase'[c] \notin Held
        /\ \A u \in Calls \ {c} : phase'[u] = phase[u] /\ pend'[u] = pend[u]
    BY <1>3 DEF Send, Admit, Answer, Crash, Raise, Raised, Tell, Goes, Held, IdentityInv, TypeOK, committed
  <2> QED BY <2>1, SilenceTells
<1>4. ASSUME NEW c \in Calls, Enter(c) PROVE EventsInv'
  <2>1. CASE phase' = [phase EXCEPT ![c] = "authorising"] /\ UNCHANGED pend
    <3>1. phase'[c] \notin Held /\ \A u \in Calls \ {c} : phase'[u] = phase[u]
      BY <2>1 DEF IdentityInv, TypeOK, Held
    <3> QED BY <1>4, <2>1, <3>1, SilenceTells DEF Enter, committed
  <2>2. ASSUME register[OpOf[c]] # None, NEW p \in Stored(c), Comes(c, p) PROVE EventsInv'
    <3>1. /\ p.row = "none"
          /\ p.event = "replayed" => /\ p.says \in {"applied", "refused"}
                                     /\ p.says = "applied" /\ p.tells > 0 => c \in Audited
      BY <2>2, StoredTells DEF IdentityInv
    <3> QED BY <1>4, <2>2, <3>1, ComingTells DEF Enter, committed
  <2> QED BY <1>4, <2>1, <2>2 DEF Enter, Goes
<1>5. ASSUME NEW c \in Calls, Authorise(c) PROVE EventsInv'
  <2>1. CASE phase' = [phase EXCEPT ![c] = "working"] /\ UNCHANGED pend
    <3>1. phase'[c] \notin Held /\ \A u \in Calls \ {c} : phase'[u] = phase[u]
      BY <2>1 DEF IdentityInv, TypeOK, Held
    <3> QED BY <1>5, <2>1, <3>1, SilenceTells DEF Authorise, committed
  <2>2. ASSUME NEW p \in {Refused, Unheld("later")}, Comes(c, p) PROVE EventsInv'
    <3>1. /\ p.row \in {"none", "refused"} /\ p.event # "replayed"
          /\ p.row = "refused" => p.tells > 0
      BY OutcomesTell
    <3>2. UNCHANGED <<register, effects, chain>>
      BY <1>5 DEF Authorise, committed
    <3> QED BY <2>2, <3>1, <3>2, ComingTells
  <2> QED BY <1>5, <2>1, <2>2 DEF Authorise, Unprepared, Goes
<1>6. ASSUME NEW c \in Calls, Work(c) PROVE EventsInv'
  <2>1. PICK p \in Outcomes(c) : Comes(c, p)
    BY <1>6 DEF Work
  <2>2. /\ p.row = "applied" => (c \in Audited <=> p.tells > 0)
        /\ p.row = "refused" => p.tells > 0
        /\ p.event # "replayed"
    BY OutcomesTell
  <2> QED BY <1>6, <2>1, <2>2, ComingTells DEF Work, committed
<1>7. ASSUME NEW c \in Calls, Audit(c) PROVE EventsInv'
  <2>1. /\ phase[c] \in Held /\ pend' = pend /\ UNCHANGED <<register, effects, chain>>
        /\ \A u \in Calls \ {c} : phase'[u] = phase[u]
    BY <1>7 DEF Audit, Goes, Held, IdentityInv, TypeOK, committed
  <2> QED BY <2>1, SilenceTells
<1>8. ASSUME NEW c \in Calls, Judge(c) PROVE EventsInv'
  <2>1. phase[c] \in Held /\ UNCHANGED <<register, effects, chain>>
    BY <1>8 DEF Judge, Held, committed
  <2>2. CASE phase' = [phase EXCEPT ![c] = "committing"] /\ UNCHANGED pend
    <3>1. \A u \in Calls \ {c} : phase'[u] = phase[u]
      BY <2>2 DEF IdentityInv, TypeOK
    <3> QED BY <2>1, <2>2, <3>1, SilenceTells
  <2>3. ASSUME NEW p \in {Refused, Unheld("withheld"), Unnamed}, Comes(c, p) PROVE EventsInv'
    <3>1. /\ p.row \in {"none", "refused"} /\ p.event # "replayed"
          /\ p.row = "refused" => p.tells > 0
      BY OutcomesTell
    <3> QED BY <2>1, <2>3, <3>1, ComingTells
  <2>4. pend[c] \in Pending
    BY DEF IdentityInv, TypeOK
  <2> QED BY <1>8, <2>2, <2>3, <2>4, TooLateIsARefusal DEF Judge, Goes
<1>9. CASE Turns
  <2>1. UNCHANGED <<register, effects, chain, phase, pend>>
    BY <1>9, TurnsAlone DEF IdentityInv
  <2> QED BY <2>1 DEF EventsInv, TellsRightly, AppliedOnce, RowsAreTold, AppliedAt, ToldBefore, At,
                     Settled, Follows
<1>10. CASE UNCHANGED vars
  BY <1>10 DEF vars, committed, EventsInv, TellsRightly, AppliedOnce, RowsAreTold, AppliedAt,
               ToldBefore, At, Settled, Follows
<1> QED BY <1>1, <1>2, <1>3, <1>4, <1>5, <1>6, <1>7, <1>8, <1>9, <1>10 DEF Next, Runs, Finished, Turns

\* The inductive invariant: the call at an identity's door is the only one to judge it, the
\* call with the chain the only one to write there, what each will say agrees with what it
\* will have settled and tells it as its command is told, and what a call past its last look
\* holds of its standing stands (envelope.ts `enter`, `answerOf`, `refusedAtCommit`).
THEOREM RegisterIsKept == Spec => []RegisterInv
<1>1. Init => RegisterInv
  BY InitIsRegistered, InitStands, InitTells DEF RegisterInv
<1>2. RegisterInv /\ [Next]_vars => RegisterInv'
  BY NextKeepsIdentity, NextStands, NextTells DEF RegisterInv
<1> QED BY <1>1, <1>2, PTL DEF Spec

\* Resent, raised, retried or lost, an operation takes effect once (envelope.ts `enter`,
\* `retryOnce`, register-store.ts).
THEOREM AnOperationTakesEffectOnce == Spec => []EffectOnce
<1>1. RegisterInv => EffectOnce
  BY DEF RegisterInv, IdentityInv
<1> QED BY <1>1, RegisterIsKept, PTL

\* Whatever a command carries, and whether it is audited or not, what is applied on the chain
\* is what the register holds as applied, each record told once; an unaudited command tells
\* nothing; a replay follows what it replays (envelope.ts `answerOf`, `replayed`,
\* `recordFailure`; audit.ts `writeAppliedEvents`).
THEOREM TheChainTellsTheRegister == Spec => []ChainTellsTheRegister
<1>1. ASSUME RegisterInv PROVE ChainTellsTheRegister
  <2>1. AppliedOnce /\ RowsAreTold /\ EffectOnce /\ TypeOK
    BY <1>1 DEF RegisterInv, EventsInv, IdentityInv
  <2>2. ASSUME NEW i \in DOMAIN chain PROVE chain[i].op \in Ops
    <3>1. chain[i] \in EventRows
      BY <2>1 DEF TypeOK
    <3> QED BY <3>1 DEF EventRows
  <2>3. ASSUME NEW c \in effects, register[OpOf[c]].outcome = "applied"
        PROVE  c \in Audited <=> \E i \in DOMAIN chain : chain[i].op = OpOf[c] /\ At(i, "applied")
    <3>1. c \in Calls /\ OpOf[c] \in Ops /\ register[OpOf[c]] \in Rows
      BY <2>1, OperationRegisterAssumption DEF TypeOK
    <3>2. Settled(c, "applied")
      BY <2>1, <2>3, <3>1 DEF EffectOnce, Settled, Rows, None
    <3>3. c \in Audited => \E i \in DOMAIN chain : chain[i].op = OpOf[c] /\ At(i, "applied")
      BY <2>1, <3>1, <3>2 DEF RowsAreTold, AppliedAt
    <3>4. ASSUME NEW i \in DOMAIN chain, chain[i].op = OpOf[c], At(i, "applied") PROVE c \in Audited
      BY <2>1, <2>3, <3>4 DEF AppliedOnce, EffectOnce
    <3> QED BY <3>3, <3>4
  <2>4. ASSUME NEW i \in DOMAIN chain, NEW j \in DOMAIN chain, At(i, "applied"), At(j, "applied"),
               chain[i].op = chain[j].op, chain[i].record = chain[j].record
        PROVE  i = j
    <3>1. i \in AppliedAt(chain[i].op) /\ j \in AppliedAt(chain[i].op) /\ chain[i].op \in Ops
      BY <2>2, <2>4 DEF AppliedAt
    <3> QED BY <2>1, <2>4, <3>1 DEF AppliedOnce
  <2>5. \A j \in DOMAIN chain : At(j, "replayed") =>
          \E i \in 1..(j - 1) : chain[i].op = chain[j].op /\ chain[i].outcome \in {"applied", "refused"}
    BY <2>1 DEF RowsAreTold, ToldBefore
  <2>6. \A i \in DOMAIN chain : At(i, "applied") =>
          /\ chain[i].call \in effects /\ register[chain[i].op].outcome = "applied"
          /\ chain[i].record > 0 => Follows(i)
    BY <2>1 DEF AppliedOnce
  <2> QED BY <2>3, <2>4, <2>5, <2>6 DEF ChainTellsTheRegister
<1> QED BY <1>1, RegisterIsKept, PTL

\* Nothing lands once a part of the caller's standing that it holds has ended: the session
\* whose keys it holds, the grant and the membership that turn on the chain it holds, the
\* agent's rows it holds for share (envelope.ts `refusedAtCommit`, ending-keys.ts,
\* agent-standing.ts). A part it does not hold may have ended.
THEOREM LandsWhileStanding == Spec => LandsOnlyWhileStanding
<1>1. RegisterInv =>
        \A c \in Calls :
          phase[c] = "committing" /\ phase'[c] \in {"answering", "failing"} => ~Gone(c, Firm(c))
  BY DEF RegisterInv, StandingInv, CommitsStanding
<1> QED BY <1>1, RegisterIsKept, PTL DEF LandsOnlyWhileStanding, Spec

---------------------------------------------------------------------------

\* A step that leaves the register alone and answers nobody keeps the promise by saying
\* nothing; one that lands settles an identity nobody settled; an answer tells what is settled.
LEMMA EveryStepKeepsThePromise ==
  ASSUME IdentityInv, [Next]_vars
  PROVE  [Once!Next]_<<register, answer>>
<1>1. ASSUME NEW c \in Calls, phase[c] = "committing", Lands(c), answer' = answer
      PROVE  [Once!Next]_<<register, answer>>
  <2>1. CASE pend[c].row = "none"
    BY <1>1, <2>1 DEF Lands
  <2>2. CASE pend[c].row # "none"
    <3>1. pend[c].row \in {"applied", "refused"}
      BY <2>2, PendingShapes DEF IdentityInv, TypeOK
    <3>2. register[OpOf[c]] = None
      BY <1>1, <2>2 DEF IdentityInv, PendingAgrees, Agrees, Held
    <3>3. register' = [register EXCEPT ![OpOf[c]] =
                         [outcome |-> pend[c].row, payload |-> PayloadOf[c]]]
      BY <1>1, <2>2 DEF Lands
    <3>4. Once!Settle(c)
      BY <1>1, <3>1, <3>2, <3>3 DEF Once!Settle, Once!None, None, Once!Outcomes
    <3> QED BY <3>4 DEF Once!Next
  <2> QED BY <2>1, <2>2
<1>2. ASSUME NEW c \in Calls, NEW a \in {"applied", "refused", "reused", "withheld", "later", "fault", "lost"},
             phase[c] # "over", Tell(c, a), UNCHANGED register,
             a \in {"applied", "refused"} => Settled(c, a), a = "reused" => Differs(c)
      PROVE  [Once!Next]_<<register, answer>>
  <2>1. answer[c] = "none"
    BY <1>2 DEF IdentityInv, PendingAgrees, Agrees
  <2>2. Once!Tell(c, a)
    BY <1>2, <2>1 DEF Once!Tell, Once!Outcomes, Once!None, None, Tell, Settled, Differs
  <2>3. a \in Once!Outcomes \cup {"reused", "withheld", "later", "fault", "lost"}
    BY <1>2 DEF Once!Outcomes
  <2> QED BY <2>2, <2>3 DEF Once!Next
<1>3. ASSUME NEW c \in Calls, Answer(c) PROVE [Once!Next]_<<register, answer>>
  <2>1. phase[c] = "answering" /\ Tell(c, pend[c].says) /\ UNCHANGED register
    BY <1>3 DEF Answer, committed
  <2>2. /\ pend[c] \in Pending /\ pend[c].says # "none"
        /\ pend[c].says \in {"applied", "refused"} => Settled(c, pend[c].says)
        /\ pend[c].says = "reused" => Differs(c)
    BY <2>1 DEF IdentityInv, TypeOK, PendingAgrees, Agrees
  <2>3. pend[c].says \in {"applied", "refused", "later", "withheld", "reused"}
    BY <2>2, PendingShapes
  <2> QED BY <1>2, <2>1, <2>2, <2>3
<1>4. ASSUME NEW c \in Calls, RecordFailure(c) \/ Crash(c) PROVE [Once!Next]_<<register, answer>>
  BY <1>2, <1>4 DEF RecordFailure, Crash, committed
<1>5. ASSUME NEW c \in Calls, Admit(c) PROVE [Once!Next]_<<register, answer>>
  <2>1. phase[c] # "over" /\ UNCHANGED register /\ (UNCHANGED answer \/ Tell(c, "later"))
    BY <1>5 DEF Admit, committed
  <2> QED BY <1>2, <2>1
<1>6. ASSUME NEW c \in Calls, Commit(c) \/ LoseAcknowledgement(c)
      PROVE  [Once!Next]_<<register, answer>>
  BY <1>1, <1>6 DEF Commit, LoseAcknowledgement
<1>7. ASSUME NEW c \in Calls, \/ Send(c) \/ Enter(c) \/ Authorise(c) \/ Work(c) \/ Audit(c) \/ Judge(c)
                              \/ \E again \in BOOLEAN : Raise(c, again)
      PROVE  UNCHANGED <<register, answer>>
  BY <1>7 DEF Send, Enter, Authorise, Work, Audit, Judge, Raise, committed
<1>8. Turns => UNCHANGED <<register, answer>>
  BY TurnsAlone DEF IdentityInv
<1>9. UNCHANGED vars => UNCHANGED <<register, answer>>
  BY DEF vars, committed
<1> QED BY <1>3, <1>4, <1>5, <1>6, <1>7, <1>8, <1>9 DEF Next, Runs, Finished, Turns

\* The register implements the promise made to a client that resends: what an operation
\* came to is settled once, and every answer that names it names that (envelope.ts `replay`).
THEOREM ThePromiseIsKept == Spec => KeepsThePromise
<1>1. Init => Once!Init
  BY DEF Init, Once!Init, Once!None, None
<1>2. RegisterInv /\ [Next]_vars => [Once!Next]_<<register, answer>>
  BY EveryStepKeepsThePromise DEF RegisterInv
<1> QED BY <1>1, <1>2, RegisterIsKept, PTL DEF Spec, KeepsThePromise, Once!Spec
===========================================================================
