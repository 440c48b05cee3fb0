------------------------- MODULE OperationRegister -------------------------
(***************************************************************************)
(* The repeat-request register of the command surface                      *)
(* (core-commands/src/commands/envelope.ts): one request per identity at a *)
(* time, a register row beside the effect, an audit event on the chain, a  *)
(* last check of the caller's standing, one retry, and a failure event in  *)
(* a transaction of its own.  Clients resend; servers die.                 *)
(***************************************************************************)
EXTENDS Naturals, Sequences, FiniteSets

CONSTANTS Calls,      \* requests a client sends, resends included
          Ops,        \* operation identities
          OpOf,       \* the identity a call carries
          PayloadOf,  \* the body it carries, its command included
          Payloads,
          EntryOf,    \* the prefix a call came in by: person or agent
          Self,       \* calls of commands that reach the caller's own rows and ask no grant
          Audited,    \* calls of commands whose applied attempt joins the audit chain
          MaxCarried, \* bound: other records an applied command names on the chain
          MaxFaults,  \* bound: raised statements and lost acknowledgements
          MaxTurns    \* bound: times a part of a standing ends or is given back

Entries == {"person", "agent"}

\* What a caller stands on: the session; who it acts as (a person's membership and actor; an
\* agent's mapping, actor and delegation); the grant; and what the clock alone ends.
Parts == {"session", "actor", "grant", "term"}

ASSUME OperationRegisterAssumption ==
  /\ OpOf \in [Calls -> Ops]
  /\ PayloadOf \in [Calls -> Payloads]
  /\ EntryOf \in [Calls -> Entries]
  /\ Self \subseteq Calls /\ Audited \subseteq Calls
  /\ \A c \in Calls : c \in Audited \/ c \in Self
  /\ \A c \in Calls : EntryOf[c] = "agent" => c \in Audited /\ c \notin Self
  /\ \A c, d \in Calls :
       OpOf[c] = OpOf[d] /\ PayloadOf[c] = PayloadOf[d] => (c \in Audited <=> d \in Audited)
  /\ MaxCarried \in Nat /\ MaxFaults \in Nat /\ MaxTurns \in Nat

VARIABLES register,  \* committed: the operations rows
          effects,   \* committed: the calls whose handler's writes are kept
          chain,     \* committed: the audit events, in order
          ended,     \* committed: the parts of an entry's standing that are over
          phase,     \* where each call is
          tries,     \* attempts its entry has spent
          doors,     \* calls holding their identity's advisory lock
          link,      \* the call holding the business's audit chain
          shares,    \* agent calls holding their standing's rows for share
          keys,      \* calls holding their session's ending keys shared
          pend,      \* what a call's transaction will commit and answer
          answer,    \* what the client was told
          faults, turns

committed == <<register, effects, chain, ended>>
locks == <<doors, link, shares, keys>>
bounds == <<faults, turns>>
vars == <<committed, phase, tries, locks, pend, answer, bounds>>

None == [outcome |-> "none"]

IsAgent(c) == EntryOf[c] = "agent"
Gone(c, parts) == \E p \in parts : <<EntryOf[c], p>> \in ended
Held == {"auditing", "judging", "committing"}  \* an outcome is in hand
InTransaction == {"authorising", "working"} \cup Held

\* What the preparation asks (a command on one's own rows asks no grant, an agent's answers
\* to its delegation), and what the last check asks of a call that keeps something.
Prepared(c) == IF IsAgent(c) THEN Parts \ {"session"}
               ELSE IF c \in Self THEN {} ELSE {"grant", "term"}
Asked(c) == IF c \in Self THEN {"session", "actor"} ELSE Parts

---------------------------------------------------------------------------

\* What an attempt may come to: its register row, whether the handler's writes are kept, its
\* event on the chain and how many of them, the answer, and what its last check asks.
Outcome(row, keeps, event, tells, says, asks) ==
  [row |-> row, keeps |-> keeps, event |-> event, tells |-> tells, says |-> says, asks |-> asks]

Nothing == Outcome("none", FALSE, "none", 0, "none", {})

\* An applied command tells its own record and each other its write changed; one that is not
\* audited tells nothing. A refusal is told whatever the command.
Told(c) == IF c \in Audited THEN 1..(MaxCarried + 1) ELSE {0}
Applied(c, asks) == {Outcome("applied", TRUE, "applied", n, "applied", asks) : n \in Told(c)}
Retained(asks) == Outcome("refused", TRUE, "refused", 1, "refused", asks)
Refused == Outcome("refused", FALSE, "refused", 1, "refused", {})

\* Refusals that hold no row; the one at the last check names no identity either.
Unheld(says) == Outcome("none", FALSE, "refused", 1, says, {})
Unnamed == Outcome("none", FALSE, "unnamed", 1, "later", {})

\* The replay of a refusal is told, and that of a success when the command is audited.
Slip_Joins(c, outcome) == TRUE  \* Slip: whether the command is audited is not asked
Joins(c, outcome) == outcome = "refused" \/ c \in Audited
Replayed(c, outcome, asks) ==
  Outcome("none", FALSE, "replayed", IF Joins(c, outcome) THEN 1 ELSE 0, outcome, asks)

\* An act on authority is not asked its grant again, as it may have changed it; the one that
\* ends its own caller's access is asked about its session alone.
EndsOwnAccess(p) == p.asks = {"session"}

Outcomes(c) ==
  {Refused} \cup Applied(c, Asked(c)) \cup
  IF IsAgent(c) THEN {Retained({}), Retained(Parts \ {"grant"})}
  ELSE {Unheld("later")} \cup
       IF c \in Self THEN {}
       ELSE {Retained(Asked(c))} \cup Applied(c, Asked(c) \ {"grant"}) \cup Applied(c, {"session"})

---------------------------------------------------------------------------

Init ==
  /\ register = [o \in Ops |-> None]
  /\ effects = {}
  /\ chain = <<>>
  /\ ended = {}
  /\ phase = [c \in Calls |-> "unsent"]
  /\ tries = [c \in Calls |-> 0]
  /\ doors = {} /\ link = {} /\ shares = {} /\ keys = {}
  /\ pend = [c \in Calls |-> Nothing]
  /\ answer = [c \in Calls |-> "none"]
  /\ faults = 0 /\ turns = 0

Goes(c, p) == phase' = [phase EXCEPT ![c] = p]

\* An outcome that tells the chain waits for it first; one that does not is judged at once.
Comes(c, p) == /\ pend' = [pend EXCEPT ![c] = p]
               /\ Goes(c, IF p.tells > 0 THEN "auditing" ELSE "judging")

Tell(c, a) == /\ answer' = [answer EXCEPT ![c] = a]
              /\ pend' = [pend EXCEPT ![c] = Nothing]
              /\ Goes(c, "over")

Send(c) ==
  /\ phase[c] = "unsent"
  /\ Goes(c, "door")
  /\ UNCHANGED <<committed, tries, locks, pend, answer, bounds>>

\* The login resolved: a caller whose session is over, or who acts as nobody here, is turned
\* away and nothing is written. An agent's delegation is not looked at yet.
Admit(c) ==
  /\ phase[c] = "door"
  /\ \/ /\ ~Gone(c, IF IsAgent(c) THEN {"session"} ELSE {"session", "actor"})
        /\ Goes(c, "queueing")
        /\ UNCHANGED <<pend, answer>>
     \/ Gone(c, {"session", "actor"}) /\ Tell(c, "later")
  /\ UNCHANGED <<committed, tries, locks, bounds>>

\* A stored answer as a repeated request finds it: refused for another body, a stored
\* refusal as it is, a stored success only to a caller the preparation would let in now, and
\* a receipt only while its lease is still the caller's. An agent's take, and a helper's
\* hand-back, are released to the credential and asked nothing.
Slip_Stored(c) == {Replayed(c, register[OpOf[c]].outcome, {})}  \* Slip: the digest is not compared
Stored(c) ==
  LET row == register[OpOf[c]]
      asks == IF IsAgent(c) THEN Prepared(c) ELSE Asked(c)
  IN CASE row.payload # PayloadOf[c] -> {Unheld("reused")}
       [] row.payload = PayloadOf[c] /\ row.outcome = "refused" -> {Replayed(c, "refused", {})}
       [] OTHER -> {Unheld("withheld")}
                   \cup (IF Gone(c, Prepared(c)) THEN {} ELSE {Replayed(c, "applied", asks)})
                   \cup IF IsAgent(c) THEN {Replayed(c, "applied", {})} ELSE {}

\* `enter`: one request per identity at a time, then the register.
Slip_DoorFree(c) == TRUE  \* Slip: the identity's lock is not taken
DoorFree(c) == \A d \in doors : OpOf[d] # OpOf[c]

Enter(c) ==
  /\ phase[c] = "queueing"
  /\ DoorFree(c)
  /\ doors' = doors \cup {c}
  /\ \/ register[OpOf[c]] = None /\ Goes(c, "authorising") /\ UNCHANGED pend
     \/ register[OpOf[c]] # None /\ \E p \in Stored(c) : Comes(c, p)
  /\ UNCHANGED <<committed, tries, link, shares, keys, answer, bounds>>

\* The preparation: a caller without the right is refused, and the refusal is kept, unless
\* it asks a person for a step-up.
Unprepared(c) == {Refused} \cup IF IsAgent(c) THEN {} ELSE {Unheld("later")}

Authorise(c) ==
  /\ phase[c] = "authorising"
  /\ \/ ~Gone(c, Prepared(c)) /\ Goes(c, "working") /\ UNCHANGED pend
     \/ Gone(c, Prepared(c)) /\ \E p \in Unprepared(c) : Comes(c, p)
  /\ UNCHANGED <<committed, tries, locks, answer, bounds>>

\* The handler. An agent's that will be judged holds the rows its standing rests on for
\* share from here to the end.
Work(c) ==
  /\ phase[c] = "working"
  /\ \E p \in Outcomes(c) :
       /\ Comes(c, p)
       /\ shares' = IF IsAgent(c) /\ p.asks # {} THEN shares \cup {c} ELSE shares
  /\ UNCHANGED <<committed, tries, doors, link, keys, answer, bounds>>

\* What is to be told waits on the business's chain: an event's trigger takes it, and an
\* agent's judgement before its event. It is held to the end.
Audit(c) ==
  /\ phase[c] = "auditing" /\ link = {}
  /\ link' = {c}
  /\ Goes(c, "judging")
  /\ UNCHANGED <<committed, tries, doors, shares, keys, pend, answer, bounds>>

\* The last check holds the ending keys shared when it is an agent's, or the act that ends
\* its caller's own access; any other command of a person's reads the endings and holds none.
Slip_HoldsKeys(c) == FALSE  \* Slip: the session is read without its keys
HoldsKeys(c) == pend[c].keeps /\ pend[c].asks # {} /\ (IsAgent(c) \/ EndsOwnAccess(pend[c]))

\* After the last wait: a caller the door would now refuse keeps nothing, nor does a success
\* its own last check refuses (its lease is another's). The rollback to the savepoint lets
\* go of what was taken since, and the refusal waits for the chain. It holds no identity but
\* a replay's, and an agent's own last check's, which is kept as any refusal of its handler.
Succeeds(p) == p.row = "applied" \/ (p.event = "replayed" /\ p.says = "applied")
TooLate(c) ==
  CASE pend[c].event = "replayed" -> Unheld("withheld")
    [] IsAgent(c) /\ pend[c].row = "applied" /\ ~Gone(c, pend[c].asks) -> Refused
    [] OTHER -> Unnamed

Judge(c) ==
  /\ phase[c] = "judging"
  /\ \/ /\ ~Gone(c, pend[c].asks)
        /\ keys' = IF HoldsKeys(c) THEN keys \cup {c} ELSE keys
        /\ Goes(c, "committing")
        /\ UNCHANGED <<pend, link, shares>>
     \/ /\ Gone(c, pend[c].asks) \/ Succeeds(pend[c])
        /\ Comes(c, TooLate(c))
        /\ link' = link \ {c} /\ shares' = shares \ {c}
        /\ UNCHANGED keys
  /\ UNCHANGED <<committed, tries, doors, answer, bounds>>

Slip_LetGo(c) == link' = link \ {c} /\ shares' = shares \ {c} /\ keys' = keys \ {c} /\ UNCHANGED doors  \* Slip: the identity's lock is the session's, not the transaction's
LetGo(c) == /\ doors' = doors \ {c} /\ link' = link \ {c}
            /\ shares' = shares \ {c} /\ keys' = keys \ {c}

\* The events of one commit, in order: the first names the command's own record (0), the
\* others the records it carried with it.
Events(c, outcome, n) ==
  [k \in 1..n |-> [call |-> c, op |-> OpOf[c], outcome |-> outcome, record |-> k - 1]]

\* The whole attempt lands at once: row, effect and events; and the caller's own access,
\* when that is what it ended.
Lands(c) ==
  /\ register' = IF pend[c].row = "none" THEN register
                 ELSE [register EXCEPT ![OpOf[c]] =
                         [outcome |-> pend[c].row, payload |-> PayloadOf[c]]]
  /\ effects' = IF pend[c].keeps THEN effects \cup {c} ELSE effects
  /\ chain' = chain \o Events(c, pend[c].event, pend[c].tells)
  /\ ended' = IF EndsOwnAccess(pend[c])
                THEN ended \cup ({EntryOf[c]} \X {"actor", "grant"}) ELSE ended

Commit(c) ==
  /\ phase[c] = "committing"
  /\ Lands(c)
  /\ LetGo(c)
  /\ Goes(c, "answering")
  /\ UNCHANGED <<tries, pend, answer, bounds>>

Answer(c) ==
  /\ phase[c] = "answering"
  /\ Tell(c, pend[c].says)
  /\ UNCHANGED <<committed, tries, locks, bounds>>

\* `retryOnce`: once more in a fresh transaction after a lost race; any other fault, or
\* a second one, is recorded on the person's entry and then handed to the caller.
Slip_Again(c, retryable) == retryable  \* Slip: a fault of any number is retried
Again(c, retryable) == retryable /\ tries[c] = 0

Raised(c, retryable) ==
  /\ pend' = [pend EXCEPT ![c] = Nothing]
  /\ IF Again(c, retryable)
       THEN Goes(c, "door") /\ tries' = [tries EXCEPT ![c] = @ + 1]
       ELSE Goes(c, "failing") /\ UNCHANGED tries

\* A statement raises: the driver rolls the whole transaction back.
Raise(c, retryable) ==
  /\ phase[c] \in InTransaction
  /\ faults < MaxFaults /\ faults' = faults + 1
  /\ LetGo(c)
  /\ Raised(c, retryable)
  /\ UNCHANGED <<committed, answer, turns>>

\* The server commits, and its acknowledgement is lost on the way: not a retryable fault.
LoseAcknowledgement(c) ==
  /\ phase[c] = "committing"
  /\ faults < MaxFaults /\ faults' = faults + 1
  /\ Lands(c)
  /\ LetGo(c)
  /\ Raised(c, FALSE)
  /\ UNCHANGED <<answer, turns>>

\* The fault goes to the caller. The person's entry first writes the failed attempt's
\* event, audited or not, in a transaction of its own, which resolves the login again and
\* may fail too; the agent's writes none.
RecordFailure(c) ==
  /\ phase[c] = "failing"
  /\ \/ /\ ~IsAgent(c) /\ link = {} /\ ~Gone(c, {"session", "actor"})
        /\ chain' = chain \o Events(c, "failed", 1)
     \/ UNCHANGED chain
  /\ Tell(c, "fault")
  /\ UNCHANGED <<register, effects, ended, tries, locks, bounds>>

\* The process dies, before its commit or after: the client hears nothing.
Crash(c) ==
  /\ phase[c] \notin {"unsent", "over"}
  /\ LetGo(c)
  /\ Tell(c, "lost")
  /\ UNCHANGED <<committed, tries, bounds>>

\* A part of a standing ends by a transaction of somebody else's, in one step here.
Ends(e, part) ==
  /\ turns < MaxTurns /\ turns' = turns + 1
  /\ <<e, part>> \notin ended /\ ended' = ended \cup {<<e, part>>}
  /\ UNCHANGED <<register, effects, chain, phase, tries, locks, pend, answer, faults>>

\* A session: by a sign-out here, a sign-out or an ending of the others through any business,
\* or a reset's window. Each holds the ending keys; not each the business's chain.
EndSession(e) == (\A c \in keys : EntryOf[c] # e) /\ Ends(e, "session")

\* A grant, or a person's membership: by a command of this business, told on its chain.
RevokeGrant(e) == link = {} /\ Ends(e, "grant")
EndAccess == link = {} /\ Ends("person", "actor")

\* An agent's delegation, actor or mapping: its rows are updated, and no event need be
\* written (a recovery pass, a stop of the login).
StopAgent == (\A c \in shares : ~IsAgent(c)) /\ Ends("agent", "actor")

\* A grant, a step-up, a credential or a delegation runs out: time takes no lock.
RunOut(e) == Ends(e, "term")

\* A grant is given again, told on the chain.
Regrant(e) ==
  /\ link = {}
  /\ turns < MaxTurns /\ turns' = turns + 1
  /\ <<e, "grant">> \in ended /\ ended' = ended \ {<<e, "grant">>}
  /\ UNCHANGED <<register, effects, chain, phase, tries, locks, pend, answer, faults>>

Turn(e) == EndSession(e) \/ RevokeGrant(e) \/ RunOut(e) \/ Regrant(e)

Runs(c) == \/ Admit(c) \/ Enter(c) \/ Authorise(c) \/ Work(c) \/ Audit(c) \/ Judge(c)
           \/ Commit(c) \/ Answer(c) \/ RecordFailure(c)

\* Every request sent is over; the clients need send no more.
Finished == (\A c \in Calls : phase[c] \in {"unsent", "over"}) /\ UNCHANGED vars

Next == \/ \E c \in Calls : \/ Send(c) \/ Runs(c) \/ Crash(c) \/ LoseAcknowledgement(c)
                            \/ \E retryable \in BOOLEAN : Raise(c, retryable)
        \/ \E e \in Entries : Turn(e)
        \/ EndAccess \/ StopAgent
        \/ Finished

Spec == Init /\ [][Next]_vars
FairSpec == Spec /\ \A c \in Calls : WF_vars(Runs(c))

---------------------------------------------------------------------------

Phases == {"unsent", "door", "queueing", "failing", "answering", "over"} \cup InTransaction
Rows == {None} \cup [outcome : {"applied", "refused"}, payload : Payloads]
EventRows == [call : Calls, op : Ops, record : 0..MaxCarried,
              outcome : {"applied", "refused", "unnamed", "replayed", "failed"}]

\* A row says what the caller is told, the handler's writes are only kept beside one, and an
\* applied row is told on the chain as applied.
Pending ==
  {p \in [row : {"none", "applied", "refused"}, keeps : BOOLEAN,
          event : {"none", "applied", "refused", "unnamed", "replayed"},
          tells : 0..(MaxCarried + 1),
          says : {"none", "applied", "refused", "later", "withheld", "reused"},
          asks : SUBSET Parts] :
     /\ p.row # "none" => p.says = p.row /\ p.event = p.row
     /\ p.keeps => p.row # "none"
     /\ p.row = "applied" <=> p.event = "applied"
     /\ p.row = "applied" => p.keeps
     /\ p.event = "none" <=> p.says = "none"}

TypeOK ==
  /\ register \in [Ops -> Rows]
  /\ effects \subseteq Calls
  /\ chain \in Seq(EventRows)
  /\ ended \subseteq Entries \X Parts
  /\ phase \in [Calls -> Phases]
  /\ tries \in [Calls -> {0, 1}]
  /\ doors \subseteq Calls /\ link \subseteq Calls /\ shares \subseteq Calls /\ keys \subseteq Calls
  /\ pend \in [Calls -> Pending]
  /\ answer \in [Calls -> {"none", "applied", "refused", "later", "withheld", "reused", "fault", "lost"}]
  /\ faults \in 0..MaxFaults /\ turns \in 0..MaxTurns

\* However often an operation is sent, raised, retried or resent after a lost answer, its
\* effect is kept by one call at most, and an applied row stands beside exactly that.
EffectOnce ==
  /\ \A c, d \in effects : OpOf[c] = OpOf[d] => c = d
  /\ \A o \in Ops : register[o].outcome = "applied" => \E c \in effects : OpOf[c] = o
  /\ \A c \in effects : register[OpOf[c]] # None /\ register[OpOf[c]].payload = PayloadOf[c]

\* The chain and the register tell one story. What is applied on the chain is an operation
\* the register holds as applied, by the call whose effect it kept: told if its command is
\* audited and else not, each record it changed told once, all in one run of events. And a
\* replay is told after what it replays.
At(i, outcome) == chain[i].outcome = outcome
Follows(i) == /\ i > 1 /\ At(i - 1, "applied") /\ chain[i - 1].call = chain[i].call
              /\ chain[i - 1].record = chain[i].record - 1

ChainTellsTheRegister ==
  /\ \A i \in DOMAIN chain : At(i, "applied") =>
       /\ chain[i].call \in effects /\ register[chain[i].op].outcome = "applied"
       /\ chain[i].record > 0 => Follows(i)
  /\ \A c \in effects : register[OpOf[c]].outcome = "applied" =>
       (c \in Audited <=> \E i \in DOMAIN chain : chain[i].op = OpOf[c] /\ At(i, "applied"))
  /\ \A i, j \in DOMAIN chain :
       At(i, "applied") /\ chain[i].op = chain[j].op /\ At(j, "applied")
         /\ chain[i].record = chain[j].record => i = j
  /\ \A j \in DOMAIN chain : At(j, "replayed") =>
       \E i \in 1..(j - 1) : chain[i].op = chain[j].op /\ chain[i].outcome \in {"applied", "refused"}

\* What the last check asked and something holds to the commit: the session, of an agent's
\* write and of the act that ends its caller's access; the grant, of all that joins the
\* chain, an agent's replay too; a person's membership likewise; an agent's rows, when it
\* keeps something. The rest stood at the last look, and no longer need.
Firm(c) ==
  {p \in pend[c].asks :
     \/ p = "session" /\ pend[c].keeps /\ (IsAgent(c) \/ pend[c].asks = {"session"})
     \/ p = "grant" /\ pend[c].tells > 0
     \/ p = "actor" /\ IF IsAgent(c) THEN pend[c].keeps ELSE pend[c].tells > 0}

\* Nothing lands, and no stored success is released, once a part of the caller's standing
\* that something holds has ended: not in the wait for the chain, nor after the last look.
LandsOnlyWhileStanding ==
  [][\A c \in Calls :
       phase[c] = "committing" /\ phase'[c] \in {"answering", "failing"} => ~Gone(c, Firm(c))]_vars

\* "A write that read the login's sessions live commits first" (sessions.ts openResetWindow):
\* no session ends between a write's last read of it and that write's commit.
LiveReadCommitsFirst ==
  [][\A c \in Calls :
       phase[c] = "committing" /\ pend[c].keeps /\ "session" \in pend[c].asks
         /\ <<EntryOf[c], "session">> \in ended' => <<EntryOf[c], "session">> \in ended]_vars

\* Every request that reaches the server comes to an end.
CallsEnd == \A c \in Calls : (phase[c] = "door") ~> (phase[c] = "over")

\* The promise to a client that resends, implemented.
Once == INSTANCE OperationOnce WITH settled <- register, told <- answer
KeepsThePromise == Once!Spec

\* The inductive invariant behind the proofs: the call that holds an identity's door is
\* the only one to judge it, and what it will say agrees with what it will have settled.
Settled(c, o) == register[OpOf[c]] = [outcome |-> o, payload |-> PayloadOf[c]]
Differs(c) == /\ register[OpOf[c]] # None
              /\ register[OpOf[c]].payload # PayloadOf[c]

DoorIsExclusive ==
  /\ \A c \in Calls : c \in doors <=> phase[c] \in InTransaction
  /\ \A c, d \in doors : OpOf[c] = OpOf[d] => c = d

Agrees(c) ==
  /\ phase[c] \in {"authorising", "working"} => register[OpOf[c]] = None
  /\ phase[c] \in Held /\ pend[c].row # "none" => register[OpOf[c]] = None
  /\ phase[c] \in Held \cup {"answering"} => pend[c].says # "none"
  /\ phase[c] = "answering" \/ (phase[c] \in Held /\ pend[c].row = "none") =>
       /\ pend[c].says \in {"applied", "refused"} => Settled(c, pend[c].says)
       /\ pend[c].says = "reused" => Differs(c)
  /\ phase[c] # "over" => answer[c] = "none"

PendingAgrees == \A c \in Calls : Agrees(c)

IdentityInv == TypeOK /\ DoorIsExclusive /\ PendingAgrees /\ EffectOnce

\* One call at a time holds the chain, from before its last check to its commit, and only
\* what tells it something; an agent's that will be judged holds its standing's rows; so what
\* is held still stands.
ChainIsHeld ==
  /\ \A c \in Calls : /\ c \in link <=> phase[c] \in {"judging", "committing"} /\ pend[c].tells > 0
                      /\ phase[c] = "auditing" => pend[c].tells > 0
  /\ \A c, d \in link : c = d

SharesAreHeld ==
  \A c \in Calls : IsAgent(c) /\ phase[c] \in Held /\ pend[c].keeps /\ pend[c].asks # {} => c \in shares

KeysAreHeld ==
  \A c \in Calls : phase[c] = "committing" /\ "session" \in Firm(c) => c \in keys

CommitsStanding == \A c \in Calls : phase[c] = "committing" => ~Gone(c, Firm(c))

OwnEndingIsTold ==
  \A c \in Calls : phase[c] \in Held /\ EndsOwnAccess(pend[c]) => ~IsAgent(c) /\ pend[c].tells > 0

StandingInv == ChainIsHeld /\ SharesAreHeld /\ KeysAreHeld /\ CommitsStanding /\ OwnEndingIsTold

\* What is applied on the chain is told by the call that kept the effect, record after
\* record; an audited row was told, and a refusal, before a call can replay it.
AppliedAt(o) == {i \in DOMAIN chain : chain[i].op = o /\ At(i, "applied")}
ToldBefore(o, n) == \E i \in 1..n : chain[i].op = o /\ chain[i].outcome \in {"applied", "refused"}

TellsRightly ==
  \A c \in Calls : phase[c] \in Held =>
    /\ pend[c].row = "applied" => (c \in Audited <=> pend[c].tells > 0)
    /\ pend[c].row = "refused" => pend[c].tells > 0
    /\ pend[c].event = "replayed" =>
         /\ pend[c].says \in {"applied", "refused"}
         /\ pend[c].says = "applied" /\ pend[c].tells > 0 => c \in Audited

AppliedOnce ==
  /\ \A i \in DOMAIN chain : At(i, "applied") =>
       /\ chain[i].call \in effects \cap Audited
       /\ chain[i].op = OpOf[chain[i].call] /\ register[chain[i].op].outcome = "applied"
       /\ chain[i].record > 0 => Follows(i)
  /\ \A o \in Ops : \A i, j \in AppliedAt(o) : chain[i].record = chain[j].record => i = j

RowsAreTold ==
  /\ \A c \in Calls : Settled(c, "applied") /\ c \in Audited => AppliedAt(OpOf[c]) # {}
  /\ \A o \in Ops : register[o].outcome = "refused" => ToldBefore(o, Len(chain))
  /\ \A j \in DOMAIN chain : At(j, "replayed") => ToldBefore(chain[j].op, j - 1)

EventsInv == TellsRightly /\ AppliedOnce /\ RowsAreTold

RegisterInv == IdentityInv /\ StandingInv /\ EventsInv
===========================================================================
