--------------------------- MODULE CommandLocks ---------------------------
(***************************************************************************)
(* Rows, locks and rechecks: how the runtime's commands exclude each other *)
(* (core-runtime/src/locks.ts, rediscovery.ts).  A transaction holds its   *)
(* grant row, discovers the work it will touch without locks, takes the    *)
(* complete set in LOCK_ORDER, discovers again and rolls back when the     *)
(* set outgrew its locks, performs its write, waits for the audit chain    *)
(* and commits.  Nothing it writes is seen before that.                    *)
(***************************************************************************)
EXTENDS Naturals

CONSTANTS Txs,      \* the transactions, one call of a command each
          Works,    \* pieces of work: a version with its run, lineage, gate and hold
          TaskOf,   \* the task a piece of work is on
          Menu      \* the commands this instance runs

Commands == {"decide", "pickup", "handback", "cancel", "revoke", "sweep", "call"}

ASSUME CommandLocksAssumption ==
  /\ Works \subseteq Nat
  /\ Works # {}
  /\ TaskOf \in [Works -> Nat]
  /\ Menu \subseteq Commands

VARIABLES phase,    \* idle, entry, locking, deciding, auditing or done
          cmd,      \* the command the transaction runs
          on,       \* the work the command names
          retried,  \* whether the entry already used its one retry
          found,    \* what its last discovery read
          held,     \* the rows it has locked
          wanted,   \* the rows of its set it has not locked yet
          reads,    \* the work its write was decided on
          writes,   \* its uncommitted write
          work,     \* committed: proposed, reserved, claimed or ended
          expired,  \* work whose lease has run out
          opened,   \* tasks with an open envelope
          grant     \* committed: the grant the callers stand on

calls == <<cmd, on, retried>>
rows == <<work, expired, opened, grant>>
vars == <<phase, calls, found, held, wanted, reads, writes, rows>>

\* LOCK_ORDER, between the command-layer grant row and what a model call and
\* the audit chain take after it.
Rank == [grant |-> 0, chain |-> 1, cap |-> 2, envelope |-> 3, task |-> 4, run |-> 5,
         step |-> 6, lineage |-> 7, gate |-> 8, lease |-> 9, delegation |-> 10,
         reservation |-> 11, operation |-> 12, ceiling |-> 13, route |-> 14, audit |-> 15]

Row == (DOMAIN Rank) \X Nat

Before(r, s) == \/ Rank[r[1]] < Rank[s[1]]
                \/ Rank[r[1]] = Rank[s[1]] /\ r[2] < s[2]

Nothing == [works |-> {}, opened |-> FALSE]
NoWork == [w \in {} |-> "ended"]
Set(S, state) == [w \in S |-> state]

OnTask(w) == {v \in Works : TaskOf[v] = TaskOf[w]}
Claimed(S) == {v \in S : work[v] = "claimed"}

\* What a command's discovery reads of the committed rows.
Found(c, w) ==
  [works |-> CASE c = "pickup" -> Claimed(OnTask(w))
               [] c = "cancel" -> {v \in {w} : work[v] \in {"reserved", "claimed"}}
               [] c = "revoke" -> Claimed(Works)
               [] c = "sweep"  -> Claimed(expired)
               [] OTHER -> {},
   opened |-> c = "decide" /\ work[w] = "proposed" /\ TaskOf[w] \in opened]

\* Read again under the locks.  The sweep reads both times at one instant taken
\* first: a lease that runs out meanwhile is the next pass's.
FoundAgain(c, w, before) ==
  IF c = "sweep" THEN [before EXCEPT !.works = Claimed(@)] ELSE Found(c, w)

\* The command-layer rows, taken before the runtime's set.
Slip_EntryRows(c) == IF c \in {"decide", "cancel", "revoke"} THEN {<<"grant", 0>>} ELSE {}  \* Slip: a pickup does not hold its claimant's grant
EntryRows(c) == IF c \in {"decide", "pickup", "cancel", "revoke"} THEN {<<"grant", 0>>} ELSE {}

\* locksFor and liveWorkLocks: a hold with everything above it, and its claim.
HoldRows(v) == {<<"cap", 0>>, <<"envelope", TaskOf[v]>>, <<"task", TaskOf[v]>>,
                <<"run", v>>, <<"lineage", v>>, <<"reservation", v>>}
ClaimRows(v) == {<<"lease", v>>, <<"delegation", v>>}
AffectedRows(S) == UNION {HoldRows(v) \cup ClaimRows(v) : v \in S}

\* The complete set a command locks for what it found.
SetRows(c, w, f) ==
  CASE c = "decide" -> {<<"chain", 0>>, <<"cap", 0>>, <<"task", TaskOf[w]>>, <<"run", w>>,
                        <<"lineage", w>>, <<"gate", w>>}
                       \cup (IF f.opened THEN {<<"envelope", TaskOf[w]>>} ELSE {})
    [] c = "pickup" -> HoldRows(w) \cup AffectedRows(f.works)
    [] c = "handback" -> AffectedRows({w})
    [] c = "cancel" -> {<<"run", w>>, <<"lineage", w>>} \cup AffectedRows(f.works)
    [] c = "call" -> {<<"task", TaskOf[w]>>, <<"run", w>>, <<"reservation", w>>,
                      <<"ceiling", 0>>, <<"route", 0>>} \cup ClaimRows(w)
    [] OTHER -> AffectedRows(f.works)

\* A covering grant is held for share by all but its revocation, a task by a model call.
Slip_SharedBy(c, r) == c # "revoke"  \* Slip: the set is taken `for share` like the grant
SharedBy(c, r) == \/ r[1] = "grant" /\ c # "revoke"
                  \/ r[1] = "task" /\ c = "call"

Blocks(u, t, r) == /\ u # t
                   /\ r \in held[u]
                   /\ ~(SharedBy(cmd[u], r) /\ SharedBy(cmd[t], r))

\* The row `acquire` asks for now: sorted by class, then by key.
Slip_IsNext(t, r) ==  \* Slip: a model call takes its rows in an order of its own
  r \in wanted[t] /\ \A s \in wanted[t] \ {r} : IF cmd[t] = "call" THEN Before(s, r) ELSE Before(r, s)
IsNext(t, r) == r \in wanted[t] /\ \A s \in wanted[t] \ {r} : Before(r, s)

\* sameSet and covered: whether what is found under the locks may be acted on.
Slip_SetStands(c, before, now, locked, needed) == TRUE  \* Slip: the set is not judged again
SetStands(c, before, now, locked, needed) ==
  \/ now = before
  \/ c # "revoke" /\ needed \subseteq locked

\* What the command writes, decided on the rows as they are under its locks.
FencesClaims(w) == Claimed(OnTask(w)) \subseteq expired
Effect(c, w, f) ==
  CASE c = "decide" /\ grant = "live" /\ work[w] = "proposed" -> Set({w}, "reserved")
    [] c = "pickup" /\ grant = "live" /\ work[w] = "reserved" /\ FencesClaims(w) ->
         [v \in {w} \cup f.works |-> IF v = w THEN "claimed" ELSE "ended"]
    [] c = "handback" /\ work[w] = "claimed" /\ w \notin expired -> Set({w}, "ended")
    [] c = "cancel" /\ grant = "live" /\ work[w] # "ended" -> Set({w} \cup f.works, "ended")
    [] c \in {"revoke", "sweep"} -> Set(f.works, "ended")
    [] OTHER -> NoWork

\* The rows that write stands on: every one must still read the same at commit.
Decided(c, w, f) ==
  LET S == IF c \in {"revoke", "sweep"} THEN f.works ELSE {w} \cup f.works
  IN [v \in S |-> work[v]]

---------------------------------------------------------------------------

Init ==
  /\ phase = [t \in Txs |-> "idle"]
  /\ cmd = [t \in Txs |-> "sweep"]
  /\ on = [t \in Txs |-> CHOOSE w \in Works : TRUE]
  /\ retried = [t \in Txs |-> FALSE]
  /\ found = [t \in Txs |-> Nothing]
  /\ held = [t \in Txs |-> {}]
  /\ wanted = [t \in Txs |-> {}]
  /\ reads = [t \in Txs |-> NoWork]
  /\ writes = [t \in Txs |-> NoWork]
  /\ work \in [Works -> {"proposed", "reserved", "claimed"}]
  /\ \A w \in Works : Claimed(OnTask(w)) \subseteq {w} \/ work[w] # "claimed"
  /\ expired = {}
  /\ opened = {TaskOf[w] : w \in {v \in Works : work[v] # "proposed"}}
  /\ grant = "live"

Begin(t, c, w) ==
  /\ phase[t] = "idle"
  /\ phase' = [phase EXCEPT ![t] = "entry"]
  /\ cmd' = [cmd EXCEPT ![t] = c]
  /\ on' = [on EXCEPT ![t] = w]
  /\ wanted' = [wanted EXCEPT ![t] = EntryRows(c)]
  /\ UNCHANGED <<retried, found, held, reads, writes, rows>>

\* One `select ... for update`: it waits while another transaction holds the row.
Take(t, r) ==
  /\ IsNext(t, r)
  /\ \A u \in Txs : ~Blocks(u, t, r)
  /\ held' = [held EXCEPT ![t] = @ \cup {r}]
  /\ wanted' = [wanted EXCEPT ![t] = @ \ {r}]
  /\ UNCHANGED <<phase, calls, found, reads, writes, rows>>

Discover(t) ==
  /\ phase[t] = "entry" /\ wanted[t] = {}
  /\ LET now == Found(cmd[t], on[t])
     IN /\ found' = [found EXCEPT ![t] = now]
        /\ wanted' = [wanted EXCEPT ![t] = SetRows(cmd[t], on[t], now)]
  /\ phase' = [phase EXCEPT ![t] = "locking"]
  /\ UNCHANGED <<calls, held, reads, writes, rows>>

Ended(t) ==
  /\ phase' = [phase EXCEPT ![t] = "done"]
  /\ held' = [held EXCEPT ![t] = {}]
  /\ wanted' = [wanted EXCEPT ![t] = {}]
  /\ found' = [found EXCEPT ![t] = Nothing]
  /\ reads' = [reads EXCEPT ![t] = NoWork]
  /\ writes' = [writes EXCEPT ![t] = NoWork]

\* Discover again under the locks: go on, or roll back with nothing written.
Recheck(t) ==
  LET now == FoundAgain(cmd[t], on[t], found[t])
      stands == SetStands(cmd[t], found[t], now, held[t], SetRows(cmd[t], on[t], now))
  IN /\ phase[t] = "locking" /\ wanted[t] = {}
     /\ \/ /\ stands
           /\ phase' = [phase EXCEPT ![t] = "deciding"]
           /\ found' = [found EXCEPT ![t] = now]
           /\ UNCHANGED <<calls, held, wanted, reads, writes>>
        \/ /\ ~stands /\ ~retried[t] /\ cmd[t] # "sweep"  \* the entry's one retry
           /\ phase' = [phase EXCEPT ![t] = "entry"]
           /\ retried' = [retried EXCEPT ![t] = TRUE]
           /\ held' = [held EXCEPT ![t] = {}]
           /\ wanted' = [wanted EXCEPT ![t] = EntryRows(cmd[t])]
           /\ found' = [found EXCEPT ![t] = Nothing]
           /\ UNCHANGED <<cmd, on, reads, writes>>
        \/ /\ ~stands /\ (retried[t] \/ cmd[t] = "sweep")
           /\ Ended(t)
           /\ UNCHANGED calls
     /\ UNCHANGED rows

Perform(t) ==
  /\ phase[t] = "deciding"
  /\ phase' = [phase EXCEPT ![t] = "auditing"]
  /\ writes' = [writes EXCEPT ![t] = Effect(cmd[t], on[t], found[t])]
  /\ reads' = [reads EXCEPT ![t] = Decided(cmd[t], on[t], found[t])]
  /\ wanted' = [wanted EXCEPT ![t] = {<<"audit", 0>>}]
  /\ UNCHANGED <<calls, found, held, rows>>

Commit(t) ==
  /\ phase[t] = "auditing" /\ wanted[t] = {}
  /\ work' = [w \in Works |-> IF w \in DOMAIN writes[t] THEN writes[t][w] ELSE work[w]]
  /\ opened' = IF cmd[t] = "decide" /\ writes[t] # NoWork
               THEN opened \cup {TaskOf[on[t]]} ELSE opened
  /\ grant' = IF cmd[t] = "revoke" THEN "revoked" ELSE grant
  /\ Ended(t)
  /\ UNCHANGED <<calls, expired>>

\* The connection is lost: the server rolls the transaction back.
Lose(t) ==
  /\ phase[t] \notin {"idle", "done"}
  /\ Ended(t)
  /\ UNCHANGED <<calls, rows>>

\* A worker stops renewing its lease.
Expire(w) ==
  /\ work[w] = "claimed" /\ w \notin expired
  /\ expired' = expired \cup {w}
  /\ UNCHANGED <<phase, calls, found, held, wanted, reads, writes, work, opened, grant>>

Step(t) == \/ \E r \in wanted[t] : Take(t, r)
           \/ Discover(t) \/ Recheck(t) \/ Perform(t) \/ Commit(t)

Finished == (\A t \in Txs : phase[t] = "done") /\ UNCHANGED vars

Next == \/ \E t \in Txs, c \in Menu, w \in Works : Begin(t, c, w)
        \/ \E t \in Txs : Step(t)
        \/ \E t \in Txs : Lose(t)
        \/ \E w \in Works : Expire(w)
        \/ Finished

Spec == Init /\ [][Next]_vars
FairSpec == Spec /\ \A t \in Txs : WF_vars(Step(t))

---------------------------------------------------------------------------

States == {"proposed", "reserved", "claimed", "ended"}
Choices == UNION {[S -> States] : S \in SUBSET Works}

TypeOK ==
  /\ phase \in [Txs -> {"idle", "entry", "locking", "deciding", "auditing", "done"}]
  /\ cmd \in [Txs -> Commands]
  /\ on \in [Txs -> Works]
  /\ retried \in [Txs -> BOOLEAN]
  /\ found \in [Txs -> [works : SUBSET Works, opened : BOOLEAN]]
  /\ held \in [Txs -> SUBSET Row]
  /\ wanted \in [Txs -> SUBSET Row]
  /\ reads \in [Txs -> Choices]
  /\ writes \in [Txs -> Choices]
  /\ work \in [Works -> States]
  /\ expired \subseteq Works
  /\ grant \in {"live", "revoked"}

\* Transactions that wait for each other in a ring are a deadlock Postgres would break
\* with 40P01; LOCK_ORDER exists so that no handler can close such a ring.
WaitsFor(t, u) == \E r \in wanted[t] : IsNext(t, r) /\ Blocks(u, t, r)
CircularWait(S) ==
  S # {} /\ \A t \in S : (\E u \in S : WaitsFor(t, u)) /\ (\E u \in S : WaitsFor(u, t))
NoCircularWait == \A S \in SUBSET Txs : ~CircularWait(S)

\* Whatever grew between the two discoveries, a transaction writes only work whose run
\* it holds, and ends a claim only under the lease and reservation it ends.
WritesUnderItsLocks ==
  \A t \in Txs : \A v \in DOMAIN writes[t] :
    /\ <<"run", v>> \in held[t]
    /\ reads[t][v] = "claimed" => <<"lease", v>> \in held[t] /\ <<"reservation", v>> \in held[t]

\* What a command decided under its locks is still so when its write lands, whatever
\* committed while it waited for the audit chain: no lost update and no write skew.
CommitsWhatItRead ==
  [][\A t \in Txs : (phase[t] = "auditing" /\ phase'[t] = "done" /\ work' # work) =>
        \A w \in DOMAIN reads[t] : work[w] = reads[t][w]]_vars

\* grant.revoke ends every claim that stood on the grant: a pickup either committed
\* before it looked, or waits for it and is refused.
NoClaimOutlivesItsGrant == grant = "revoked" => Claimed(Works) = {}

\* Every call is answered: locks are only waited for upwards, and their holders finish.
CallsAreAnswered == \A t \in Txs : (phase[t] = "entry") ~> (phase[t] = "done")

\* The inductive invariant behind the proofs: rows are held upwards, the grant is held
\* from before the discovery to the end, and a revocation has found every claim there is.
RowsHeldUpwards ==
  \A t \in Txs :
    /\ phase[t] \in {"idle", "done"} => held[t] = {} /\ wanted[t] = {}
    /\ phase[t] = "entry" => \A r \in held[t] \cup wanted[t] : r = <<"grant", 0>>
    /\ phase[t] = "deciding" => wanted[t] = {}
    /\ phase[t] \in {"locking", "deciding"} =>
         \A r \in held[t] \cup wanted[t] : Rank[r[1]] < Rank["audit"]
    /\ \A r \in held[t], s \in wanted[t] : Before(r, s)

GrantIsHeld ==
  \A t \in Txs :
    /\ phase[t] = "entry" => EntryRows(cmd[t]) \subseteq held[t] \cup wanted[t]
    /\ phase[t] \in {"locking", "deciding", "auditing"} => EntryRows(cmd[t]) \subseteq held[t]
    /\ \A u \in Txs \ {t} : <<"grant", 0>> \in held[t] \cap held[u] => cmd[t] # "revoke"

RevocationIsComplete ==
  \A t \in Txs :
    /\ phase[t] \in {"deciding", "auditing"} /\ cmd[t] = "revoke" => Claimed(Works) \subseteq found[t].works
    /\ phase[t] = "auditing" /\ cmd[t] = "revoke" => writes[t] = Set(found[t].works, "ended")
    /\ phase[t] # "auditing" => writes[t] = NoWork
    /\ \A v \in DOMAIN writes[t] : writes[t][v] = "claimed" => cmd[t] = "pickup" /\ grant = "live"

OrderInv == /\ TypeOK /\ RowsHeldUpwards /\ GrantIsHeld
            /\ RevocationIsComplete /\ NoClaimOutlivesItsGrant

\* Two transactions share no row but a grant or a task; a set once locked stays locked; a
\* cancellation's set has the claim there is; and what a write was decided on stands.
RowsExclude ==
  \A t, u \in Txs : t # u => \A r \in held[t] \cap held[u] : r[1] \in {"grant", "task"}

SetIsHeld ==
  \A t \in Txs :
    /\ phase[t] = "locking" => SetRows(cmd[t], on[t], found[t]) \subseteq held[t] \cup wanted[t]
    /\ phase[t] \in {"deciding", "auditing"} => SetRows(cmd[t], on[t], found[t]) \subseteq held[t]
    /\ phase[t] = "deciding" /\ cmd[t] = "cancel" /\ work[on[t]] = "claimed" => on[t] \in found[t].works
    /\ phase[t] = "deciding" /\ cmd[t] \in {"decide", "handback", "call"} => found[t].works = {}

ReadsStand ==
  \A t \in Txs : phase[t] = "auditing" =>
    /\ DOMAIN writes[t] \subseteq DOMAIN reads[t]
    /\ \A v \in DOMAIN reads[t] : <<"run", v>> \in held[t] /\ reads[t][v] = work[v]

HoldsInv == RowsExclude /\ SetIsHeld /\ ReadsStand /\ WritesUnderItsLocks

LocksInv == OrderInv /\ HoldsInv
===========================================================================
