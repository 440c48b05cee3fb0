# The work runtime of ops-astro in TLA+

This directory specifies the runtime that lets a person approve bounded work,
hands the work to a worker under a lease, pays for the model calls the worker
makes, settles what became of the work, and recovers when the worker stops
answering; with it the three mechanisms it stands on: the row locks, the
register of repeated requests, and the custody of the token its model calls are
paid with. The modules are translated from `packages/core-runtime`,
`packages/core-custody`, `packages/core-commands`, the migrations that define
their tables, and the recovery entry of `apps/api`.

Paths below are relative to the repository.

## 1. Inventory

| Part | State | Operations | Modelled in |
| --- | --- | --- | --- |
| Proposals and gates (`propose.ts`, `proposal-writer.ts`, `decide.ts`, `restart.ts`) | `proposal_lineages`, `proposal_versions`, `planned_runs`, `gates` | propose, revise, approve, reject, request changes, restart; a gate expires | `Proposals` |
| Budget (`budget.ts`, `budget-ledger.ts`, `close-hold.ts`, `budget-stop.ts`) | `budget_caps`, `task_envelopes`, `reservations` | open an envelope, reserve, close at the spend, stop at the budget | `HoldHelpers` |
| Work (`pickup.ts`, `dispatch.ts`, `handback.ts`, `lease-ownership.ts`, `run-end.ts`, `take_lease`) | `leases`, delegations, `attempts`, hand-back reports, `run_outcomes` | claim, replace, fence, mark the effect, hand back, drop, end one's own run; a lease expires | `Work` |
| Model calls of a task's run (`core-custody/src/broker*.ts`) | `model_calls` | reserve, start, settle, release, hold unknown, stop at the ceiling | `ModelCalls` |
| Recovery (`recovery/*.ts`, `apps/api/recovery-entry.ts`) | none of its own | sweep of lapsed leases and their calls, replay of recorded ends, cancellation, loss of authority | `Recovery` |
| Reconciliation, outcomes, write-offs (`recovery/reconcile.ts`, `outcome.ts`, `write-off.ts`, `written-off-replacements.ts`, `observe.ts`) | `run_outcomes`, `attempts`, their reservations | the worker's observation, the register's answer, a person's word, a write-off, the stop of replacements | `StepOutcome` |
| Budget answers (`budget-answer*.ts`, `budget-end.ts`, `broker-wait.ts`, `broker-give-back.ts`, `broker-release.ts`) | `budget_asks`, `budget_answers` | stop and ask, top up, end, count the calls, give back | `BudgetAnswers` |
| Lock order, rediscovery (`locks.ts`, `rediscovery.ts`) | row locks | lock the full set in one order, read again, roll back when it outgrew its locks | `CommandLocks` |
| Command envelope, operation register (`core-commands/.../envelope.ts`) | `operations`, `audit_events`, advisory locks | run once, replay the receipt, retry once, write the failure | `OperationRegister`, promised by `OperationOnce` |
| Plan token (`token-file.ts`, `token-lock.ts`, `token-refresh.ts`, `plan-token.ts`, `plan-sign-in.ts`) | one file, one lock file, one digest row, a process's memory | prepare and refresh, store a sign-in, recover | `PlanToken` |
| Escalation, four eyes, child work | their own rows | who decides; work under a parent's lease | not modelled |
| Signing chain, evidence (`signing.ts`, `evidence.ts`) | `gate_decisions` | append a signed decision | not modelled |
| Conversation, planning and e-mail calls | their own holds | reserve, send, settle without a lease | not modelled |
| Plans, definitions, mandates, traces; records, grants, delegations; credentials and egress | their own tables | - | not modelled |
| Worker and agent processes, connectors, wire format, interface, other applications | - | - | not modelled |

The parts share one database and speak through its rows. A command enters
through the envelope, which lets one request to an identity judge at a time; it
is one transaction: it discovers the rows it needs, locks the complete set in
one order, discovers and reads them again, refuses or writes, waits for the
audit chain, and commits. Workers and model providers are outside: a worker may
call any command at any time or stop for ever, and a provider's answer may
arrive at any time after the send, or never. The plan token is the one piece of
state that lives in a file, shared by processes that may die at any call.

What is hard here, and what the properties are for:

- *Interleaving.* A dispatch, a hand-back, a sweep, a pickup, a cancel, a
  revision and a revocation can all meet on one run in any order.
- *Calls across transactions.* Reserve, start and settle are three
  transactions; the lease may lapse, be fenced, be retired, or the process die
  between any two of them, and answers come late.
- *Money that must not be lost or counted twice* while holds are closed by
  a dozen commands, and calls are counted at their maximum by an answer and
  settle for less afterwards.
- *Several who may answer.* The worker, the register, the provider and a person
  can each say what an unknown step did, in any order and more than once.
- *Ends that must be complete.* Whatever ends work has to end the lease, the
  delegation, the unsent calls and the hold, and say whether the attempt may be
  replaced.
- *Stale reads.* Every command reads before it locks; a grant, a session or a
  digest may have changed while it waited.
- *Recovery that must happen* with nothing but an interval behind it, and
  recovery of a file after a crash between any two of its calls.

`PROJECT.json` lists each hazard at its line, with the property that would
catch it.

## 2. Modules

```
RuntimeTables   the rows, and the reads several commands share
  HoldHelpers   stop, retire, classify, reserve, stop at the budget, resume
    Proposals   propose, decide, restart
      Work      pick up, dispatch, hand back
        ModelCalls    the broker's calls
          Recovery    sweep, replay, cancel, authority loss
            TaskRuntime     Init, Next, Spec, FairSpec, the properties
              WorkInvariant       the inductive invariant: who works on what
                TaskRuntimeProofs       the work through each helper and action
                LedgerInvariant   the rest of it: recorded stops, money
                  MCTaskRuntime         TLC: symmetry, shapes
                  LedgerProofs          the ledger through each helper and action (and TaskRuntimeProofs, SumLemmas)
SumLemmas         what sums and folds over a finite set are

StepOutcome     one step, its attempts and its answers
  StepInvariant     its inductive invariant                 MCStepOutcome, StepOutcomeProofs (and SumLemmas)
BudgetAnswers   one run that stops at its budget
  BudgetInvariant   its inductive invariant                 MCBudgetAnswers
    BudgetRows        rows and tables, as the proofs say it   BudgetAnswersProofs (and SumLemmas)
CommandLocks    row locks under the commands                MCCommandLocks, CommandLocksProofs
OperationOnce   what a resent request is promised
  OperationRegister   the envelope that keeps it            MCOperationRegister, OperationRegisterProofs
PlanToken       one token file among processes              MCPlanToken, PlanTokenProofs
```

`TaskRuntime` composes the runtime's commands at the grain of one committed
transaction. `StepOutcome` and `BudgetAnswers` take one step and one run of it
and add what multiplies states too much for the whole: who answers an unknown
step, and what a stop at the budget comes to. `CommandLocks` looks below the
transaction and shows what lets the others take one for an action.
`OperationRegister` looks at what surrounds it.

### TaskRuntime: state

Six variables, one per table that carries control; `Tables` packs them into a
record and `Commit` unpacks one. The helpers of the code (`classifyUnderLocks`,
`retireWork`, `reserve`, `recordDrop`, ...) write inside their caller's
transaction and read what was written before them, so each is an operator from
tables to tables and a command composes them exactly in the code's order. An
action is one committed transaction. A refusal that commits nothing is a
disabled action; a refusal that does commit (`PickUpSpent`, `StopAtCeiling`,
`RefuseCall`, `RefuseStart`) is an action.

| Variable | Rows | Merged or abstracted |
| --- | --- | --- |
| `lineage` | `proposal_lineages` | `completed` is never written by the modelled commands and is left out |
| `version` | `proposal_versions`, its run, its one step, its gate | written together by `writeProposal`; `reviewed` is its row in `reviewed_outputs`, `asks` its count in `budget_asks`, `lapsed` the gate's expiry |
| `hold` | `reservations` and its `attempts` row | `end` is the attempt's `run_outcomes` row by what a later claim makes of it (`claimStopped`): `final` or `retryable`; `replaced` says that the run has a newer reservation; the quarantined states, which no command writes from another state, are left out |
| `lease` | `leases`, its delegation, its hand-back reports | `settled` counts settled reports; `delegation = "none"` is a person's lease; `lapsed` is `expires_at` in the past |
| `envelope` | `task_envelopes` | one cap, one currency |
| `call` | `model_calls` of a task's run | `refused` rows hold no money and are left out |

One business, one budget cap, one currency. A heartbeat only moves a lease's
expiry within its lifetime: since `LapseLease` may happen at any time, it adds
no behaviour. A hand-back of work that no longer stands is stored as a
historical report and touches no modelled row: it is no action.

The database has constraints of its own (no negative totals, the envelope's
maximum, one open envelope to a task, one live version to a lineage). The model
does not enforce them: where a property repeats one, it shows that the commands
never rely on it.

### TaskRuntime: actions and code

| Action | Code |
| --- | --- |
| `Propose` | `lockProposal`, `proposeUnderLocks`, `writeProposal`; with a live version: `retireWork`, `classifyVersions` |
| `Approve`, `Reject`, `RequestChanges` | `decide`: `recheckDecision`, `writeDecision`, `reserveApproval` |
| `Restart` | `restartOnTask`, `restart`, `closeOpenEnvelope` |
| `PickUp`, `PickUpReplacing`, `PickUpSpent` | `pickup`: `planClaim`, `claimHold`, `fenceLiveLease`, `writeLease`, `stopSpentWhole` |
| `Dispatch` | `dispatch`: the effect-time facts and `mark` |
| `HandBack`, `HandBackForReview`, `HandBackDropped` | `handback`: `settle`, `completedEndCode`, `writeSuccessor`; `recordDrop` |
| `EndRun` | `endRun` of `run-end.ts`: the worker stops its own attempt |
| `ReserveCall`, `StopAtCeiling`, `RefuseCall` | `reserveModelCall`, `stopAtCeiling`, `retireAttempt` |
| `StartCall`, `RefuseStart` | `markStarted`, `releaseRefused`, `refusedAtStart` |
| `SettleCall`, `ReleaseCall`, `HoldCall` | `settlePriced`, `release`, `hold`, `stopAtSettlement`, `lockDropAtSettlement` |
| `SweepPass` | `sweepDeployment`: `sweepLostWorkers`, `sweepModelCalls` |
| `Replay` | `replayRecordedTransitions` |
| `Cancel` | `cancelAndClassify` |
| `LoseAuthority` | `classifyAuthorityLoss` |
| `LapseGate`, `LapseLease` | `expires_at` of a gate and of a lease |

The code's helpers take rows one by one and the model takes the set at once.
The order among the rows shows in no outcome: classifying one hold reads only
its own row and calls, and a resumption asks its envelope for no more than its
own close gave back.


### StepOutcome

One step of one run. `att` is a function from attempt numbers to records that
join the attempt's row with its reservation's, its lease's and its model call's;
`run` and `approved` are the run and its approval; `envelope` is what the
step's holds hold and have spent. As in `TaskRuntime`, helpers are operators
from tables to tables.

| Action | Code |
| --- | --- |
| `PickUp`, `PickUpReplacing` | `pickup` on the step's hold or on one that may be replaced |
| `Dispatch`, `StartProvider`, `CheckEffect`, `WriteCheckedEffect`, `WriteEffect` | `dispatch`; the comment effect's look before and its look under the step's lock (`tasks-comment-effect.ts`) |
| `HandBack`, `Observe` | `handback`, `observe` |
| `StartCall`, `AnswerCall`, `ProveCall` | one model call of the attempt, answered or proved late |
| `Lapse`, `Sweep`, `Replay`, `LoseAuthority`, `EndApproval` | loss of the worker, the pass's first half, cancellation or supersession |
| `Reconcile` | `reconcile`: the register's present, absent or unknown, with the call's drop |
| `StopWrittenOffReplacements` | `stopWrittenOffReplacements` |
| `RecordOutcome`, `WriteOff` | `recordOutcome`, `writeOff` |

An effect is two transactions since its first check reads before it holds the
step's lock. Other work in the envelope and the cap is the choice `room`: a new
reservation finds room or does not. Migration 0037's unique index on active
holds is left out: `OneWorkingHold` shows that the commands do not need it for
this. The table's check on an abandoned attempt's mark is the guard `DropFits`.
Left out: the second pair of eyes on a write-off, what a person answers to an
ask, trashed tasks, quarantined legacy rows.

### BudgetAnswers

One run of one step, of a person or an agent without a grant to lose. `hold`,
`call`, `asks`, `run`, `envelope` are the rows; `count` is an answer between
its read of the calls and its commit; `sweep` is the sweep of unsent calls
between its three statements (read, lock what nobody holds, release). Every
other action is a transaction under the run's lock.

| Actions | Code |
| --- | --- |
| `PickUp`, `PickUpReplacing`, `Dispatch`, `Observe`, `Lapse`, `LoseWorker`, `Replay` | the run's life, with the budget stop on its three paths (`stopAtCeiling`, a pickup at a spent hold, a resumption) |
| `ReserveCall`, `Start`, `Price`, `AnswerNothing`, `AnswerUnknown`, `ProveCall` | the broker's calls; `GivenBack` is `giveBack` |
| `CountForTopUp`, `TopUpHeld`, `CountForEnd`, `EndHeld` | an answer to a stop whose hold is held, in two steps |
| `TopUpClosed`, `EndClosed` | an answer to a stop whose hold was closed meanwhile |
| `SweepUnanswered`, `SweepCounted`, `SweepLocked`, `SweepReleases` | `sweepModelCalls` |
| `ProveAbsent`, `ProvePresent`, `SayHappened`, `SayNothing`, `SayDifferently`, `WriteOff` | the pass and a person on the unknown step beside the stop |

The trigger of migration 0088 (no work while the run waits) and the unique
index of 0037 (one active hold) are guards of the transactions they would roll
back (`WaitHolds`, `OneActive`). Left out: a drop asked for by the provider at
settlement, hand-backs, lineage ends, grants, trashed tasks, the second pair of
eyes.

### CommandLocks

A transaction of `cmd` on a piece of work goes through `entry` (its grant, read
`FOR SHARE`), an unlocked `Discover`, `Take` of every row of `wanted` in
`LOCK_ORDER`, `Recheck` (which rolls back when the set outgrew the locks, once
retried), `Perform` on what it read, the wait for the audit chain, and
`Commit`. `Lose` is a connection lost, which rolls back; `Expire` a lease's
clock. Locks,
writes and reads are those of decide (as an approval), pickup, hand-back,
cancel, revoke, sweep and a model call. One grant, one cap, one version to a
lineage, `released` and `classified` joined as `ended`; a replacement, a
hand-back's gates and child work are left out. Statements read what is
committed, as READ COMMITTED does, and the sweep's discovery reads at one
instant. A discovered set is compared by its works, not by their states: a cancel
that finds a hold reserved and, under its locks, claimed rolls back in the code
(`AffectedSetChanged`) and goes on in the model, under the same locks. Of the
commands, `Commit` maps the cancellation as one example of what has been written
when a transaction commits.

### OperationRegister

A call goes door, queueing, authorising, working, auditing, judging,
committing, answering (`envelope.ts`): `Admit` resolves its login, `Enter` takes
the identity's advisory lock and looks up its row, `Work` runs the handler in
its savepoint, `Audit` waits for the chain, `Judge` looks at the caller's
standing for the last time, `Lands` writes row, effect and events together.
`Raise` is any statement that fails (retried once when it may be),
`LoseAcknowledgement` a commit whose answer never came, `RecordFailure` the
event in a transaction of its own, `Crash` the server. The unique index
`operations_identity_key` is left out, so the door alone must suffice.

What a call may come to is an *outcome*: its row, whether the handler's writes
are kept, its event, how many of them it tells, its answer and what the last
check asks. Three commands are not audited (`preference.save`,
`preference.dismiss_tip`, `chat.mark_read`): applied or replayed they tell
nothing and never hold the chain; refused they do (`Told`, `Joins`). An audited
command tells its own record and each it carried (`MaxCarried`), under one
identity. Only what tells something goes through `Audit`.

A standing has four parts, and each ends by what ends it in the code:

| Part | Ends by | What excludes it from a commit |
| --- | --- | --- |
| `session` | `EndSession`: a sign-out, an ending from any business, a reset's window (`sessions.ts`) | the ending keys, held shared by an agent's last check and by the act that ends its caller's own access (`HoldsKeys`) |
| `actor`, a person's | `EndAccess`: membership ended, told on the chain | the chain, held by what tells something |
| `actor`, an agent's | `StopAgent`: its delegation, actor or mapping, with no event needed | its rows, held for share when it will be judged (`shares`) |
| `grant` | `RevokeGrant`, `Regrant`: told on the chain | the chain |
| `term` | `RunOut`: a grant, step-up, credential or delegation expires | nothing |

So a standing is firm up to the commit only in part. `Firm` names the parts a
call holds; the others stood when they were last read and may have ended since.
These are a person's session in an ordinary write (see below), everything an
unaudited command stands on, and whatever the clock ends.

Each ending is one step, taken when no holder excludes it, and joins the
business's own endings, which also take its chain, to those of other businesses,
which do not. An ended session is not given back. A `self` command asks no
grant, and an act on authority does not ask its grant again. The access lock,
which keeps a revocation out of most writes from their preparation on, is left
out: the model allows what it excludes. A person's rows are one entry and an
agent's another. What a handler does is one abstract effect; requests without an
identity, the first client's gate, quotas, the entry by an API credential and a
helper's fresh hand-back (which answers to its credential, live or not) are left
out.

`OperationOnce` is the promise: an identity is settled once, with one payload,
and an answer that names an outcome names that one. `KeepsThePromise` is
`OperationOnce!Spec` under `settled <- register, told <- answer`.

### PlanToken

`file` and `onDisk` (what the directory may show after a power cut), `digest`
and `db` (the committed digest and SQLite's writer), `inode` and `hold` (the
lock file and who locked which one), a process's `pc`, `goal`, `rec`, `from`,
`seen`, `undo`, and a holder's memory `mem`. `wire`, `issued` are the issuer's
side; `gone` is a history variable.

| Actions | Code |
| --- | --- |
| `Lock`, `ReplaceLock` | `withTokenLock`; a process that replaces the lock file |
| `Recover`, `Visible` | `recover` and what it must see before it stores again |
| `ReadFile`, `Judge` | the bytes, and whether the digest names them |
| `WriteNext`, `Rename`, `SyncDir`, `Revert`, `WriteFails` | `commitBytes`: copy, link, rename, fsync, undo |
| `Fence`, `CommitDigest`, `CommitFails` | `commitDigest` under the database's write lock |
| `NotSent`, `Send`, `Answered` | `refreshOnce`'s single request |
| `Grant`, `Withdraw`, `Remove` | a sign-in, and taking back what it could not store |
| `GiveUp`, `Crash`, `PowerCut` | refusals, a process's death, the machine's |

A record is its kind and its refresh token: access token, expiry and `since`
are left out, which makes two records of one token equal and only adds
behaviours. Whether a pair is due, and every refusal, is a free choice. File
and database faults are free and unbounded. A refused SQLite commit commits
nothing and `synchronous=full` makes a committed digest durable; an inode is
not used again while it is open. `Withdraw` joins
`withdraw`'s two reads, of the file and of the digest, in one step. The sweep of
leftover `.next` and `.undo` files is among the faults. A restore of the whole
directory, which `token-file.ts` names as its limit, a sign-in's first hold and
the registration file are left out.

### Slips

Definitions named in a comment as a *slip* are plausible mistakes in the
definition that follows them. No action uses one: `PROJECT.json` pairs each
with the property that notices it.

## 3. Runs

| Run | Instance | Shows |
| --- | --- | --- |
| `revision` | `MCTaskRuntime`: 1 task, 2 versions of a lineage, 3 holds, 2 leases, 1 call, amounts 1-2, cap 2 | `LedgerBalanced`, `ClosedHoldPaidItsCalls`, `FinalStopIsNotReplaced`, `LiveWorkIsApproved`, `OneHoldPerVersion`, `MarkedHoldIsKept`, `EndedWorkIsClassified`, `ProposalFitsCap`, and the proofs' `RuntimeInv` |
| `restart` | `MCTaskRuntime`: 2 tasks, 3 lineages, 3 versions, 3 holds, 2 leases, 2 envelopes, cap 2, no calls; kept to `RestartedOrShared` | `OneLiveLeasePerTask`, `CeilingsHold` |
| `recovery` | `MCTaskRuntime`: 1 version, 3 holds, 2 leases, 1 call, `FairSpec`, no symmetry | `LapsedLeaseIsFenced`, `EndedHoldIsClassified`, `OrphanCallIsResolved` |
| `outcome` | `MCStepOutcome`: 2 attempts, with the effect and its provider and no call, or with a call each; `FairSteps` | `EachHoldClosedOnce`, `OneWorkingHold`, `RedoneOnlyOnAWord`, `AnswersAreFinal`, `FinishedStepStaysFinished`, `StrandedMoneyComesBack` |
| `answers` | `BudgetAnswers`: 3 holds, 2 calls, top-ups 1-2, `FairSpec`; kept to `OneCallOrNoEffect` | `EnvelopeBalances`, `HeldCoversCalls`, `SpendIsApproved`, `NothingWorksWhileItWaits`, `UnsentCallsEnd` |
| `locks` | `CommandLocks`: 2 transactions, 2 works on a task, all seven commands, `FairSpec` | `NoCircularWait`, `WritesUnderItsLocks`, `CommitsWhatItRead`, `NoClaimOutlivesItsGrant`, `CallsAreAnswered`, and the proofs' `LocksInv` |
| `register` | `MCOperationRegister`: 7 calls, 3 identities, one of an unaudited command, `FairSpec`; kept to `Instances` | `EffectOnce`, `ChainTellsTheRegister`, `LandsOnlyWhileStanding`, `KeepsThePromise`, `CallsEnd`, and the proofs' `RegisterInv` |
| `token` | `PlanToken`: 2 holders, 1 sign-in, 2 tokens, 2 replacements of the lock file | `SentOnce`, `CommittedIsDurable`, and the proofs' `TokenInv` |
| `closed_envelope` | `MCTaskRuntime`: 3 lineages, 2 envelopes | a commented rule the code does not follow |
| `settled_topup` | `BudgetAnswers` | a commented rule the code does not follow |
| `ended_run_claimed` | `BudgetAnswers`: 5 holds | a commented rule the code does not follow |
| `session_read` | `MCOperationRegister` | a commented rule the code does not follow |

**Bounds.** A property speaks of the relation of at most two rows of a kind, or
of sums; its run has those two rows and one more attempt, so that a replacement
of a replacement occurs. Amounts 1 and 2 give a hold the interesting spends:
nothing, part and all. `MaxBudgetAsks = 1` in `revision` (3 in the code) reaches
both the stop that waits for a person and the last ask, after which the run is
cancelled; `BudgetAnswers` has the code's three. In `recovery` there are more
holds than leases, because a sweep resumes into a fresh hold and a pass without
one would be stuck on the bound rather than on the code. The cap is set where
two reservations compete for it. Two transactions with any two commands form
every pair in `locks`; rings of more are the theorem's. In `register` the calls
are a person's request, its resend and a reuse of its identity, an agent's
request and its resend, and an unaudited command and its resend; a person's
request also runs beside the agent's and beside the unaudited one. A command
carries at most one other record, which is enough to tell one event from
several, and two turns end two parts of a standing or end one and give it back.
In `token` it takes two replaced lock files and three processes to break the
promise without the digest's comparison: an older hold puts an old file back
while a third process reads it.

**Shapes.** A run that is *kept to* a shape has a state constraint. Each is a
disjunction of conditions that, once lost, stay lost: rows only fill, sent calls
stay sent, turns and faults are spent, an effect is not undone. So every state
of the shape is reached within it and the invariants are checked on all of the
shape. An access given back leaves only its count, so it might as well have come
before the first call and been anyone's. For `register` and `answers`, which
also check liveness, only actions without fairness (a send, a fault, an ending;
a worker's, the register's or a person's act) leave the shape, so a behaviour
within it is fair exactly when it is fair of the whole.

**Symmetry** is used by safety runs alone. **Deadlock** is checked in `locks`,
`register` and `token`. In `MCTaskRuntime`, `StepOutcome` and `BudgetAnswers`
row identities are finite, and a behaviour ends when they are used up: the
bounded instance, like an idle business, may really stop.

### Fairness

`server.ts` runs the reconciliation pass every minute (`startSweeper`), and each
pass sweeps and then replays (`passDeployment`), whatever the pass before did:
a failed pass is logged and the next one runs. So what a pass would change is
not put off for ever:

- `TaskRuntime!FairSpec`: weak fairness of `Sweeping` and `Replay`, their
  ENABLED written out as `SweepDue` and `ReplayDue`;
- `StepOutcome!Fairness`: of `Sweep`, `Replay` and `StopWrittenOffReplacements`;
- `BudgetAnswers!Fairness`: of the sweep's three statements, and of the commit
  of an answer that has counted (a transaction that has its locks ends);
- `CommandLocks!FairSpec`: of each transaction's own steps: its process is
  running, and Postgres grants a free row to one that waits for it;
- `OperationRegister!FairSpec`: of each call's `Runs`, without its sends and
  its faults.

Nothing else is fair: no person decides, no worker returns, no provider answers
and no client resends, unless it happens to. `PlanToken` has no liveness: a
process may never prepare the token again.

`EndedHoldIsClassified` has the exception that the code has: a run that waits at
its budget keeps its hold for a person's answer, for as long as that takes.

### Where the repository and the code differ

- `closed_envelope`: a comment in `tasks-controls.ts` says that the envelope a
  restart closes "funds nothing new". `reserve` selects an envelope by its id and
  does not read its state, so a replacement under a sibling lineage reserves in
  it again. It stays within that envelope's maximum, and the cap counts it.
- `settled_topup`: `recorded-refusal.ts` says that a top-up cannot apply to a
  step settled `completed` in any other transaction. It looks for that
  settlement on the stopped hold's own attempt only. When the first attempt of a
  step was proved absent and a person then records that it happened, the top-up
  of the second attempt's stop is accepted. The dispatch mark refuses the work
  later, after a pickup and its calls may have spent.
- `ended_run_claimed`: `broker-wait.ts` says that after the last ask the run
  ends and its hold is recovery's to settle. Until the replay classifies that
  hold a pickup of it is accepted, and `writeLease` sets the run claimed.
- `session_read`: `sessions.ts:149` says of a reset's window that "a write that
  read the login's sessions live commits first", and `ending-keys.ts` and
  `cq-8.test.ts:162` that a write's last ask takes the ending keys shared. An
  agent's does, and so does the act that ends its caller's own access. Any other
  write of a person reads its session through `standingOf` (`envelope.ts:629`)
  and takes no key. A session ended through its own business waits for the chain
  that an audited write holds; a reset's window, a provider sign-out and an
  ending through another business do not, and may come between the last check
  and the commit.

Seen while modelling, and not made a run: `docs/local/RUNTIME.md:981` settles a
stopped hold with open calls at their maximum, where the classifier keeps the
hold as an unknown liability; `recovery/drop.ts:76` judges a late drop by its
attempt's state, and the table's check rolls the whole hand-back back when the
attempt is marked; `budget-answer.ts:225` lets a top-up reserve beside a hold a
word has resumed, and the unique index rolls it back; `budget-stop.ts:252` is
reached by a word with the run already waiting, and the trigger rolls it back;
`recovery/broker-effect.ts:77` speaks of calls held as unknown and passes over
one still dispatched, which `StepOutcome` and `BudgetAnswers` follow.

## 4. Proofs

For every value of the constants:

| Module | Theorem | Statement |
| --- | --- | --- |
| `TaskRuntimeProofs` | `WorkIsKept` | `Spec => []WorkInv` |
| | `OneWorkerToATask` | `Spec => []OneLiveLeasePerTask` |
| | `LiveWorkStaysApproved` | `Spec => []LiveWorkIsApproved` |
| | `NoDoubleReservation` | `Spec => []OneHoldPerVersion` |
| `LedgerProofs` | `RuntimeIsKept` | `Spec => []RuntimeInv` |
| | `LedgerStaysBalanced` | `Spec => []LedgerBalanced` |
| | `NothingIsOverspent` | `Spec => []CeilingsHold` |
| | `ClosedHoldsPaidTheirCalls` | `Spec => []ClosedHoldPaidItsCalls` |
| | `MarkedHoldsAreKept` | `Spec => []MarkedHoldIsKept` |
| | `FinalStopsStand` | `Spec => []FinalStopIsNotReplaced` |
| | `EndedWorkStaysClassified` | `Spec => []EndedWorkIsClassified` |
| | `ProposalsAlwaysFit` | `Spec => ProposalFitsCap` |
| `StepOutcomeProofs` | `StepIsKept` | `Spec => []StepInv` |
| | `HoldsCloseOnce` | `Spec => []EachHoldClosedOnce` |
| | `OneHoldWorks` | `Spec => []OneWorkingHold` |
| | `RedoingNeedsAWord` | `Spec => []RedoneOnlyOnAWord` |
| | `AnswersStand` | `Spec => AnswersAreFinal` |
| | `FinishedStepsStay` | `Spec => FinishedStepStaysFinished` |
| `BudgetAnswersProofs` | `HoldsStayInOrder` | `Spec => []OrderInv` |
| | `WaitingRunsRest` | `Spec => []NothingWorksWhileItWaits` |
| | `MoneyStaysKept` | `Spec => []BudgetInv` |
| | `EnvelopeStaysBalanced` | `Spec => []EnvelopeBalances` |
| | `SpendStaysApproved` | `Spec => []SpendIsApproved` |
| | `HoldsCoverTheirCalls` | `Spec => []HeldCoversCalls` |
| `CommandLocksProofs` | `LocksAreKept` | `Spec => []LocksInv` |
| | `NoClaimOutlivesARevocation` | `Spec => []NoClaimOutlivesItsGrant` |
| | `NoDeadlock` | `Spec => []NoCircularWait` |
| | `WritesStayUnderLocks` | `Spec => []WritesUnderItsLocks` |
| | `NoWriteIsLost` | `Spec => CommitsWhatItRead` |
| `OperationRegisterProofs` | `RegisterIsKept` | `Spec => []RegisterInv` |
| | `AnOperationTakesEffectOnce` | `Spec => []EffectOnce` |
| | `ThePromiseIsKept` | `Spec => Once!Spec`, the refinement |
| | `TheChainTellsTheRegister` | `Spec => []ChainTellsTheRegister` |
| | `LandsWhileStanding` | `Spec => LandsOnlyWhileStanding` |
| `PlanTokenProofs` | `TokenIsKept` | `Spec => []TokenInv` |
| | `TokenIsSentOnce` | `Spec => []SentOnce` |
| | `TokenIsDurable` | `Spec => []CommittedIsDurable` |

### The runtime

**The invariant.** None of the three properties under `WorkIsKept` is inductive. That a pickup leaves one
live lease to a task needs every live lease to be bound to the hold that would
be fenced with it; that a live lease's work stays approved when another version
is written needs one current version to a lineage; that a resumption does not
reserve twice needs the version to have had one hold; that a late settlement
touches the right hold needs each call bound to its lease's hold; and a lineage
just opened must have no version yet. `WorkInv` conjoins these: `Shaped`,
`OneCurrent`, `VersionsWritten`, `HoldsApproved`, `CallsBound`, `OneHeld`,
`OneLiveLease` and `WorksApproved` of every live lease.

**The argument.** A command ends work in steps: after its first helper a lease
may be live on work no longer approved, and only a later helper ends it. So the
invariant is a predicate of tables and of a set `M`, the leases the transaction
has still to end: `WorkKept(t, M)`, with `WorkInv == WorkKept(Tables, {})`. Most
helpers only end things (close a hold, end a lease, release a call, cancel a
run). `TaskRuntimeProofs` first defines that relation between tables, shows that it is
transitive, that each such helper is in it (`StoppedEnds`, `RetiredEnds`,
`ClassifiedEnds`, ...) and that it keeps the invariant (`EndingKeepsWork`). The
few that create something have a lemma each, with the condition it needs:
`ReservingKeepsWork` (the version has no held hold), `LeasingKeepsWork` (the task
has no live lease), `ProposingKeepsWork` (the live leases of the superseded
version go to `M`), `DroppingKeepsWork` (what is resumed has been closed).
Its second half composes them: one `<Action>KeepsWork` lemma to each action,
one step to each action in `NextKeepsWork`, and the temporal theorems.

### The ledger

**The invariant.** `RuntimeInv` is `WorkInv` with two more halves, of the same
kind: predicates of tables, with the holds a transaction has still to classify
as a parameter.

- `StopsInv`, behind `MarkedHoldIsKept`, `FinalStopIsNotReplaced` and
  `EndedWorkIsClassified`. That a marked hold is not released needs the mark to
  be written on a dispatched attempt only (`MarksHold`). That an attempt stopped
  for good is not replaced needs the reservations of a version to form a chain
  in which the newest alone may stop (`NewestAlone`), a lease to be written for
  its own hold (`LeasesBound`) and an attempt to stop with its lease
  (`StopsEnd`): then the attempt a late report or a sweep stops is the newest.
- `MoneyInv`, behind `LedgerBalanced`, `ClosedHoldPaidItsCalls` and
  `CeilingsHold`. That a close takes from an envelope what the hold put in needs
  the hold's envelope to be a written one (`RowsBound`); that it never takes
  more than is held needs a held reservation to cover the calls on it, and a
  closed one to have paid for them with none open (`HoldsPay`); that one approval
  opens one envelope needs `OneOpenEnvelope`; and that a resumption reserves no
  more than its own close gave back needs `Balanced`.

**The argument.** `Kept(t, S)` says that tables keep both halves with `S` still
to classify. `LedgerProofs` carries it through each helper. Most helpers take
nothing: `NoMore(t, u)` says that no envelope stands higher in `u` than in `t`,
is transitive, and keeps the ceilings (`NoMoreKeepsCeilings`). Two add money:
`Reserved` keeps `Kept` of any tables it fits (`ReservedKeepsLedger`), and the
ceilings where its guard found room (`ReservingOneKeepsCeilings`) or where a
classification has just given back as much (`ClassifiedLeavesRoom`).
`LedgerProofs` has one `<Action>KeepsLedger` lemma to each of the 27 actions and
one step to each in `NextKeepsLedger`. Where an action composes several helpers,
each intermediate table has a name and its facts are stated before the next.

**The forecast.** `ProposalFitsCap` compares what the code computed with what it
then did. A proposal checks its maximum against the cap less a forecast, read
before it writes: what releasing the superseded version's held holds will give
back. The property asks of the tables it leaves that the maximum fits beside all
that is still committed. So the forecast, a sum of holds, has to be no more than
what the closes gave back, a sum of envelopes: `CommittedIsOfEnvelopes` turns
the second into the first (`SumByColumn`: a sum by envelope is the sum over the
rows), `SupersedingVersions` says which holds are closed. `Propose`, `Restart`
and `HandBackForReview` write versions; every other transaction leaves the
versions' states alone or only ends some (`StatesStay`, `EndingStays`), one
`<Action>Fits` lemma each.

**The sums.** `LedgerBalanced` and the ceilings are sums over all rows
(`SumFunctionOnSet`), a fold the library defines by recursion on a chosen
element. An induction theorem with an operator parameter is out of the provers'
reach, so `SumLemmas` proves one whose parameter is a set: a family of subsets of
a finite set that has the empty set, and each set whose parts less one element it
has, has every subset (`FamilyOfAllSubsets`). Every fact about a sum is then the
membership of a set in a family: that the recursion has a solution
(`AddsExist`), that its solutions agree (`AddsAgree`), hence what a sum is with
and without an element (`SumWith`, `SumWithout`), of parts, of sums, and of no
greater columns. The same two steps give that what each turn of a loop keeps its
fold keeps (`FoldsExist`, `FoldStays`).

### The step's outcome

**The invariant.** That a second attempt does not work beside the first, or
repeat its effect without a person's word, depends on all that can have become
of the first by then. `StepInv` says it of every attempt at once. `RowKept` is
what the fields of one row owe each other: a hold is held exactly while its
attempt is reserved, dispatched or an unknown liability; who wrote an effect or
was proved absent was marked; an effect whose hold is closed had a person's word
or was settled as done. `InOrder` says that attempts are numbered as they are
reserved, and `Past` what a later attempt leaves of an earlier one: it no longer
works, its hold is closed or proved absent, and if it wrote its effect a person
said that nothing, or something else, happened. Every attempt but the newest is
past, which gives `OneWorkingHold` and `RedoneOnlyOnAWord`; `Balanced` is
`EachHoldClosedOnce`; `LivesApproved` lets the replay of an ended approval classify
whatever is still held. Both outcome runs' instances were found to keep `StepInv`
before it was proved: `MCStepOutcome` extends `StepInvariant`, so it can be named
as an invariant there.

**The argument.** Every helper but a reservation rewrites one row, so each gets
the row it leaves (`ClosedRow`, `ClassifiedRow`, `ReleasedRow`, ...) and an
equation with `WithRow` or `PutRow`; that the invariant survives is then a fact
about rows (`Stays`) and one lemma about tables (`WithRowKeeps`).
`ReservedKeeps` is the lemma of the reservation: the attempt before it has to
be past. `Steps` is what no transaction takes back of a row (a charge, a word,
an end, a settlement, a loss), and what none but a dispatch marks; `Goes` adds
that none but a claim gives a live lease. `Follows(t, u)` says that `u` keeps
the invariant and every row goes, and composes (`FollowsOn`), so one lemma to
each action (`<Action>Onward`) gives the invariant and both action properties. The
dispatch and the two pickups, which mark and lease, have lemmas of their own
(`...Keeps`). Loops over attempts are folds (`FoldSet`): where only the newest
can be in the set the fold is one application (`SweptInTurn`,
`ReplacementsInTurn`); elsewhere, what every application keeps the fold keeps
(`FoldStays`).

### The locks

`LocksInv` says that rows are taken upwards (what a transaction holds precedes
what it still wants), that the grant row is held from before the discovery to
the end, and that a revocation at work has found every claim there is. The
first makes a ring of waits impossible for any number of transactions: along a
ring each waits for a row strictly above the one before. The third is what a
pickup waiting behind a revocation cannot break, since it holds the grant row
for share before it discovers; with the second it gives
`NoClaimOutlivesItsGrant`. These are `OrderInv`. `HoldsInv` is proved on top
of it: rows other than a grant or a task are held by one transaction
(`RowsExclude`), what was discovered is locked before anything is decided on it
(`SetIsHeld`), and what a write was computed from is still what the rows hold
(`ReadsStand`). Its conjuncts give `WritesUnderItsLocks`, and `ReadsStand`, with
the step that commits, `CommitsWhatItRead`: since a row read is a row held, no
other transaction can have committed it in between.

### The register

`RegisterInv` is proved in three layers. `IdentityInv`: `DoorIsExclusive` (one
call to an identity between entering and letting go), `PendingAgrees` (what a
call will commit and answer agrees with the row it found and the one it will
leave) and `EffectOnce`.

`StandingInv` says who holds what: one call at a time the chain, and only a call
that tells something (`ChainIsHeld`); an agent's call that keeps something its
standing's rows (`SharesAreHeld`); a call past its last check its session's keys,
when its session is among the parts it holds (`KeysAreHeld`). Every ending of a
part in `Firm` is excluded by one of the three, so what was found standing still
stands (`CommitsStanding`); `LandsWhileStanding` is that at the step that lands.
`OwnEndingIsTold` is needed since an access ending ends the grants of other calls
of its person when it lands: it holds the chain then, so none of those has the
grant or the membership in `Firm`. The proof says nothing of the parts nobody
holds.

`EventsInv`: what is applied on the chain is told by the call that kept the
effect, each record once and right after the one before (`AppliedOnce`); a row of
an audited command has such events, a stored refusal an event of its own, and a
replay comes after either (`RowsAreTold`). `TellsRightly` carries it from the
handler to the commit: what a call in its transaction will tell is what its
command is declared to tell. That an unaudited success tells nothing also of its
replay needs an identity's calls with the same body to be of the same command,
which is in `OperationRegisterAssumption`: the compared body names the command.

The refinement follows without history: `Lands` is `Settle`, an answer is `Tell`,
and every other step stutters.

### The budget stop

**The invariant.** `BudgetInv` is three predicates of tables, each with the ones
before it.

- `OrderInv`, behind `NothingWorksWhileItWaits`. That nothing works while a run
  waits is no fact about the stop alone: a stop ends its own hold's lease, so
  every other lease has to be over already (`HoldsInOrder`: while a lease runs
  no later hold was claimed, and only the newest hold is held and not proved
  absent), and a run that waits is moved by its newest ask's answer or not at
  all, which migration 0088's trigger says of each transaction and the proof
  takes from `Commit`. What one row may come to is `RowKept`; an answer between
  its count and its commit is still the newest ask's when it commits
  (`CountStands`), since every other transaction that could answer waits for the
  run's lock.
- `MoneyInv`, behind `EnvelopeBalances` and `HeldCoversCalls`. A count moves a
  hold's calls to the envelope at their maximum, and each gives back what it did
  not cost when it ends. So the envelope is two sums, over the holds and over
  what it carries of each call (`Balanced`, `ChargeOf`); and that a top-up of a
  hold does not move its calls twice needs a held hold to stop once
  (`StoppedOnce`) and an open call that was counted to have been moved
  (`CallKept`). Between a count and its commit a sweep may release a call the
  count has taken, and a sent one turn unknown: `CountHolds` says that what was
  recorded is still what the calls come to, the released ones at their maximum,
  and that the hold covers it.
- `CeilingInv`, behind `SpendIsApproved`. Each hold has a net: what a word
  reopened of it less what it holds and was charged (`NetOf`), and each call what
  the envelope carries of it, unless its hold is reopened whole (`NetCharge`).
  `Spare`, what a person approved and topped up plus the nets, is never negative.
  Only a reservation takes from it: every other helper leaves it or adds to it.

**The argument.** A transaction composes helpers, so there is one lemma to each
helper on any tables: what it makes of which rows, written with the records of
`BudgetRows` (`StopIs`, `RaisedIs`, `EndedIs`, ...); and what that does to the
money (`...Sound`). `Sound(t, D, n, k)` is the money of tables with the calls of
`D` ended and not yet given back, `n` of the approved spend and `k` of the cap to
spare: inside a transaction calls are released before they are given back, and
a resumption reserves what its own close has just freed. Two lemmas carry the
sums: one row of a hold is rewritten (`WithSound`), or rows of calls are
(`CallsSound`). Loops over calls and holds are folds: what every turn keeps the
fold keeps (`FoldFollows`, `FoldRelates`). Each of the 29 actions then has one
lemma for the order and one for the money.

**The room of a replacement.** `versionRoom` sums, hold by hold, what is committed
to the version, and a pickup that replaces an attempt proved absent reserves no
more than the rest. What it sums (`CommittedBy`) is not what the envelope
carries: a counted hold counts its calls as they stand, or what it closed at
when that is more. `RoomIsSpare` proves that the room so computed is never more than
`Spare`, when the version has no written-off step and whatever is held is
reopened: each hold's `CommittedBy` covers its net and its calls' nets
(`CommittedCovers`), and the sum of calls by hold is the sum of all of them. Both
conditions are what the pickup has arranged by then, closing its own hold and
fencing or stopping the attempts beside (`ReplacedIs`).

The three were model-checked on an instance of three holds and two calls, over
the shape of `answers`, before they were proved: `MCBudgetAnswers` extends
`BudgetInvariant`, so they can be named as invariants there.

### The plan token

`TokenInv` is proved in layers, each with the ones below: the types; what each
process has in hand at each point of its call; the digest's fence (whoever is
past it wrote what it last saw); one *baton* to each refresh token among the
committed record, the processes and the wire; and no replaced pair committed
again. `TokenIsSentOnce` rests on the fence alone and uses no fact about the
lock, which is what the code claims when the lock file is replaced.
`TokenIsDurable` adds that while it is not replaced one process is in its hold
and the directory shows only what that process may have left.

### Assumptions and limits

`NilAssumption`, `AmountsAssumption`, `LimitsAssumption`, `RowsAssumption`,
`SomeAttempts`, `SomeMoney`, `SomeBounds`, `SomePrices`,
`CommandLocksAssumption`, `OperationRegisterAssumption` and
`PlanTokenAssumption`: absent references are no rows, amounts are positive and
limits are numbers, a business or a step has finitely many rows, identities of
different kinds are apart, only commands on one's own rows are unaudited, and a
body names its command. TLC evaluates each in a run.

Every invariant and every action property that a run checks is a theorem, the
refinement of `OperationOnce` among them. Only model-checked is liveness, with
the ENABLED it rests on: no prover here has rules for them.

## 5. Not modelled

- Escalation, four eyes, the sign-off setting, child work, trashed tasks and
  the re-check against the grant tree. In the runtime a refusal for any of them
  commits nothing; a grant lost while work runs is `LoseAuthority`.
- `TaskRuntime` and the two modules beside it are not composed: there a run in
  `waiting_budget` stays until it is cancelled or superseded, and an unknown
  liability stays. The commands that answer either are the only ones that close
  a marked hold, so `MarkedHoldIsKept` and `OneHoldPerVersion` speak of every
  other command; `OneWorkingHold` and `EachHoldClosedOnce` are their
  counterparts in `StepOutcome`.
- Decision signing and evidence: a digest chain whose point is cryptographic.
- Conversation, planning and e-mail calls: the broker's reserve, send, settle
  over holds without a lease.
- Plans, definitions, mandates and traces are written beside the work and read
  by none of the modelled guards. Records, grants, connectors, the wire format,
  screens and worker processes are outside the work and its money.
- Which provider answered what. A cost is any amount up to the call's maximum,
  and an answer past it or without a price is held unknown.

## 6. Plan

1. `HoldLedger`: an abstract specification of a reservation's life (held, closed
   once at its cost, or unknown until answered), with `TaskRuntime` shown to
   implement it by a refinement mapping.
2. Conversation, planning and e-mail calls on the pattern of `ModelCalls`.
3. `DecisionChain`, `Escalation` with four eyes, `ChildWork` under a parent's
   lease.
