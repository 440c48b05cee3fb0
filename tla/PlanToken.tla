----------------------------- MODULE PlanToken -----------------------------
(***************************************************************************)
(* The plan token of core-custody: one refresh token in one file, kept by  *)
(* processes that share a lock file.  A holder refreshes the pair with one *)
(* request after a durable `pending`; a sign-in stores a fresh pair.  The  *)
(* file's bytes count only while their digest, committed in SQLite after   *)
(* the file is durable, names them.  Lock files are replaced, calls fail,  *)
(* processes die and power goes.                                           *)
(***************************************************************************)
EXTENDS Naturals

CONSTANTS Holders,         \* processes that prepare the token
          SignIns,         \* processes that store a new one
          Tokens,          \* refresh tokens the issuer may hand out
          NoToken,
          MaxReplacements  \* bound: times the lock file is replaced

ASSUME PlanTokenAssumption ==
  /\ Holders \cap SignIns = {}
  /\ NoToken \notin Tokens
  /\ MaxReplacements \in Nat

Procs == Holders \cup SignIns

\* A record's bytes, as far as what the refresh token's fate turns on.
Absent == [kind |-> "absent", token |-> NoToken]
Spent == [kind |-> "spent", token |-> NoToken]
Ready(t) == [kind |-> "ready", token |-> t]
Pending(t) == [kind |-> "pending", token |-> t]
NoMemory == [record |-> Absent, from |-> NoToken]

VARIABLES file,    \* the record the token path shows
          onDisk,  \* the records it may show after a power cut
          digest,  \* the record whose digest is committed
          db,      \* the process in the digest database's write transaction
          inode,   \* the inode the lock path names
          hold,    \* the inode whose lock a process holds, 0 for none
          pc, goal,
          rec,     \* the record a process has read or is to write
          from,    \* the token it works from
          seen,    \* the digest its hold last read or wrote
          undo,    \* the record its link keeps beside the file
          mem,     \* a holder's `unwritten` record and the token of its pending
          wire,    \* requests that carried a token and did not leave it in use
          issued,  \* tokens the issuer has handed out
          gone     \* history: tokens whose committed record another replaced

disk == <<file, onDisk>>
base == <<digest, db, gone>>
lock == <<inode, hold>>
hand == <<pc, goal, rec, from, seen, undo>>
issuer == <<wire, issued>>
vars == <<disk, base, lock, hand, mem, issuer>>

---------------------------------------------------------------------------

Init ==
  /\ file = Absent /\ onDisk = {Absent}
  /\ digest = Absent /\ db = {} /\ gone = {}
  /\ inode = 1 /\ hold = [p \in Procs |-> 0]
  /\ pc = [p \in Procs |-> "idle"] /\ goal = [p \in Procs |-> "none"]
  /\ rec = [p \in Procs |-> Absent] /\ from = [p \in Procs |-> NoToken]
  /\ seen = [p \in Procs |-> Absent] /\ undo = [p \in Procs |-> Absent]
  /\ mem = [p \in Holders |-> NoMemory]
  /\ wire = [t \in Tokens |-> 0] /\ issued = {}

Goes(p, l) == pc' = [pc EXCEPT ![p] = l]
Writes(p, g, r) == /\ Goes(p, "write")
                   /\ goal' = [goal EXCEPT ![p] = g]
                   /\ rec' = [rec EXCEPT ![p] = r]

\* The hold ends and everything the call had in hand with it.
Ends(p) ==
  /\ hold' = [hold EXCEPT ![p] = 0] /\ UNCHANGED inode
  /\ Goes(p, "idle")
  /\ goal' = [goal EXCEPT ![p] = "none"]
  /\ rec' = [rec EXCEPT ![p] = Absent]
  /\ from' = [from EXCEPT ![p] = NoToken]
  /\ seen' = [seen EXCEPT ![p] = Absent]
  /\ undo' = [undo EXCEPT ![p] = Absent]

\* `holds`: the lock path still names the inode this hold locked.
Holds(p) == hold[p] = inode

\* A grant in the browser, with no lock held.
Grant(p) ==
  /\ p \in SignIns /\ pc[p] = "idle"
  /\ \E t \in Tokens \ issued :
       /\ issued' = issued \cup {t}
       /\ from' = [from EXCEPT ![p] = t]
  /\ goal' = [goal EXCEPT ![p] = "sign in"]
  /\ Goes(p, "granted")
  /\ UNCHANGED <<disk, base, lock, rec, seen, undo, mem, wire>>

\* `withTokenLock`: the kernel lets one process hold an inode's lock.
Lock(p) ==
  /\ pc[p] = (IF p \in Holders THEN "idle" ELSE "granted")
  /\ \A q \in Procs : hold[q] # inode
  /\ hold' = [hold EXCEPT ![p] = inode]
  /\ Goes(p, IF p \in Holders THEN "recover" ELSE "read")
  /\ UNCHANGED <<disk, base, inode, goal, rec, from, seen, undo, mem, issuer>>

\* `recover`: what this holder failed to store, only while its pending is committed.
Slip_IsAnswered(p) == digest # Absent  \* Slip: any committed record is taken for the pending one
IsAnswered(p) == digest = Pending(mem[p].from)

Recover(p) ==
  /\ pc[p] = "recover"
  /\ \/ /\ mem[p] = NoMemory
        /\ Goes(p, "read")
        /\ UNCHANGED <<mem, from, seen>>
     \/ /\ mem[p] # NoMemory /\ Holds(p)
        /\ seen' = [seen EXCEPT ![p] = digest]
        /\ IF IsAnswered(p)
             THEN /\ Goes(p, "visible")
                  /\ from' = [from EXCEPT ![p] = mem[p].from]
                  /\ UNCHANGED mem
             ELSE /\ Goes(p, "read")
                  /\ mem' = [mem EXCEPT ![p] = NoMemory]
                  /\ UNCHANGED from
  /\ UNCHANGED <<disk, base, lock, goal, rec, undo, issuer>>

\* The visible bytes must be the pending record or the one it was to become.
Visible(p) ==
  /\ pc[p] = "visible" /\ Holds(p)
  /\ file \in {Pending(from[p]), mem[p].record}
  /\ Writes(p, "recover", mem[p].record)
  /\ UNCHANGED <<disk, base, lock, from, seen, undo, mem, issuer>>

\* `readBytesLocked`, then the digest that says whether those bytes are the record.
ReadFile(p) ==
  /\ pc[p] = "read" /\ Holds(p)
  /\ rec' = [rec EXCEPT ![p] = file]
  /\ Goes(p, "judge")
  /\ UNCHANGED <<disk, base, lock, goal, from, seen, undo, mem, issuer>>

\* A ready pair that is due is marked pending; a sign-in writes where there is no
\* file or its owner's own record.
Judge(p) ==
  /\ pc[p] = "judge" /\ Holds(p)
  /\ seen' = [seen EXCEPT ![p] = digest]
  /\ \/ /\ p \in Holders /\ rec[p].kind = "ready" /\ rec[p] = digest
        /\ from' = [from EXCEPT ![p] = rec[p].token]
        /\ Writes(p, "pending", Pending(rec[p].token))
     \/ /\ p \in SignIns /\ rec[p] \in {Absent, digest}
        /\ Writes(p, "sign in", Ready(from[p]))
        /\ UNCHANGED from
  /\ UNCHANGED <<disk, base, lock, undo, mem, issuer>>

\* A call refuses: the hold is dead, a file call fails, the pair is not due or not ready,
\* the account is another's, or the issuer's answer is unknown and the pending stays.
GiveUp(p) ==
  /\ pc[p] \in {"granted", "recover", "visible", "read", "judge", "answer", "withdraw", "remove"}
  /\ Ends(p)
  /\ UNCHANGED <<disk, base, mem, issuer>>

---------------------------------------------------------------------------

\* `commitBytes`: a durable copy and a link to the old file, then the rename.
WriteNext(p) ==
  /\ pc[p] = "write" /\ Holds(p)
  /\ undo' = [undo EXCEPT ![p] = file]
  /\ Goes(p, "rename")
  /\ UNCHANGED <<disk, base, lock, goal, rec, from, seen, mem, issuer>>

Shows(r) == file' = r /\ onDisk' = onDisk \cup {r}

Rename(p) ==
  /\ pc[p] = "rename"
  /\ Shows(rec[p])
  /\ Goes(p, "sync")
  /\ UNCHANGED <<base, lock, goal, rec, from, seen, undo, mem, issuer>>

Slip_SyncDir(p) == pc[p] = "sync" /\ Goes(p, "fence") /\ UNCHANGED <<disk, base, lock, goal, rec, from, seen, undo, mem, issuer>>  \* Slip: the directory is not synced
SyncDir(p) ==
  /\ pc[p] = "sync"
  /\ \/ onDisk' = {file} /\ Goes(p, "fence")
     \/ UNCHANGED onDisk /\ Goes(p, "revert")
  /\ UNCHANGED <<file, base, lock, goal, rec, from, seen, undo, mem, issuer>>

\* What a commit that was not durable leaves: the answer to a request is kept in memory
\* with its pending, a sign-in takes its own bytes back, the rest is refused.
Failed(p) ==
  \/ /\ goal[p] = "sign in"
     /\ Goes(p, "withdraw")
     /\ UNCHANGED <<lock, goal, rec, from, seen, undo, mem>>
  \/ /\ goal[p] = "store"
     /\ mem' = [mem EXCEPT ![p] = [record |-> rec[p], from |-> from[p]]]
     /\ Ends(p)
  \/ /\ goal[p] \in {"pending", "recover"}
     /\ Ends(p)
     /\ UNCHANGED mem

WriteFails(p) ==
  /\ pc[p] \in {"write", "rename"}
  /\ Failed(p)
  /\ UNCHANGED <<disk, base, issuer>>

\* The directory is not durable: the old file goes back, or the new one stays exposed.
Revert(p) ==
  /\ pc[p] = "revert"
  /\ \/ Shows(undo[p])
     \/ file' = undo[p] /\ onDisk' = {undo[p]}
     \/ UNCHANGED disk
  /\ Failed(p)
  /\ UNCHANGED <<base, issuer>>

\* `commitDigest`: under the database's write lock, only while the hold lives and
\* nobody has committed since it last looked.
Slip_Unmoved(p) == TRUE  \* Slip: the committed digest is not compared with the observed one
Unmoved(p) == seen[p] = digest

Fence(p) ==
  /\ pc[p] = "fence"
  /\ db = {} /\ Holds(p) /\ Unmoved(p)
  /\ db' = {p}
  /\ Goes(p, "commit")
  /\ UNCHANGED <<disk, digest, gone, lock, goal, rec, from, seen, undo, mem, issuer>>

CommitDigest(p) ==
  /\ pc[p] = "commit"
  /\ digest' = rec[p] /\ db' = {}
  /\ gone' = gone \cup ({digest.token} \ {rec[p].token, NoToken})
  /\ \/ /\ goal[p] = "pending"
        /\ seen' = [seen EXCEPT ![p] = rec[p]]
        /\ Goes(p, "request")
        /\ UNCHANGED <<lock, goal, rec, from, undo, mem>>
     \/ /\ goal[p] = "recover"
        /\ seen' = [seen EXCEPT ![p] = rec[p]]
        /\ mem' = [mem EXCEPT ![p] = NoMemory]
        /\ Goes(p, "read")
        /\ goal' = [goal EXCEPT ![p] = "none"]
        /\ UNCHANGED <<lock, rec, from, undo>>
     \/ /\ goal[p] \in {"store", "sign in"}
        /\ Ends(p)
        /\ UNCHANGED mem
  /\ UNCHANGED <<disk, issuer>>

CommitFails(p) ==
  /\ pc[p] \in {"fence", "commit"}
  /\ db' = db \ {p}
  /\ Failed(p)
  /\ UNCHANGED <<disk, digest, gone, issuer>>

---------------------------------------------------------------------------

\* `refreshOnce`: one request. One that never carried a byte leaves the token as it was.
NotSent(p) ==
  /\ pc[p] = "request"
  /\ Writes(p, "store", Ready(from[p]))
  /\ UNCHANGED <<disk, base, lock, from, seen, undo, mem, issuer>>

Send(p) ==
  /\ pc[p] = "request"
  /\ wire' = [wire EXCEPT ![from[p]] = @ + 1]
  /\ Goes(p, "answer")
  /\ UNCHANGED <<disk, base, lock, goal, rec, from, seen, undo, mem, issued>>

\* The issuer refuses the token, rotates it, or leaves it in use.
Answered(p) ==
  /\ pc[p] = "answer"
  /\ \/ Writes(p, "store", Spent) /\ UNCHANGED issuer
     \/ \E t \in Tokens \ issued :
          /\ issued' = issued \cup {t}
          /\ Writes(p, "store", Ready(t))
          /\ UNCHANGED wire
     \/ /\ wire' = [wire EXCEPT ![from[p]] = @ - 1]
        /\ Writes(p, "store", Ready(from[p]))
        /\ UNCHANGED issued
  /\ UNCHANGED <<disk, base, lock, from, seen, undo, mem>>

\* `withdraw`: a sign-in that was not stored removes its own bytes, never a committed record.
Withdraw(p) ==
  /\ pc[p] = "withdraw" /\ Holds(p)
  /\ file = rec[p] /\ digest # rec[p]
  /\ Goes(p, "remove")
  /\ UNCHANGED <<disk, base, lock, goal, rec, from, seen, undo, mem, issuer>>

Remove(p) ==
  /\ pc[p] = "remove"
  /\ Shows(Absent)
  /\ Ends(p)
  /\ UNCHANGED <<base, mem, issuer>>

---------------------------------------------------------------------------

\* A same-user process replaces the lock file under a holder.
ReplaceLock ==
  /\ inode <= MaxReplacements
  /\ inode' = inode + 1
  /\ UNCHANGED <<disk, base, hold, hand, mem, issuer>>

Forgets(p) == mem' = IF p \in Holders THEN [mem EXCEPT ![p] = NoMemory] ELSE mem

\* A process dies: the kernel drops its lock and SQLite its open transaction.
Crash(p) ==
  /\ pc[p] # "idle"
  /\ Ends(p)
  /\ Forgets(p)
  /\ db' = db \ {p}
  /\ UNCHANGED <<disk, digest, gone, issuer>>

\* The machine loses power: a directory entry nobody synced may not be there.
PowerCut ==
  /\ file' \in onDisk /\ onDisk' = {file'}
  /\ db' = {}
  /\ hold' = [p \in Procs |-> 0]
  /\ pc' = [p \in Procs |-> "idle"] /\ goal' = [p \in Procs |-> "none"]
  /\ rec' = [p \in Procs |-> Absent] /\ from' = [p \in Procs |-> NoToken]
  /\ seen' = [p \in Procs |-> Absent] /\ undo' = [p \in Procs |-> Absent]
  /\ mem' = [p \in Holders |-> NoMemory]
  /\ UNCHANGED <<digest, gone, inode, issuer>>

Acts(p) ==
  \/ Grant(p) \/ Lock(p) \/ Recover(p) \/ Visible(p) \/ ReadFile(p) \/ Judge(p) \/ GiveUp(p)
  \/ WriteNext(p) \/ Rename(p) \/ SyncDir(p) \/ WriteFails(p) \/ Revert(p)
  \/ Fence(p) \/ CommitDigest(p) \/ CommitFails(p)
  \/ NotSent(p) \/ Send(p) \/ Answered(p) \/ Withdraw(p) \/ Remove(p)

Next == (\E p \in Procs : Acts(p) \/ Crash(p)) \/ ReplaceLock \/ PowerCut

Spec == Init /\ [][Next]_vars

---------------------------------------------------------------------------

\* However the lock file is replaced, calls fail and processes die, `refreshOnce` carries a
\* refresh token in one request, unless the issuer's answer left it in use.
SentOnce == \A t \in Tokens : wire[t] <= 1

\* While the lock file is left alone, the record `commitDigest` names survives a power cut.
CommittedIsDurable == [][digest' # digest /\ inode = 1 => onDisk' = {digest'}]_vars

Writing == {"write", "rename", "sync", "revert", "fence", "commit"}
Places == Writing \cup {"idle", "granted", "recover", "visible", "read", "judge",
                       "request", "answer", "withdraw", "remove"}
Goals == {"none", "pending", "store", "recover", "sign in"}
Records == {Absent, Spent} \cup {Ready(t) : t \in Tokens} \cup {Pending(t) : t \in Tokens}
MaybeToken == Tokens \cup {NoToken}

TypeOK ==
  /\ file \in Records /\ onDisk \subseteq Records /\ digest \in Records
  /\ db \subseteq Procs /\ gone \subseteq Tokens /\ issued \subseteq Tokens
  /\ inode \in Nat /\ hold \in [Procs -> Nat]
  /\ pc \in [Procs -> Places] /\ goal \in [Procs -> Goals]
  /\ rec \in [Procs -> Records] /\ from \in [Procs -> MaybeToken]
  /\ seen \in [Procs -> Records] /\ undo \in [Procs -> Records]
  /\ mem \in [Holders -> [record : Records, from : MaybeToken]]
  /\ wire \in [Tokens -> Nat]

\* What a process has in hand, at each place it can be.
Asks(p) == pc[p] \in {"request", "answer"}
Stores(p) == pc[p] \in Writing

InHand(p) ==
  /\ p \in SignIns =>
       /\ goal[p] = (IF pc[p] = "idle" THEN "none" ELSE "sign in")
       /\ goal[p] = "sign in" => from[p] \in issued
       /\ Stores(p) => rec[p] = Ready(from[p])
       /\ pc[p] \notin {"recover", "visible"} /\ ~Asks(p)
  /\ p \in Holders =>
       /\ goal[p] # "none" <=> Stores(p) \/ Asks(p)
       /\ pc[p] \notin {"granted", "withdraw", "remove"}
       /\ goal[p] # "sign in"
       /\ pc[p] \in {"read", "judge"} \/ goal[p] \in {"pending", "store"} => mem[p] = NoMemory
       /\ goal[p] # "none" => from[p] \in issued
       /\ goal[p] = "pending" /\ Stores(p) => rec[p] = Pending(from[p]) /\ seen[p] = Ready(from[p])
       /\ Asks(p) => goal[p] = "pending"
       /\ goal[p] = "store" => rec[p].kind \in {"ready", "spent"}
       /\ goal[p] = "recover" => rec[p] = mem[p].record
       /\ goal[p] = "recover" \/ pc[p] = "visible" => mem[p].from = from[p] /\ mem[p] # NoMemory
       /\ goal[p] \in {"store", "recover"} \/ Asks(p) \/ pc[p] = "visible" => seen[p] = Pending(from[p])

\* The answer a holder keeps in memory: a record to store over its own pending.
InMemory(p) ==
  mem[p] # NoMemory => mem[p].record.kind \in {"ready", "spent"} /\ mem[p].from \in issued

\* One baton to a token: who may yet put it on the wire.
Claims(p, t) ==
  \/ p \in Holders /\ mem[p].record = Ready(t)
  \/ pc[p] = "request" /\ from[p] = t
  \/ goal[p] = "store" /\ rec[p] = Ready(t)
  \/ goal[p] = "sign in" /\ from[p] = t
Carries(p, t) == pc[p] = "answer" /\ from[p] = t

OneBaton(t) ==
  /\ wire[t] <= 1 /\ (t \notin issued => wire[t] = 0)
  /\ t \notin issued \/ wire[t] = 1 \/ digest = Ready(t) => \A p \in Procs : ~Claims(p, t)
  /\ t \notin issued \/ wire[t] = 1 => digest # Ready(t)
  /\ \A p \in Procs : Carries(p, t) => wire[t] = 1
  /\ \A p, q \in Procs : p # q => ~(Claims(p, t) /\ Claims(q, t)) /\ ~(Carries(p, t) /\ Carries(q, t))

\* The committed digest moves only under the database's lock, from what was observed.
FenceHolds == \A p \in Procs : pc[p] = "commit" <=> p \in db
UnderFence == \A p \in db : db = {p} /\ seen[p] = digest

\* A pair whose record another replaced is never the committed record again.
NoPairComesBack == digest.token \notin gone
NewToken(t) == t \notin gone /\ t # digest.token
Answers(p) == IF mem[p] = NoMemory THEN from[p] ELSE mem[p].from
NewPairs ==
  /\ \A t \in Tokens \ issued : NewToken(t)
  /\ \A p \in Procs, t \in Tokens : Claims(p, t) =>
       \/ NewToken(t)
       \/ p \in Holders /\ t = Answers(p)

\* The inductive invariant: each token has one baton, the digest moves only under its fence,
\* and a pair whose record another replaced never comes back.
TokenInv ==
  /\ TypeOK
  /\ \A p \in Procs : InHand(p)
  /\ \A p \in Holders : InMemory(p)
  /\ \A t \in Tokens : OneBaton(t)
  /\ FenceHolds /\ UnderFence
  /\ NoPairComesBack /\ NewPairs
===========================================================================
