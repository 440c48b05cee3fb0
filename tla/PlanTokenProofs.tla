-------------------------- MODULE PlanTokenProofs --------------------------
(***************************************************************************)
(* Why a refresh token is carried once, for any number of holders,         *)
(* sign-ins, tokens and replaced lock files.  Types and what a process has *)
(* in hand come first; then the fence, which moves the committed digest    *)
(* only from what its writer observed; then the one baton to each token;   *)
(* last the durability of what is committed, which needs the lock.         *)
(***************************************************************************)
EXTENDS PlanToken, TLAPS

USE PlanTokenAssumption

\* The records the token file and its digest may be.
LEMMA RecordShapes ==
  ASSUME NEW t \in Tokens
  PROVE  /\ Ready(t) \in Records /\ Pending(t) \in Records
         /\ Absent \in Records /\ Spent \in Records
  BY DEF Records

\* What a record's fields say, so that no later proof unfolds one.
LEMMA Fields ==
  /\ \A t : Ready(t).kind = "ready" /\ Ready(t).token = t
  /\ \A t : Pending(t).kind = "pending" /\ Pending(t).token = t
  /\ NoMemory.record.kind = "absent" /\ Absent.kind = "absent" /\ Spent.kind = "spent"
  BY DEF Ready, Pending, NoMemory, Absent, Spent

\* A record with a token is ready or pending on it.
LEMMA RecordParts ==
  ASSUME NEW r \in Records
  PROVE  /\ r.token \in MaybeToken
         /\ r.kind = "ready" => r.token \in Tokens /\ r = Ready(r.token)
         /\ r.kind = "pending" => r.token \in Tokens /\ r = Pending(r.token)
         /\ r.kind \notin {"ready", "pending"} => r.token = NoToken
  BY DEF Records, MaybeToken, Ready, Pending, Absent, Spent

\* Types: the initial state, then what each kind of update keeps.
LEMMA TypeInit == Init => TypeOK
  BY RecordShapes DEF Init, TypeOK, Records, MaybeToken, NoMemory, Absent, Procs, Places, Goals

LEMMA NoMemoryType == NoMemory \in [record : Records, from : MaybeToken]
  BY DEF NoMemory, Records, MaybeToken

LEMMA GoesTypes ==
  ASSUME TypeOK, NEW p \in Procs, NEW l \in Places, Goes(p, l)
  PROVE  pc' \in [Procs -> Places]
  BY DEF TypeOK, Goes

LEMMA WritesTypes ==
  ASSUME TypeOK, NEW p \in Procs, NEW g \in Goals, NEW r \in Records, Writes(p, g, r)
  PROVE  pc' \in [Procs -> Places] /\ goal' \in [Procs -> Goals] /\ rec' \in [Procs -> Records]
  BY DEF TypeOK, Goes, Writes, Places, Writing

HandTypes ==
  /\ inode \in Nat /\ hold \in [Procs -> Nat]
  /\ pc \in [Procs -> Places] /\ goal \in [Procs -> Goals]
  /\ rec \in [Procs -> Records] /\ from \in [Procs -> MaybeToken]
  /\ seen \in [Procs -> Records] /\ undo \in [Procs -> Records]

\* A hold that ends leaves a process with nothing in hand, of the right type.
LEMMA EndsTypes ==
  ASSUME TypeOK, NEW p \in Procs, Ends(p)
  PROVE  HandTypes'
<1>1. "idle" \in Places /\ "none" \in Goals /\ Absent \in Records /\ NoToken \in MaybeToken
  BY DEF Places, Goals, Records, MaybeToken
<1>2. hold' \in [Procs -> Nat] /\ inode' \in Nat
  BY DEF TypeOK, Ends
<1>3. pc' \in [Procs -> Places] /\ goal' \in [Procs -> Goals]
  BY <1>1 DEF TypeOK, Ends, Goes
<1>4. rec' \in [Procs -> Records] /\ from' \in [Procs -> MaybeToken]
  BY <1>1 DEF TypeOK, Ends
<1>5. seen' \in [Procs -> Records] /\ undo' \in [Procs -> Records]
  BY <1>1 DEF TypeOK, Ends
<1>. QED BY <1>2, <1>3, <1>4, <1>5 DEF HandTypes

MemTypes == mem \in [Holders -> [record : Records, from : MaybeToken]]
DataTypes ==
  /\ file \in Records /\ onDisk \subseteq Records /\ digest \in Records
  /\ db \subseteq Procs /\ gone \subseteq Tokens /\ issued \subseteq Tokens
  /\ wire \in [Tokens -> Nat]

LEMMA TypeParts == HandTypes' /\ MemTypes' /\ DataTypes' => TypeOK'
  BY DEF TypeOK, HandTypes, MemTypes, DataTypes

\* A commit that was not durable keeps the types, whatever it leaves.
LEMMA FailedTypes ==
  ASSUME TypeOK, NEW p \in Procs, Failed(p)
  PROVE  HandTypes' /\ MemTypes'
<1>1. CASE Goes(p, "withdraw") /\ UNCHANGED <<lock, goal, rec, from, seen, undo, mem>>
  <2>1. pc' \in [Procs -> Places]
    BY <1>1, GoesTypes DEF Places
  <2>. QED BY <1>1, <2>1 DEF TypeOK, HandTypes, MemTypes, lock
<1>2. CASE mem' = [mem EXCEPT ![p] = [record |-> rec[p], from |-> from[p]]] /\ Ends(p)
  <2>1. [record |-> rec[p], from |-> from[p]] \in [record : Records, from : MaybeToken]
    BY DEF TypeOK
  <2>. QED BY <1>2, <2>1, EndsTypes DEF TypeOK, MemTypes
<1>3. CASE Ends(p) /\ UNCHANGED mem
  BY <1>3, EndsTypes DEF TypeOK, MemTypes
<1>. QED BY <1>1, <1>2, <1>3 DEF Failed

\* Every step keeps the types.
LEMMA TypeStep ==
  ASSUME TypeOK, [Next]_vars,
         \A p \in Procs : InHand(p),
         \A t \in Tokens : OneBaton(t)
  PROVE  TypeOK'
<1>1. CASE UNCHANGED vars
  BY <1>1 DEF TypeOK, vars, disk, base, lock, hand, issuer
<1>2. ASSUME NEW p \in Procs, Grant(p) PROVE TypeOK'
  <2>1. PICK t \in Tokens \ issued : issued' = issued \cup {t} /\ from' = [from EXCEPT ![p] = t]
    BY <1>2 DEF Grant
  <2>2. gone' \subseteq Tokens /\ issued' \subseteq Tokens
    BY <1>2, <2>1 DEF TypeOK, Grant, base
  <2>3. pc' \in [Procs -> Places] /\ goal' \in [Procs -> Goals]
    BY <1>2 DEF TypeOK, Grant, Goes, Places, Goals
  <2>4. from' \in [Procs -> MaybeToken]
    BY <1>2, <2>1 DEF TypeOK, MaybeToken
  <2>. QED BY <1>2, <2>2, <2>3, <2>4 DEF TypeOK, Grant, disk, base, lock
<1>3. ASSUME NEW p \in Procs, Lock(p) PROVE TypeOK'
  <2>1. pc' \in [Procs -> Places] /\ hold' \in [Procs -> Nat]
    BY <1>3 DEF TypeOK, Lock, Goes, Places
  <2>. QED BY <1>3, <2>1 DEF TypeOK, Lock, disk, base, issuer
<1>4. ASSUME NEW p \in Procs, Recover(p) PROVE TypeOK'
  <2>1. pc' \in [Procs -> Places]
    BY <1>4 DEF TypeOK, Recover, Goes, Places
  <2>2. mem' \in [Holders -> [record : Records, from : MaybeToken]]
    BY <1>4, NoMemoryType DEF TypeOK, Recover
  <2>3. seen' \in [Procs -> Records]
    BY <1>4 DEF TypeOK, Recover
  <2>4. from' \in [Procs -> MaybeToken]
    <3>1. p \in Holders
      BY <1>4 DEF InHand, Recover, Procs
    <3>2. mem[p].from \in MaybeToken
      BY <3>1 DEF TypeOK
    <3>. QED BY <1>4, <3>2 DEF TypeOK, Recover
  <2>. QED BY <1>4, <2>1, <2>2, <2>3, <2>4 DEF TypeOK, Recover, disk, base, lock, issuer
<1>5. ASSUME NEW p \in Procs, Visible(p) PROVE TypeOK'
  <2>1. mem[p].record \in Records
    BY <1>5 DEF InHand, Visible, Procs, TypeOK
  <2>. QED BY <1>5, <2>1, WritesTypes DEF TypeOK, Visible, disk, base, lock, issuer, Goals
<1>6. ASSUME NEW p \in Procs, ReadFile(p) PROVE TypeOK'
  <2>1. pc' \in [Procs -> Places] /\ rec' \in [Procs -> Records]
    BY <1>6 DEF TypeOK, ReadFile, Goes, Places
  <2>. QED BY <1>6, <2>1 DEF TypeOK, ReadFile, disk, base, lock, issuer
<1>7. ASSUME NEW p \in Procs, Judge(p) PROVE TypeOK'
  <2>1. seen' \in [Procs -> Records]
    BY <1>7 DEF TypeOK, Judge
  <2>2. CASE /\ p \in Holders /\ rec[p].kind = "ready" /\ rec[p] = digest
             /\ from' = [from EXCEPT ![p] = rec[p].token]
             /\ Writes(p, "pending", Pending(rec[p].token))
    <3>1. rec[p].token \in Tokens
      BY <2>2, RecordParts DEF TypeOK
    <3>2. Pending(rec[p].token) \in Records /\ from' \in [Procs -> MaybeToken]
      BY <2>2, <3>1, RecordShapes DEF TypeOK, MaybeToken
    <3>. QED BY <1>7, <2>1, <2>2, <3>2, WritesTypes DEF TypeOK, Judge, disk, base, lock, issuer, Goals
  <2>3. CASE p \in SignIns /\ Writes(p, "sign in", Ready(from[p])) /\ UNCHANGED from
    <3>1. from[p] \in Tokens
      BY <1>7, <2>3 DEF TypeOK, InHand, Judge
    <3>. QED BY <1>7, <2>1, <2>3, <3>1, RecordShapes, WritesTypes DEF TypeOK, Judge, disk, base, lock, issuer, Goals
  <2>. QED BY <1>7, <2>2, <2>3 DEF Judge
<1>8. ASSUME NEW p \in Procs, GiveUp(p) PROVE TypeOK'
  <2>1. MemTypes' /\ DataTypes'
    BY <1>8 DEF TypeOK, MemTypes, DataTypes, GiveUp, disk, base, issuer
  <2>. QED BY <1>8, <2>1, EndsTypes, TypeParts DEF GiveUp
<1>9. ASSUME NEW p \in Procs, WriteNext(p) PROVE TypeOK'
  <2>1. pc' \in [Procs -> Places] /\ undo' \in [Procs -> Records]
    BY <1>9 DEF TypeOK, WriteNext, Goes, Places, Writing
  <2>. QED BY <1>9, <2>1 DEF TypeOK, WriteNext, disk, base, lock, issuer
<1>10. ASSUME NEW p \in Procs, Rename(p) PROVE TypeOK'
  <2>1. pc' \in [Procs -> Places]
    BY <1>10 DEF TypeOK, Rename, Goes, Places, Writing
  <2>. QED BY <1>10, <2>1 DEF TypeOK, Rename, Shows, base, lock, issuer
<1>11. ASSUME NEW p \in Procs, SyncDir(p) PROVE TypeOK'
  <2>1. pc' \in [Procs -> Places]
    BY <1>11 DEF TypeOK, SyncDir, Goes, Places, Writing
  <2>. QED BY <1>11, <2>1 DEF TypeOK, SyncDir, base, lock, issuer
<1>12. ASSUME NEW p \in Procs, WriteFails(p) PROVE TypeOK'
  <2>1. DataTypes'
    BY <1>12 DEF TypeOK, DataTypes, WriteFails, disk, base, issuer
  <2>. QED BY <1>12, <2>1, FailedTypes, TypeParts DEF WriteFails
<1>13. ASSUME NEW p \in Procs, Revert(p) PROVE TypeOK'
  <2>1. file' \in Records /\ onDisk' \subseteq Records
    BY <1>13 DEF TypeOK, Revert, Shows, disk
  <2>2. DataTypes'
    BY <1>13, <2>1 DEF TypeOK, DataTypes, Revert, base, issuer
  <2>. QED BY <1>13, <2>2, FailedTypes, TypeParts DEF Revert
<1>14. ASSUME NEW p \in Procs, Fence(p) PROVE TypeOK'
  <2>1. pc' \in [Procs -> Places]
    BY <1>14 DEF TypeOK, Fence, Goes, Places, Writing
  <2>. QED BY <1>14, <2>1 DEF TypeOK, Fence, disk, lock, issuer
<1>15. ASSUME NEW p \in Procs, CommitDigest(p) PROVE TypeOK'
  <2>1. digest' \in Records /\ db' \subseteq Procs /\ gone' \subseteq Tokens
    <3>1. digest.token \in MaybeToken
      BY RecordParts DEF TypeOK
    <3>. QED BY <1>15, <3>1 DEF TypeOK, CommitDigest, MaybeToken
  <2>2. CASE /\ seen' = [seen EXCEPT ![p] = rec[p]]
             /\ Goes(p, "request")
             /\ UNCHANGED <<lock, goal, rec, from, undo, mem>>
    <3>1. pc' \in [Procs -> Places] /\ seen' \in [Procs -> Records]
      BY <2>2 DEF TypeOK, Goes, Places
    <3>. QED BY <1>15, <2>1, <2>2, <3>1 DEF TypeOK, CommitDigest, disk, lock, issuer
  <2>3. CASE /\ seen' = [seen EXCEPT ![p] = rec[p]]
             /\ mem' = [mem EXCEPT ![p] = NoMemory]
             /\ Goes(p, "read")
             /\ goal' = [goal EXCEPT ![p] = "none"]
             /\ UNCHANGED <<lock, rec, from, undo>>
    <3>1. pc' \in [Procs -> Places] /\ seen' \in [Procs -> Records] /\ goal' \in [Procs -> Goals]
      BY <2>3 DEF TypeOK, Goes, Places, Goals
    <3>2. mem' \in [Holders -> [record : Records, from : MaybeToken]]
      BY <2>3, NoMemoryType DEF TypeOK
    <3>. QED BY <1>15, <2>1, <2>3, <3>1, <3>2 DEF TypeOK, CommitDigest, disk, lock, issuer
  <2>4. CASE Ends(p) /\ UNCHANGED mem
    <3>1. MemTypes' /\ DataTypes'
      BY <1>15, <2>1, <2>4 DEF TypeOK, MemTypes, DataTypes, CommitDigest, disk, issuer
    <3>. QED BY <2>4, <3>1, EndsTypes, TypeParts
  <2>. QED BY <1>15, <2>2, <2>3, <2>4 DEF CommitDigest
<1>16. ASSUME NEW p \in Procs, CommitFails(p) PROVE TypeOK'
  <2>1. DataTypes'
    BY <1>16 DEF TypeOK, DataTypes, CommitFails, disk, issuer
  <2>. QED BY <1>16, <2>1, FailedTypes, TypeParts DEF CommitFails
<1>17. ASSUME NEW p \in Procs, NotSent(p) PROVE TypeOK'
  <2>1. Ready(from[p]) \in Records
    BY <1>17, RecordShapes DEF TypeOK, InHand, NotSent, Asks, Procs
  <2>. QED BY <1>17, <2>1, WritesTypes DEF TypeOK, NotSent, disk, base, lock, issuer, Goals
<1>18. ASSUME NEW p \in Procs, Send(p) PROVE TypeOK'
  <2>1. pc' \in [Procs -> Places] /\ wire' \in [Tokens -> Nat]
    <3>1. from[p] \in Tokens
      BY <1>18 DEF TypeOK, InHand, Send, Asks, Procs
    <3>. QED BY <1>18, <3>1 DEF TypeOK, Send, Goes, Places
  <2>. QED BY <1>18, <2>1 DEF TypeOK, Send, disk, base, lock
<1>19. ASSUME NEW p \in Procs, Answered(p) PROVE TypeOK'
  <2>0. from[p] \in Tokens /\ Carries(p, from[p])
    BY <1>19 DEF TypeOK, InHand, Answered, Asks, Procs, Carries
  <2>1. CASE Writes(p, "store", Spent) /\ UNCHANGED issuer
    BY <1>19, <2>1, WritesTypes, RecordShapes DEF TypeOK, Answered, disk, base, lock, issuer, Goals, Records
  <2>2. ASSUME NEW t \in Tokens \ issued, issued' = issued \cup {t},
               Writes(p, "store", Ready(t)), UNCHANGED wire
        PROVE  TypeOK'
    BY <1>19, <2>2, WritesTypes, RecordShapes DEF TypeOK, Answered, disk, base, lock, Goals
  <2>3. CASE /\ wire' = [wire EXCEPT ![from[p]] = @ - 1]
             /\ Writes(p, "store", Ready(from[p]))
             /\ UNCHANGED issued
    <3>1. wire' \in [Tokens -> Nat]
      BY <2>0, <2>3 DEF TypeOK, OneBaton
    <3>. QED BY <1>19, <2>0, <2>3, <3>1, WritesTypes, RecordShapes DEF TypeOK, Answered, disk, base, lock, Goals
  <2>. QED BY <1>19, <2>1, <2>2, <2>3 DEF Answered
<1>20. ASSUME NEW p \in Procs, Withdraw(p) PROVE TypeOK'
  <2>1. pc' \in [Procs -> Places]
    BY <1>20 DEF TypeOK, Withdraw, Goes, Places
  <2>. QED BY <1>20, <2>1 DEF TypeOK, Withdraw, disk, base, lock, issuer
<1>21. ASSUME NEW p \in Procs, Remove(p) PROVE TypeOK'
  <2>1. MemTypes' /\ DataTypes'
    BY <1>21 DEF TypeOK, MemTypes, DataTypes, Remove, Shows, base, issuer, Records
  <2>. QED BY <1>21, <2>1, EndsTypes, TypeParts DEF Remove
<1>22. ASSUME NEW p \in Procs, Crash(p) PROVE TypeOK'
  <2>1. MemTypes'
    BY <1>22, NoMemoryType DEF TypeOK, MemTypes, Crash, Forgets
  <2>2. DataTypes'
    BY <1>22 DEF TypeOK, DataTypes, Crash, disk, issuer
  <2>. QED BY <1>22, <2>1, <2>2, EndsTypes, TypeParts DEF Crash
<1>23. CASE ReplaceLock
  BY <1>23 DEF TypeOK, ReplaceLock, disk, base, hand, issuer
<1>24. CASE PowerCut
  <2>1. HandTypes'
    BY <1>24 DEF TypeOK, HandTypes, PowerCut, Places, Goals, Records, MaybeToken
  <2>2. MemTypes'
    BY <1>24, NoMemoryType DEF MemTypes, PowerCut
  <2>3. DataTypes'
    BY <1>24 DEF TypeOK, DataTypes, PowerCut, issuer
  <2>. QED BY <2>1, <2>2, <2>3, TypeParts
<1>. QED
  BY <1>1, <1>2, <1>3, <1>4, <1>5, <1>6, <1>7, <1>8, <1>9, <1>10, <1>11, <1>12, <1>13, <1>14, <1>15,
     <1>16, <1>17, <1>18, <1>19, <1>20, <1>21, <1>22, <1>23, <1>24 DEF Next, Acts

\* What each process has in hand stays what its place says.
LEMMA HandStep ==
  ASSUME TypeOK, [Next]_vars,
         NEW q \in Procs, InHand(q),
         \A p \in Holders : InMemory(p),
         \A t \in Tokens \ issued : NewToken(t)
  PROVE  InHand(q)'
<1>. USE DEF InHand, Asks, Stores, Writing
<1>1. CASE UNCHANGED vars
  BY <1>1 DEF vars, hand, issuer
<1>2. ASSUME NEW p \in Procs, Grant(p) PROVE InHand(q)'
  BY <1>2 DEF TypeOK, Grant, Goes, lock, Procs
<1>3. ASSUME NEW p \in Procs, Lock(p) PROVE InHand(q)'
  BY <1>3 DEF TypeOK, Lock, Goes, issuer, Procs
<1>4. ASSUME NEW p \in Procs, Recover(p) PROVE InHand(q)'
  <2>1. CASE q # p
    BY <1>4, <2>1, ZenonT(40) DEF TypeOK, Recover, Goes, lock, issuer, Procs
  <2>2. CASE q = p /\ Goes(p, "read")
    BY <1>4, <2>2 DEF TypeOK, Recover, Goes, lock, issuer, Procs
  <2>3. CASE q = p /\ ~Goes(p, "read")
    <3>1. /\ p \in Holders /\ p \notin SignIns /\ mem[p] # NoMemory /\ goal[p] = "none"
          /\ mem[p].from \in issued
      BY <1>4, <2>3 DEF Recover, InMemory, Procs
    <3>2. pc'[p] = "visible" /\ from'[p] = mem[p].from /\ seen'[p] = Pending(mem[p].from)
      BY <1>4, <2>3, <3>1 DEF TypeOK, Recover, IsAnswered, Goes
    <3>3. mem' = mem /\ goal' = goal
      BY <1>4, <2>3, <3>1 DEF Recover
    <3>. QED BY <2>3, <3>1, <3>2, <3>3
  <2>. QED BY <2>1, <2>2, <2>3
<1>5. ASSUME NEW p \in Procs, Visible(p) PROVE InHand(q)'
  BY <1>5 DEF TypeOK, Visible, InMemory, Goes, Writes, lock, issuer, Procs
<1>6. ASSUME NEW p \in Procs, ReadFile(p) PROVE InHand(q)'
  BY <1>6 DEF TypeOK, ReadFile, Goes, lock, issuer, Procs
<1>7. ASSUME NEW p \in Procs, Judge(p) PROVE InHand(q)'
  <2>1. CASE q # p
    BY <1>7, <2>1 DEF TypeOK, Judge, Goes, Writes, lock, issuer, Procs
  <2>2. CASE q = p /\ p \in Holders
    <3>1. rec[p].token \in Tokens /\ rec[p] = Ready(rec[p].token)
      BY <1>7, <2>2, RecordParts DEF TypeOK, Judge, Procs
    <3>2. rec[p].token \in issued
      BY <1>7, <2>2, <3>1 DEF Judge, NewToken, Ready, Procs
    <3>. QED BY <1>7, <2>2, <3>1, <3>2 DEF TypeOK, Judge, Goes, Writes, lock, issuer, Procs
  <2>3. CASE q = p /\ p \in SignIns
    BY <1>7, <2>3 DEF TypeOK, Judge, Goes, Writes, lock, issuer, Procs
  <2>. QED BY <2>1, <2>2, <2>3 DEF Procs
<1>8. ASSUME NEW p \in Procs, GiveUp(p) PROVE InHand(q)'
  BY <1>8, ZenonT(40) DEF TypeOK, GiveUp, Goes, Ends, issuer, Procs
<1>9. ASSUME NEW p \in Procs, WriteNext(p) PROVE InHand(q)'
  BY <1>9 DEF TypeOK, WriteNext, Goes, lock, issuer, Procs
<1>10. ASSUME NEW p \in Procs, Rename(p) PROVE InHand(q)'
  BY <1>10 DEF TypeOK, Rename, Goes, lock, issuer, Procs
<1>11. ASSUME NEW p \in Procs, SyncDir(p) PROVE InHand(q)'
  BY <1>11 DEF TypeOK, SyncDir, Goes, lock, issuer, Procs
<1>12. ASSUME NEW p \in Procs, WriteFails(p) PROVE InHand(q)'
  BY <1>12, ZenonT(40) DEF TypeOK, WriteFails, Goes, Ends, Failed, lock, issuer, Procs
<1>13. ASSUME NEW p \in Procs, Revert(p) PROVE InHand(q)'
  BY <1>13, ZenonT(40) DEF TypeOK, Revert, Goes, Ends, Failed, lock, issuer, Procs
<1>14. ASSUME NEW p \in Procs, Fence(p) PROVE InHand(q)'
  BY <1>14 DEF TypeOK, Fence, Goes, lock, issuer, Procs
<1>15. ASSUME NEW p \in Procs, CommitDigest(p) PROVE InHand(q)'
  BY <1>15, ZenonT(40) DEF TypeOK, CommitDigest, Goes, Ends, lock, issuer, Procs
<1>16. ASSUME NEW p \in Procs, CommitFails(p) PROVE InHand(q)'
  BY <1>16, ZenonT(40) DEF TypeOK, CommitFails, Goes, Ends, Failed, lock, issuer, Procs
<1>17. ASSUME NEW p \in Procs, NotSent(p) PROVE InHand(q)'
  BY <1>17 DEF TypeOK, NotSent, Ready, Goes, Writes, lock, issuer, Procs
<1>18. ASSUME NEW p \in Procs, Send(p) PROVE InHand(q)'
  BY <1>18 DEF TypeOK, Send, Goes, lock, Procs
<1>19. ASSUME NEW p \in Procs, Answered(p) PROVE InHand(q)'
  <2>1. CASE q # p
    BY <1>19, <2>1 DEF TypeOK, Answered, Goes, Writes, lock, issuer, Procs
  <2>2. CASE q = p
    <3>1. /\ q \in Holders /\ q \notin SignIns /\ from'[q] = from[q] /\ from[q] \in issued'
          /\ mem'[q] = NoMemory /\ seen'[q] = Pending(from'[q])
      <4>1. q \in Holders /\ q \notin SignIns /\ goal[q] = "pending"
        BY <1>19, <2>2 DEF Answered, Procs
      <4>2. from[q] \in issued /\ mem[q] = NoMemory /\ seen[q] = Pending(from[q])
        BY <1>19, <2>2, <4>1 DEF Answered
      <4>. QED BY <1>19, <2>2, <4>1, <4>2 DEF Answered, lock, issuer
    <3>2. pc'[q] = "write" /\ goal'[q] = "store"
      BY <1>19, <2>2 DEF TypeOK, Answered, Goes, Writes
    <3>3. rec'[q].kind \in {"ready", "spent"}
      <4>1. \E r : rec' = [rec EXCEPT ![p] = r] /\ r.kind \in {"ready", "spent"}
        BY <1>19, ZenonT(40) DEF Answered, Ready, Spent, Writes
      <4>. QED BY <2>2, <4>1 DEF TypeOK
    <3>. QED BY <3>1, <3>2, <3>3
  <2>. QED BY <2>1, <2>2
<1>20. ASSUME NEW p \in Procs, Withdraw(p) PROVE InHand(q)'
  BY <1>20 DEF TypeOK, Withdraw, Goes, lock, issuer, Procs
<1>21. ASSUME NEW p \in Procs, Remove(p) PROVE InHand(q)'
  BY <1>21 DEF TypeOK, Remove, Goes, Ends, issuer, Procs
<1>22. ASSUME NEW p \in Procs, Crash(p) PROVE InHand(q)'
  BY <1>22 DEF TypeOK, Crash, Goes, Ends, Forgets, issuer, Procs
<1>23. CASE ReplaceLock
  BY <1>23 DEF ReplaceLock, hand, issuer
<1>24. CASE PowerCut
  BY <1>24 DEF PowerCut, issuer, Procs
<1>. QED
  BY <1>1, <1>2, <1>3, <1>4, <1>5, <1>6, <1>7, <1>8, <1>9, <1>10, <1>11, <1>12, <1>13, <1>14,
     <1>15, <1>16, <1>17, <1>18, <1>19, <1>20, <1>21, <1>22, <1>23, <1>24 DEF Next, Acts

\* What a holder keeps in memory is an answer it failed to store.
LEMMA MemoryStep ==
  ASSUME TypeOK, [Next]_vars,
         \A p \in Procs : InHand(p),
         NEW q \in Holders, InMemory(q)
  PROVE  InMemory(q)'
<1>1. CASE mem' = mem /\ issued \subseteq issued'
  BY <1>1 DEF InMemory
<1>2. ASSUME NEW p \in Procs, Failed(p), issued' = issued PROVE InMemory(q)'
  <2>1. CASE mem'[q] = mem[q]
    BY <1>2, <2>1 DEF InMemory
  <2>2. CASE mem'[q] # mem[q]
    <3>1. p = q /\ goal[p] = "store" /\ mem'[q] = [record |-> rec[p], from |-> from[p]]
      BY <1>2, <2>2 DEF TypeOK, Failed
    <3>2. rec[p].kind \in {"ready", "spent"} /\ from[p] \in issued
      BY <3>1 DEF InHand
    <3>. QED BY <1>2, <3>1, <3>2 DEF InMemory
  <2>. QED BY <2>1, <2>2
<1>3. ASSUME NEW p \in Procs, Crash(p) \/ Recover(p) \/ CommitDigest(p) PROVE InMemory(q)'
  <2>1. issued' = issued
    BY <1>3 DEF Crash, Recover, CommitDigest, issuer
  <2>2. mem'[q] \in {mem[q], NoMemory}
    BY <1>3 DEF TypeOK, Crash, Recover, CommitDigest, Forgets
  <2>. QED BY <2>1, <2>2 DEF InMemory
<1>4. CASE PowerCut
  BY <1>4 DEF InMemory, PowerCut
<1>5. ASSUME NEW p \in Procs,
             \/ Grant(p) \/ Lock(p) \/ Visible(p) \/ ReadFile(p) \/ Judge(p) \/ GiveUp(p)
             \/ WriteNext(p) \/ Rename(p) \/ SyncDir(p) \/ Fence(p)
             \/ NotSent(p) \/ Send(p) \/ Answered(p) \/ Withdraw(p) \/ Remove(p)
      PROVE  mem' = mem /\ issued \subseteq issued'
  BY <1>5 DEF Grant, Lock, Visible, ReadFile, Judge, GiveUp, WriteNext, Rename, SyncDir, Fence,
              NotSent, Send, Answered, Withdraw, Remove, issuer
<1>6. ASSUME NEW p \in Procs, WriteFails(p) \/ Revert(p) \/ CommitFails(p)
      PROVE  Failed(p) /\ issued' = issued
  BY <1>6 DEF WriteFails, Revert, CommitFails, issuer
<1>7. CASE ReplaceLock \/ UNCHANGED vars
  BY <1>1, <1>7 DEF ReplaceLock, vars, issuer
<1>. QED BY <1>1, <1>2, <1>3, <1>4, <1>5, <1>6, <1>7 DEF Next, Acts

\* The committed digest moves only under the database's lock, from what was observed.
LEMMA FenceStep ==
  ASSUME TypeOK, [Next]_vars, FenceHolds, UnderFence
  PROVE  FenceHolds' /\ UnderFence'
<1>. USE DEF FenceHolds, UnderFence
<1>1. CASE UNCHANGED vars
  BY <1>1 DEF vars, base, hand
<1>2. CASE ReplaceLock \/ PowerCut
  BY <1>2 DEF ReplaceLock, PowerCut, base, hand
<1>3. ASSUME NEW p \in Procs, Grant(p) PROVE FenceHolds' /\ UnderFence'
  BY <1>3 DEF TypeOK, Grant, Goes, base
<1>4. ASSUME NEW p \in Procs, Lock(p) PROVE FenceHolds' /\ UnderFence'
  BY <1>4 DEF TypeOK, Lock, Goes, base
<1>5. ASSUME NEW p \in Procs, Recover(p) PROVE FenceHolds' /\ UnderFence'
  BY <1>5 DEF TypeOK, Recover, Goes, base
<1>6. ASSUME NEW p \in Procs, Visible(p) PROVE FenceHolds' /\ UnderFence'
  BY <1>6 DEF TypeOK, Visible, Goes, Writes, base
<1>7. ASSUME NEW p \in Procs, ReadFile(p) PROVE FenceHolds' /\ UnderFence'
  BY <1>7 DEF TypeOK, ReadFile, Goes, base
<1>8. ASSUME NEW p \in Procs, Judge(p) PROVE FenceHolds' /\ UnderFence'
  BY <1>8 DEF TypeOK, Judge, Goes, Writes, base
<1>9. ASSUME NEW p \in Procs, GiveUp(p) PROVE FenceHolds' /\ UnderFence'
  BY <1>9 DEF TypeOK, GiveUp, Goes, Ends, base
<1>10. ASSUME NEW p \in Procs, WriteNext(p) PROVE FenceHolds' /\ UnderFence'
  BY <1>10 DEF TypeOK, WriteNext, Goes, base
<1>11. ASSUME NEW p \in Procs, Rename(p) PROVE FenceHolds' /\ UnderFence'
  BY <1>11 DEF TypeOK, Rename, Goes, base
<1>12. ASSUME NEW p \in Procs, SyncDir(p) PROVE FenceHolds' /\ UnderFence'
  BY <1>12 DEF TypeOK, SyncDir, Goes, base
<1>13. ASSUME NEW p \in Procs, WriteFails(p) PROVE FenceHolds' /\ UnderFence'
  BY <1>13 DEF TypeOK, WriteFails, Goes, Ends, Failed, base
<1>14. ASSUME NEW p \in Procs, Revert(p) PROVE FenceHolds' /\ UnderFence'
  BY <1>14 DEF TypeOK, Revert, Goes, Ends, Failed, base
<1>15. ASSUME NEW p \in Procs, Fence(p) PROVE FenceHolds' /\ UnderFence'
  BY <1>15 DEF TypeOK, Fence, Unmoved, Goes
<1>16. ASSUME NEW p \in Procs, CommitDigest(p) PROVE FenceHolds' /\ UnderFence'
  <2>1. db = {p} /\ db' = {}
    BY <1>16 DEF CommitDigest
  <2>2. \A q \in Procs : pc'[q] # "commit"
    BY <1>16, <2>1 DEF TypeOK, CommitDigest, Goes, Ends
  <2>. QED BY <2>1, <2>2
<1>17. ASSUME NEW p \in Procs, CommitFails(p) PROVE FenceHolds' /\ UnderFence'
  BY <1>17, ZenonT(40) DEF TypeOK, CommitFails, Goes, Ends, Failed
<1>18. ASSUME NEW p \in Procs, NotSent(p) PROVE FenceHolds' /\ UnderFence'
  BY <1>18 DEF TypeOK, NotSent, Goes, Writes, base
<1>19. ASSUME NEW p \in Procs, Send(p) PROVE FenceHolds' /\ UnderFence'
  BY <1>19 DEF TypeOK, Send, Goes, base
<1>20. ASSUME NEW p \in Procs, Answered(p) PROVE FenceHolds' /\ UnderFence'
  BY <1>20 DEF TypeOK, Answered, Goes, Writes, base
<1>21. ASSUME NEW p \in Procs, Withdraw(p) PROVE FenceHolds' /\ UnderFence'
  BY <1>21 DEF TypeOK, Withdraw, Goes, base
<1>22. ASSUME NEW p \in Procs, Remove(p) PROVE FenceHolds' /\ UnderFence'
  BY <1>22 DEF TypeOK, Remove, Goes, Ends, base
<1>23. ASSUME NEW p \in Procs, Crash(p) PROVE FenceHolds' /\ UnderFence'
  BY <1>23 DEF TypeOK, Crash, Goes, Ends
<1>. QED
  BY <1>1, <1>2, <1>3, <1>4, <1>5, <1>6, <1>7, <1>8, <1>9, <1>10, <1>11, <1>12, <1>13, <1>14,
     <1>15, <1>16, <1>17, <1>18, <1>19, <1>20, <1>21, <1>22, <1>23 DEF Next, Acts

\* Who may put a token on the wire: steps that only take claims away.
Quiet(p) ==
  \/ Lock(p) \/ Recover(p) \/ Visible(p) \/ ReadFile(p) \/ Judge(p) \/ GiveUp(p)
  \/ WriteNext(p) \/ Rename(p) \/ SyncDir(p) \/ WriteFails(p) \/ Revert(p)
  \/ Fence(p) \/ CommitFails(p) \/ Withdraw(p) \/ Remove(p) \/ Crash(p)

LEMMA QuietStep ==
  ASSUME TypeOK, NEW p \in Procs, Quiet(p), InHand(p)
  PROVE  UNCHANGED <<digest, gone, issuer>>
  BY DEF Quiet, Lock, Recover, Visible, ReadFile, Judge, GiveUp, WriteNext, Rename, SyncDir,
         WriteFails, Revert, Fence, CommitFails, Withdraw, Remove, Crash, base

\* An answer that was not stored moves from the hand to the memory: the claim is the same.
LEMMA FailedClaims ==
  ASSUME TypeOK, NEW p \in Procs, Stores(p), Failed(p), InHand(p),
         NEW q \in Procs, NEW t \in Tokens
  PROVE  (Claims(q, t)' => Claims(q, t)) /\ (Carries(q, t)' => Carries(q, t))
<1>. USE DEF Claims, Carries
<1>1. CASE goal[p] = "sign in"
  BY <1>1 DEF TypeOK, Failed, Goes, lock
<1>2. CASE goal[p] = "store"
  <2>1. Ends(p) /\ mem' = [mem EXCEPT ![p] = [record |-> rec[p], from |-> from[p]]]
    BY <1>2 DEF Failed
  <2>2. CASE q = p
    BY <1>2, <2>1, <2>2 DEF TypeOK, Ends, Goes
  <2>3. CASE q # p
    BY <2>1, <2>3 DEF TypeOK, Ends, Goes
  <2>. QED BY <2>2, <2>3
<1>3. CASE goal[p] \in {"pending", "recover"}
  BY <1>3 DEF TypeOK, Failed, Ends, Goes
<1>. QED BY <1>1, <1>2, <1>3 DEF Failed

\* Nobody gains a claim or a request under way in a quiet step.
LEMMA QuietClaims ==
  ASSUME TypeOK, NEW p \in Procs, Quiet(p), InHand(p),
         NEW q \in Procs, NEW t \in Tokens
  PROVE  (Claims(q, t)' => Claims(q, t)) /\ (Carries(q, t)' => Carries(q, t))
<1>. USE DEF Claims, Carries
<1>1. ASSUME Lock(p) PROVE (Claims(q, t)' => Claims(q, t)) /\ (Carries(q, t)' => Carries(q, t))
  BY <1>1 DEF TypeOK, InHand, Asks, Stores, Writing, Lock, Goes
<1>2. ASSUME Recover(p) PROVE (Claims(q, t)' => Claims(q, t)) /\ (Carries(q, t)' => Carries(q, t))
  <2>1. CASE q = p
    <3>1. mem'[p] \in {mem[p], NoMemory} /\ goal'[p] = goal[p] /\ p \in Holders /\ p \notin SignIns
      BY <1>2 DEF TypeOK, InHand, Recover, Procs
    <3>2. goal[p] = "none" /\ pc'[p] \in {"read", "visible"}
      BY <1>2, <3>1 DEF TypeOK, InHand, Recover, Goes, Asks, Stores, Writing
    <3>. QED BY <2>1, <3>1, <3>2 DEF NoMemory, Absent, Ready
  <2>2. CASE q # p
    BY <1>2, <2>2 DEF TypeOK, Recover, Goes
  <2>. QED BY <2>1, <2>2
<1>3. ASSUME Visible(p) PROVE (Claims(q, t)' => Claims(q, t)) /\ (Carries(q, t)' => Carries(q, t))
  BY <1>3 DEF TypeOK, InHand, Asks, Stores, Writing, Visible, Goes, Writes
<1>4. ASSUME ReadFile(p) PROVE (Claims(q, t)' => Claims(q, t)) /\ (Carries(q, t)' => Carries(q, t))
  BY <1>4 DEF TypeOK, InHand, Asks, Stores, Writing, ReadFile, Goes, Procs
<1>5. ASSUME Judge(p) PROVE (Claims(q, t)' => Claims(q, t)) /\ (Carries(q, t)' => Carries(q, t))
  BY <1>5 DEF TypeOK, InHand, Asks, Stores, Writing, Judge, Goes, Writes, Procs
<1>6. ASSUME GiveUp(p) PROVE (Claims(q, t)' => Claims(q, t)) /\ (Carries(q, t)' => Carries(q, t))
  BY <1>6 DEF TypeOK, InHand, Asks, Stores, Writing, GiveUp, Goes, Ends
<1>7. ASSUME WriteNext(p) PROVE (Claims(q, t)' => Claims(q, t)) /\ (Carries(q, t)' => Carries(q, t))
  BY <1>7 DEF TypeOK, InHand, Asks, Stores, Writing, WriteNext, Goes
<1>8. ASSUME Rename(p) PROVE (Claims(q, t)' => Claims(q, t)) /\ (Carries(q, t)' => Carries(q, t))
  BY <1>8 DEF TypeOK, InHand, Asks, Stores, Writing, Rename, Goes
<1>9. ASSUME SyncDir(p) PROVE (Claims(q, t)' => Claims(q, t)) /\ (Carries(q, t)' => Carries(q, t))
  BY <1>9 DEF TypeOK, InHand, Asks, Stores, Writing, SyncDir, Goes
<1>10. ASSUME WriteFails(p) PROVE (Claims(q, t)' => Claims(q, t)) /\ (Carries(q, t)' => Carries(q, t))
  BY <1>10, FailedClaims DEF WriteFails, Stores, Writing
<1>11. ASSUME Revert(p) PROVE (Claims(q, t)' => Claims(q, t)) /\ (Carries(q, t)' => Carries(q, t))
  BY <1>11, FailedClaims DEF Revert, Stores, Writing
<1>12. ASSUME Fence(p) PROVE (Claims(q, t)' => Claims(q, t)) /\ (Carries(q, t)' => Carries(q, t))
  BY <1>12 DEF TypeOK, InHand, Asks, Stores, Writing, Fence, Goes, lock
<1>13. ASSUME CommitFails(p) PROVE (Claims(q, t)' => Claims(q, t)) /\ (Carries(q, t)' => Carries(q, t))
  BY <1>13, FailedClaims DEF CommitFails, Stores, Writing
<1>14. ASSUME Withdraw(p) PROVE (Claims(q, t)' => Claims(q, t)) /\ (Carries(q, t)' => Carries(q, t))
  BY <1>14 DEF TypeOK, InHand, Asks, Stores, Writing, Withdraw, Goes
<1>15. ASSUME Remove(p) PROVE (Claims(q, t)' => Claims(q, t)) /\ (Carries(q, t)' => Carries(q, t))
  BY <1>15 DEF TypeOK, InHand, Asks, Stores, Writing, Remove, Goes, Ends
<1>16. ASSUME Crash(p) PROVE (Claims(q, t)' => Claims(q, t)) /\ (Carries(q, t)' => Carries(q, t))
  BY <1>16 DEF TypeOK, InHand, Asks, Stores, Writing, Crash, Goes, Ends, Forgets, NoMemory, Absent, Ready
<1>. QED
  BY <1>1, <1>2, <1>3, <1>4, <1>5, <1>6, <1>7, <1>8, <1>9, <1>10, <1>11, <1>12, <1>13, <1>14,
     <1>15, <1>16 DEF Quiet

\* What is committed after a request or a grant was claimed, and is claimed no more.
LEMMA CommitClaims ==
  ASSUME TypeOK, NEW p \in Procs, CommitDigest(p), InHand(p), Stores(p),
         goal[p] \in {"recover", "store", "sign in"}, NEW t \in Tokens
  PROVE  (rec[p] = Ready(t) => Claims(p, t)) /\ ~Claims(p, t)'
<1>1. rec[p] = Ready(t) => Claims(p, t)
  <2>1. CASE goal[p] = "recover"
    <3>1. p \in Holders /\ rec[p] = mem[p].record
      BY <2>1 DEF InHand, Procs
    <3>. QED BY <3>1 DEF Claims
  <2>2. CASE goal[p] = "store"
    BY <2>2 DEF Claims
  <2>3. CASE goal[p] = "sign in"
    <3>1. rec[p] = Ready(from[p])
      BY <2>3 DEF InHand, Procs
    <3>2. Ready(from[p]) = Ready(t) => from[p] = t
      BY DEF Ready
    <3>. QED BY <2>3, <3>1, <3>2 DEF Claims
  <2>. QED BY <2>1, <2>2, <2>3
<1>2. ~Claims(p, t)'
  <2>1. CASE goal[p] = "recover"
    BY <2>1 DEF TypeOK, CommitDigest, Goes, Claims, NoMemory, Absent, Ready
  <2>2. CASE goal[p] \in {"store", "sign in"}
    <3>1. p \in Holders => mem[p] = NoMemory
      BY <2>2 DEF InHand
    <3>2. pc'[p] = "idle" /\ goal'[p] = "none" /\ mem' = mem
      BY <2>2 DEF TypeOK, CommitDigest, Goes, Ends
    <3>3. p \in Holders => mem'[p].record.kind = "absent"
      BY <3>1, <3>2, Fields
    <3>. QED BY <3>2, <3>3, Fields DEF Claims
  <2>. QED BY <2>1, <2>2
<1>. QED BY <1>1, <1>2

\* Each token keeps one baton: among the committed record, the processes and the wire.
LEMMA BatonStep ==
  ASSUME TokenInv, [Next]_vars, NEW t \in Tokens
  PROVE  OneBaton(t)'
<1>. USE DEF TokenInv
<1>1. CASE UNCHANGED vars \/ ReplaceLock
  <2>1. \A p \in Procs : Claims(p, t)' = Claims(p, t) /\ Carries(p, t)' = Carries(p, t)
    BY <1>1 DEF ReplaceLock, vars, hand, Claims, Carries
  <2>. QED BY <1>1, <2>1 DEF ReplaceLock, vars, base, issuer, OneBaton
<1>2. CASE PowerCut
  <2>1. \A p \in Procs : ~Claims(p, t)' /\ ~Carries(p, t)'
    BY <1>2 DEF PowerCut, Claims, Carries, NoMemory, Absent, Ready
  <2>. QED BY <1>2, <2>1 DEF PowerCut, issuer, OneBaton
<1>3. ASSUME NEW p \in Procs, Quiet(p) PROVE OneBaton(t)'
  <2>1. \A q \in Procs : (Claims(q, t)' => Claims(q, t)) /\ (Carries(q, t)' => Carries(q, t))
    BY <1>3, QuietClaims
  <2>2. digest' = digest /\ wire' = wire /\ issued' = issued
    BY <1>3, QuietStep DEF issuer
  <2>. QED BY <2>1, <2>2 DEF OneBaton
<1>4. ASSUME NEW p \in Procs, Grant(p) PROVE OneBaton(t)'
  <2>1. PICK f \in Tokens \ issued : issued' = issued \cup {f} /\ from' = [from EXCEPT ![p] = f]
    BY <1>4 DEF Grant
  <2>2. \A q \in Procs : Carries(q, t)' => Carries(q, t)
    BY <1>4 DEF TypeOK, Grant, Goes, Carries
  <2>3. \A q \in Procs : Claims(q, t)' => Claims(q, t) \/ (q = p /\ t = f)
    BY <1>4, <2>1 DEF TypeOK, Grant, Goes, Claims
  <2>4. digest' = digest /\ wire' = wire
    BY <1>4 DEF Grant, base
  <2>5. CASE t = f
    BY <2>1, <2>2, <2>3, <2>4, <2>5 DEF OneBaton, TypeOK
  <2>6. CASE t # f
    BY <2>1, <2>2, <2>3, <2>4, <2>6 DEF OneBaton
  <2>. QED BY <2>5, <2>6
<1>5. ASSUME NEW p \in Procs, CommitDigest(p) PROVE OneBaton(t)'
  <2>1. seen[p] = digest /\ InHand(p) /\ Stores(p)
    BY <1>5 DEF CommitDigest, FenceHolds, UnderFence, Stores, Writing
  <2>2. wire' = wire /\ issued' = issued /\ digest' = rec[p]
    BY <1>5 DEF CommitDigest, issuer
  <2>3. CASE goal[p] = "pending"
    <3>1. digest = Ready(from[p]) /\ digest' # Ready(t)
      <4>1. p \in Holders
        BY <2>1, <2>3 DEF InHand, Procs
      <4>2. rec[p] = Pending(from[p]) /\ seen[p] = Ready(from[p])
        BY <2>1, <2>3, <4>1 DEF InHand
      <4>. QED BY <2>1, <2>2, <4>2 DEF Pending, Ready
    <3>2. \A q \in Procs : Claims(q, t)' => Claims(q, t) \/ (q = p /\ digest = Ready(t))
      BY <1>5, <2>3, <3>1 DEF TypeOK, CommitDigest, Goes, Claims
    <3>3. \A q \in Procs : Carries(q, t)' => Carries(q, t)
      BY <1>5, <2>3 DEF TypeOK, CommitDigest, Goes, Carries
    <3>. QED BY <2>2, <3>1, <3>2, <3>3 DEF OneBaton
  <2>4. CASE goal[p] \in {"recover", "store", "sign in"}
    <3>1. (rec[p] = Ready(t) => Claims(p, t)) /\ ~Claims(p, t)'
      BY <1>5, <2>1, <2>4, CommitClaims
    <3>3. \A q \in Procs : Carries(q, t)' => Carries(q, t)
      BY <1>5, <2>4 DEF TypeOK, CommitDigest, Goes, Ends, Carries
    <3>4. \A q \in Procs : q # p => (Claims(q, t)' => Claims(q, t))
      BY <1>5, <2>4 DEF TypeOK, CommitDigest, Goes, Ends, Claims
    <3>. QED BY <2>2, <3>1, <3>3, <3>4 DEF OneBaton
  <2>. QED BY <1>5, <2>3, <2>4 DEF CommitDigest
<1>6. ASSUME NEW p \in Procs, NotSent(p) PROVE OneBaton(t)'
  <2>1. \A q \in Procs : (Claims(q, t)' => Claims(q, t)) /\ (Carries(q, t)' => Carries(q, t))
    BY <1>6 DEF TypeOK, NotSent, Writes, Goes, Claims, Carries, Ready
  <2>. QED BY <1>6, <2>1 DEF NotSent, base, issuer, OneBaton
<1>7. ASSUME NEW p \in Procs, Send(p) PROVE OneBaton(t)'
  <2>1. from[p] \in Tokens /\ p \in Holders /\ mem[p] = NoMemory /\ goal[p] = "pending" /\ Claims(p, from[p])
    BY <1>7 DEF TypeOK, Send, InHand, Asks, Procs, Claims
  <2>2. \A q \in Procs : Claims(q, t)' => Claims(q, t)
    BY <1>7 DEF TypeOK, Send, Goes, Claims
  <2>3. \A q \in Procs : Carries(q, t)' => Carries(q, t) \/ (q = p /\ from[p] = t)
    BY <1>7 DEF TypeOK, Send, Goes, Carries
  <2>4. ~Claims(p, t)'
    BY <1>7, <2>1 DEF TypeOK, Send, Goes, Claims, NoMemory, Absent, Ready
  <2>5. digest' = digest /\ issued' = issued
    BY <1>7 DEF Send, base
  <2>6. CASE from[p] = t
    <3>1. wire[t] # 1 /\ digest # Ready(t) /\ t \in issued
      BY <2>1, <2>6 DEF OneBaton
    <3>4. wire[t] \in Nat /\ wire'[t] = wire[t] + 1
      BY <1>7, <2>6 DEF TypeOK, Send
    <3>5. wire'[t] = 1
      BY <3>1, <3>4 DEF OneBaton
    <3>2. \A q \in Procs : ~Claims(q, t)'
      BY <2>1, <2>2, <2>4, <2>6 DEF OneBaton
    <3>. QED BY <2>3, <2>5, <2>6, <3>1, <3>2, <3>5 DEF OneBaton
  <2>7. CASE from[p] # t
    BY <1>7, <2>2, <2>3, <2>5, <2>7 DEF TypeOK, Send, OneBaton
  <2>. QED BY <2>6, <2>7
<1>8. ASSUME NEW p \in Procs, Answered(p) PROVE OneBaton(t)'
  <2>1. from[p] \in Tokens /\ Carries(p, from[p]) /\ goal[p] = "pending" /\ digest' = digest
    BY <1>8 DEF TypeOK, Answered, InHand, Asks, Procs, Carries, base
  <2>2. (\A q \in Procs : Carries(q, t)' => Carries(q, t) /\ q # p)
    BY <1>8 DEF TypeOK, Answered, Writes, Goes, Carries
  <2>3. \A q \in Procs : Claims(q, t)' => Claims(q, t) \/ (q = p /\ rec'[p] = Ready(t))
    BY <1>8 DEF TypeOK, Answered, Writes, Goes, Claims
  <2>4. CASE Writes(p, "store", Spent) /\ UNCHANGED issuer
    <3>1. rec'[p] # Ready(t)
      BY <2>4 DEF TypeOK, Writes, Spent, Ready
    <3>. QED BY <2>1, <2>2, <2>3, <2>4, <3>1 DEF OneBaton, issuer
  <2>5. ASSUME NEW f \in Tokens \ issued, issued' = issued \cup {f},
               Writes(p, "store", Ready(f)), UNCHANGED wire
        PROVE  OneBaton(t)'
    <3>1. rec'[p] = Ready(t) => t = f
      BY <2>5 DEF TypeOK, Writes, Ready
    <3>. QED BY <2>1, <2>2, <2>3, <2>5, <3>1 DEF OneBaton, TypeOK
  <2>6. CASE /\ wire' = [wire EXCEPT ![from[p]] = @ - 1]
             /\ Writes(p, "store", Ready(from[p]))
             /\ UNCHANGED issued
    <3>1. rec'[p] = Ready(t) => t = from[p]
      BY <2>6 DEF TypeOK, Writes, Ready
    <3>2. CASE t = from[p]
      <4>1. wire[t] = 1 /\ wire'[t] = 0 /\ t \in issued /\ digest # Ready(t)
        <5>1. wire[t] = 1
          BY <2>1, <3>2 DEF OneBaton
        <5>2. t \in issued /\ digest # Ready(t)
          BY <5>1 DEF OneBaton
        <5>. QED BY <2>6, <3>2, <5>1, <5>2 DEF TypeOK
      <4>2. \A q \in Procs : ~Claims(q, t) /\ (q # p => ~Carries(q, t))
        BY <2>1, <3>2, <4>1 DEF OneBaton
      <4>. QED BY <2>1, <2>2, <2>3, <2>6, <4>1, <4>2 DEF OneBaton
    <3>3. CASE t # from[p]
      BY <2>1, <2>2, <2>3, <2>6, <3>1, <3>3 DEF OneBaton, TypeOK
    <3>. QED BY <3>2, <3>3
  <2>. QED BY <1>8, <2>4, <2>5, <2>6 DEF Answered
<1>. QED
  BY <1>1, <1>2, <1>3, <1>4, <1>5, <1>6, <1>7, <1>8 DEF Next, Acts, Quiet

\* A step that only takes claims away leaves what the others answer.
LEMMA QuietBase ==
  ASSUME TypeOK, NEW p \in Procs, Quiet(p), InHand(p),
         NEW q \in Holders, NEW t \in Tokens, Claims(q, t)'
  PROVE  Answers(q)' = Answers(q)
<1>. USE DEF Answers
<1>1. CASE q # p
  <2>1. mem'[q] = mem[q] /\ from'[q] = from[q]
    BY <1>1 DEF Procs, TypeOK, Quiet, Lock, Recover, Visible, ReadFile, Judge, GiveUp,
       WriteNext, Rename, SyncDir,
       WriteFails, Revert, Fence, CommitFails, Withdraw, Remove, Crash, Ends, Failed, Forgets, lock
  <2>. QED BY <2>1
<1>2. CASE q = p /\ UNCHANGED <<mem, from>>
  BY <1>2
<1>3. CASE q = p /\ Judge(p)
  <2>1. mem' = mem /\ pc'[q] = "write" /\ goal'[q] = "pending"
    BY <1>3 DEF TypeOK, Judge, Writes, Goes, Procs
  <2>2. mem[q] = NoMemory
    BY <1>3 DEF InHand, Judge
  <2>. QED BY <2>1, <2>2 DEF Claims, NoMemory, Absent, Ready
<1>4. CASE q = p /\ Recover(p)
  <2>1. CASE mem'[q] = mem[q]
    BY <1>4, <2>1 DEF TypeOK, Recover, Procs
  <2>2. CASE mem'[q] = NoMemory
    <3>1. pc'[q] \in {"read", "visible"} /\ goal'[q] = "none"
      BY <1>4 DEF TypeOK, Recover, Goes, InHand, Asks, Stores, Writing, Procs
    <3>. QED BY <2>2, <3>1 DEF Claims, NoMemory, Absent, Ready, Procs
  <2>. QED BY <1>4, <2>1, <2>2 DEF TypeOK, Recover
<1>5. CASE q = p /\ Ends(p) /\ mem'[q] \in {mem[q], NoMemory}
  <2>1. pc'[q] = "idle" /\ goal'[q] = "none"
    BY <1>5 DEF TypeOK, Ends, Goes, Procs
  <2>. QED BY <1>5, <2>1 DEF Claims, NoMemory, Absent, Ready
<1>6. CASE q = p /\ Ends(p) /\ goal[p] = "store" /\ mem' = [mem EXCEPT ![p] = [record |-> rec[p], from |-> from[p]]]
  <2>1. mem[q] = NoMemory /\ mem'[q].from = from[q]
    BY <1>6 DEF TypeOK, InHand
  <2>2. pc'[q] = "idle" /\ goal'[q] = "none"
    BY <1>6 DEF TypeOK, Ends, Goes, Procs
  <2>. QED BY <2>1, <2>2 DEF Claims, NoMemory, Absent, Ready
<1>7. CASE q = p /\ Failed(p)
  BY <1>2, <1>5, <1>6, <1>7 DEF Failed
<1>8. CASE q = p /\ (GiveUp(p) \/ Remove(p) \/ Crash(p))
  BY <1>5, <1>8 DEF TypeOK, GiveUp, Remove, Crash, Forgets
<1>. QED
  BY <1>1, <1>2, <1>3, <1>4, <1>7, <1>8
     DEF Quiet, Lock, Visible, ReadFile, WriteNext, Rename, SyncDir, WriteFails, Revert, Fence, CommitFails, Withdraw

\* A replaced pair is never the committed record again: what a claim may still commit is
\* new, or is the token of the pending record it answers.
LEMMA PairStep ==
  ASSUME TokenInv, [Next]_vars
  PROVE  NoPairComesBack' /\ NewPairs'
<1>. USE DEF TokenInv, NoPairComesBack, NewPairs
<1>1. CASE UNCHANGED vars \/ ReplaceLock
  BY <1>1 DEF ReplaceLock, vars, base, hand, issuer, Claims, Answers, NewToken
<1>2. CASE PowerCut
  BY <1>2 DEF PowerCut, issuer, Claims, NewToken, NoMemory, Absent, Ready
<1>3. ASSUME NEW p \in Procs, Quiet(p) PROVE NoPairComesBack' /\ NewPairs'
  <2>1. UNCHANGED <<digest, gone, issued>>
    BY <1>3, QuietStep DEF issuer
  <2>2. ASSUME NEW q \in Procs, NEW t \in Tokens, Claims(q, t)' PROVE Claims(q, t)
    BY <1>3, <2>2, QuietClaims
  <2>3. ASSUME NEW q \in Holders, NEW t \in Tokens, Claims(q, t)' PROVE Answers(q)' = Answers(q)
    BY <1>3, <2>3, QuietBase DEF Procs, Answers
  <2>. QED BY <2>1, <2>2, <2>3 DEF NewToken
<1>4. ASSUME NEW p \in Procs, Grant(p) PROVE NoPairComesBack' /\ NewPairs'
  <2>1. PICK f \in Tokens \ issued : issued' = issued \cup {f} /\ from' = [from EXCEPT ![p] = f]
    BY <1>4 DEF Grant
  <2>2. UNCHANGED <<digest, gone, mem>> /\ p \in SignIns /\ NewToken(f)
    BY <1>4, <2>1 DEF Grant, base
  <2>3. ASSUME NEW q \in Procs, NEW t \in Tokens, Claims(q, t)' PROVE Claims(q, t) \/ t = f
    BY <1>4, <2>1, <2>3 DEF TypeOK, Grant, Goes, Claims
  <2>4. ASSUME NEW q \in Holders PROVE Answers(q)' = Answers(q)
    BY <2>1, <2>2, <2>4 DEF Answers, TypeOK, Procs
  <2>. QED BY <2>1, <2>2, <2>3, <2>4 DEF NewToken
<1>5. ASSUME NEW p \in Procs, CommitDigest(p) PROVE NoPairComesBack' /\ NewPairs'
  <2>1. seen[p] = digest /\ InHand(p) /\ Stores(p)
    BY <1>5 DEF CommitDigest, FenceHolds, UnderFence, Stores, Writing
  <2>2. /\ digest' = rec[p] /\ issued' = issued
        /\ gone' = gone \cup ({digest.token} \ {rec[p].token, NoToken})
    BY <1>5 DEF CommitDigest, issuer
  <2>3. ASSUME NEW q \in Procs, NEW t \in Tokens, q # p, Claims(q, t)' PROVE Claims(q, t)
    BY <1>5, <2>3 DEF TypeOK, CommitDigest, Goes, Ends, Claims
  <2>4. ASSUME NEW q \in Holders, q # p PROVE Answers(q)' = Answers(q)
    BY <1>5, <2>4 DEF TypeOK, CommitDigest, Ends, Answers, Procs
  <2>5. CASE goal[p] = "pending"
    <3>1. p \in Holders /\ mem[p] = NoMemory
      BY <2>1, <2>5 DEF InHand, Procs
    <3>2. rec[p].token = from[p] /\ digest.token = from[p]
      <4>1. rec[p] = Pending(from[p]) /\ digest = Ready(from[p])
        BY <2>1, <2>5, <3>1 DEF InHand
      <4>. QED BY <4>1 DEF Pending, Ready
    <3>3. gone' = gone /\ digest'.token = digest.token
      BY <2>2, <3>2
    <3>4. mem' = mem /\ from' = from
      BY <1>5, <2>5 DEF CommitDigest
    <3>5. ASSUME NEW t \in Tokens, Claims(p, t)' PROVE t = from[p]
      <4>1. pc'[p] = "request" /\ goal'[p] = "pending" /\ mem'[p].record.kind = "absent" /\ from'[p] = from[p]
        BY <1>5, <2>5, <3>1 DEF TypeOK, CommitDigest, Goes, NoMemory, Absent
      <4>. QED BY <3>5, <4>1, Fields DEF Claims
    <3>. QED BY <2>2, <2>3, <2>4, <3>1, <3>3, <3>4, <3>5 DEF NewToken, Answers
  <2>6. CASE goal[p] \in {"recover", "store", "sign in"}
    <3>1. ASSUME NEW t \in Tokens PROVE (rec[p] = Ready(t) => Claims(p, t)) /\ ~Claims(p, t)'
      BY <1>5, <2>1, <2>6, CommitClaims
    <3>2. rec[p] \in Records /\ digest \in Records
      BY DEF TypeOK
    <3>3. rec[p].kind \in {"ready", "spent"}
      <4>1. CASE p \in SignIns
        <5>1. rec[p] = Ready(from[p])
          BY <2>1, <4>1 DEF InHand
        <5>. QED BY <5>1, Fields
      <4>2. CASE p \in Holders /\ goal[p] = "store"
        BY <2>1, <4>2 DEF InHand
      <4>3. CASE p \in Holders /\ goal[p] = "recover"
        BY <2>1, <4>3 DEF InHand, InMemory
      <4>4. CASE p \in Holders /\ goal[p] = "sign in"
        BY <2>1, <4>4 DEF InHand
      <4>. QED BY <2>6, <4>1, <4>2, <4>3, <4>4 DEF Procs
    <3>4. CASE rec[p].kind = "spent"
      <4>1. rec[p].token = NoToken
        BY <3>2, <3>4, RecordParts
      <4>. QED BY <2>2, <2>3, <2>4, <3>1, <4>1 DEF NewToken, TypeOK
    <3>5. CASE rec[p].kind = "ready"
      <4>1. rec[p].token \in Tokens /\ Claims(p, rec[p].token)
        BY <3>1, <3>2, <3>5, RecordParts
      <4>2. rec[p].token \in issued
        BY <4>1 DEF OneBaton
      <4>3. NewToken(rec[p].token) \/ rec[p].token = digest.token
        <5>1. CASE p \in Holders
          <6>1. digest = Pending(Answers(p))
            BY <2>1, <2>6, <5>1 DEF InHand, Answers
          <6>. QED BY <4>1, <6>1 DEF Pending
        <5>2. CASE p \notin Holders
          BY <4>1, <5>2
        <5>. QED BY <5>1, <5>2
      <4>4. ASSUME NEW q \in Procs, NEW t \in Tokens, q # p, Claims(q, t)' PROVE t # rec[p].token
        BY <2>3, <4>1, <4>4 DEF OneBaton
      <4>5. digest'.token \notin gone'
        BY <2>2, <4>3 DEF NewToken
      <4>6. ASSUME NEW t \in Tokens, NewToken(t), t # rec[p].token PROVE NewToken(t)'
        BY <2>2, <4>6 DEF NewToken
      <4>. QED BY <2>2, <2>3, <2>4, <3>1, <4>2, <4>4, <4>5, <4>6
    <3>. QED BY <3>3, <3>4, <3>5
  <2>. QED BY <1>5, <2>5, <2>6 DEF CommitDigest
<1>6. ASSUME NEW p \in Procs, NotSent(p) \/ Send(p) PROVE NoPairComesBack' /\ NewPairs'
  <2>1. UNCHANGED <<digest, gone, issued, mem, from>>
    BY <1>6 DEF NotSent, Send, base, issuer
  <2>2. ASSUME NEW q \in Procs, NEW t \in Tokens, Claims(q, t)' PROVE Claims(q, t)
    <3>1. CASE NotSent(p)
      BY <2>2, <3>1 DEF TypeOK, NotSent, Writes, Goes, Claims, Ready
    <3>2. CASE Send(p)
      BY <2>2, <3>2 DEF TypeOK, Send, Goes, Claims
    <3>. QED BY <1>6, <3>1, <3>2
  <2>. QED BY <2>1, <2>2 DEF NewToken, Answers
<1>7. ASSUME NEW p \in Procs, Answered(p) PROVE NoPairComesBack' /\ NewPairs'
  <2>1. UNCHANGED <<digest, gone, mem, from>> /\ p \in Holders /\ mem[p] = NoMemory
    BY <1>7 DEF Answered, base, InHand, Asks, Procs
  <2>2. ASSUME NEW q \in Procs, NEW t \in Tokens, Claims(q, t)'
        PROVE Claims(q, t) \/ (q = p /\ rec'[p] = Ready(t))
    BY <1>7, <2>2 DEF TypeOK, Answered, Writes, Goes, Claims
  <2>3. issued \subseteq issued'
    BY <1>7 DEF Answered, issuer
  <2>4. ASSUME NEW t \in Tokens, rec'[p] = Ready(t) PROVE t \notin issued \/ t = from[p]
    BY <1>7, <2>4 DEF TypeOK, Answered, Writes, Ready, Spent
  <2>. QED BY <2>1, <2>2, <2>3, <2>4 DEF NewToken, Answers
<1>. QED
  BY <1>1, <1>2, <1>3, <1>4, <1>5, <1>6, <1>7 DEF Next, Acts, Quiet

\* At first nothing is issued, claimed or sent.
LEMMA TokenInit == Init => TokenInv
<1>. SUFFICES ASSUME Init PROVE TokenInv
  OBVIOUS
<1>1. TypeOK
  BY TypeInit
<1>2. \A p \in Procs : InHand(p)
  BY DEF Init, InHand, Stores, Asks, Writing, Procs
<1>3. \A p \in Procs, t \in Tokens : ~Claims(p, t) /\ ~Carries(p, t)
  BY Fields DEF Init, Claims, Carries
<1>4. \A t \in Tokens : OneBaton(t)
  BY <1>3, Fields DEF Init, OneBaton
<1>5. FenceHolds /\ UnderFence
  BY DEF Init, FenceHolds, UnderFence
<1>6. NoPairComesBack /\ NewPairs
  BY <1>3 DEF Init, NoPairComesBack, NewPairs, NewToken, Absent
<1>. QED BY <1>1, <1>2, <1>4, <1>5, <1>6 DEF TokenInv, InMemory, Init

\* Every step keeps the inductive invariant: for any number of holders, sign-ins, tokens
\* and replaced lock files, each token has one baton and each replaced pair stays gone.
THEOREM TokenIsKept == Spec => []TokenInv
<1>1. TokenInv /\ [Next]_vars => TokenInv'
  <2>. SUFFICES ASSUME TokenInv, [Next]_vars PROVE TokenInv'
    OBVIOUS
  <2>1. TypeOK'
    BY TypeStep DEF TokenInv
  <2>2. \A p \in Procs : InHand(p)'
    BY HandStep DEF TokenInv, NewPairs
  <2>3. \A p \in Holders : InMemory(p)'
    BY MemoryStep DEF TokenInv
  <2>4. \A t \in Tokens : OneBaton(t)'
    BY BatonStep
  <2>5. FenceHolds' /\ UnderFence'
    BY FenceStep DEF TokenInv
  <2>6. NoPairComesBack' /\ NewPairs'
    BY PairStep
  <2>. QED BY <2>1, <2>2, <2>3, <2>4, <2>5, <2>6 DEF TokenInv
<1>. QED BY TokenInit, <1>1, PTL DEF Spec

\* A refresh token is carried by one request, however the lock file is replaced, calls
\* fail and processes die: the fence alone keeps what the lock's comment promises.
THEOREM TokenIsSentOnce == Spec => []SentOnce
<1>1. TokenInv => SentOnce
  BY DEF TokenInv, OneBaton, SentOnce
<1>. QED BY <1>1, TokenIsKept, PTL

\* Under one lock file, one process at a time is inside its hold, and what it is about to
\* commit is what the directory durably shows.
AtLock(p) == pc[p] \notin {"idle", "granted"}
OneHolder ==
  /\ inode \in Nat \ {0}
  /\ \A p \in Procs : hold[p] \in 0..inode /\ (AtLock(p) => hold[p] # 0)
  /\ \A p, q \in Procs : hold[p] = hold[q] /\ hold[p] # 0 => p = q
Durable ==
  inode = 1 => \A p \in Procs :
    /\ pc[p] = "sync" => file = rec[p]
    /\ pc[p] \in {"fence", "commit"} => onDisk = {rec[p]}

\* The lock of an inode is one process's through every step.
LEMMA EndsOneHolder ==
  ASSUME TypeOK, OneHolder, NEW p \in Procs, Ends(p)
  PROVE  OneHolder'
  BY DEF TypeOK, OneHolder, AtLock, Ends, Goes

LEMMA FailedOneHolder ==
  ASSUME TypeOK, OneHolder, NEW p \in Procs, AtLock(p), Failed(p)
  PROVE  OneHolder'
<1>1. CASE Ends(p)
  BY <1>1, EndsOneHolder
<1>2. CASE Goes(p, "withdraw") /\ UNCHANGED lock
  BY <1>2 DEF TypeOK, OneHolder, AtLock, Goes, lock
<1>. QED BY <1>1, <1>2 DEF Failed

LEMMA OneHolderStep ==
  ASSUME TypeOK, [Next]_vars, OneHolder
  PROVE  OneHolder'
<1>. USE DEF OneHolder, AtLock
<1>1. CASE UNCHANGED vars
  BY <1>1 DEF vars, lock, hand
<1>2. CASE ReplaceLock \/ PowerCut
  BY <1>2 DEF ReplaceLock, PowerCut, hand
<1>3. ASSUME NEW p \in Procs, Grant(p) PROVE OneHolder'
  BY <1>3 DEF TypeOK, Grant, Goes, lock
<1>4. ASSUME NEW p \in Procs, Lock(p) PROVE OneHolder'
  BY <1>4 DEF TypeOK, Lock, Goes
<1>5. ASSUME NEW p \in Procs, Recover(p) PROVE OneHolder'
  BY <1>5 DEF TypeOK, Recover, Goes, lock
<1>6. ASSUME NEW p \in Procs, Visible(p) PROVE OneHolder'
  BY <1>6 DEF TypeOK, Visible, Goes, Writes, lock
<1>7. ASSUME NEW p \in Procs, ReadFile(p) PROVE OneHolder'
  BY <1>7 DEF TypeOK, ReadFile, Goes, lock
<1>8. ASSUME NEW p \in Procs, Judge(p) PROVE OneHolder'
  BY <1>8 DEF TypeOK, Judge, Goes, Writes, lock
<1>9. ASSUME NEW p \in Procs, GiveUp(p) PROVE OneHolder'
  BY <1>9 DEF TypeOK, GiveUp, Goes, Ends
<1>10. ASSUME NEW p \in Procs, WriteNext(p) PROVE OneHolder'
  BY <1>10 DEF TypeOK, WriteNext, Goes, lock
<1>11. ASSUME NEW p \in Procs, Rename(p) PROVE OneHolder'
  BY <1>11 DEF TypeOK, Rename, Goes, lock
<1>12. ASSUME NEW p \in Procs, SyncDir(p) PROVE OneHolder'
  BY <1>12 DEF TypeOK, SyncDir, Goes, lock
<1>13. ASSUME NEW p \in Procs, WriteFails(p) PROVE OneHolder'
  BY <1>13, FailedOneHolder DEF WriteFails
<1>14. ASSUME NEW p \in Procs, Revert(p) PROVE OneHolder'
  BY <1>14, FailedOneHolder DEF Revert
<1>15. ASSUME NEW p \in Procs, Fence(p) PROVE OneHolder'
  BY <1>15 DEF TypeOK, Fence, Goes, lock
<1>16. ASSUME NEW p \in Procs, CommitDigest(p) PROVE OneHolder'
  <2>1. CASE Ends(p)
    BY <2>1, EndsOneHolder
  <2>2. CASE UNCHANGED lock /\ \E l \in {"request", "read"} : Goes(p, l)
    BY <1>16, <2>2 DEF TypeOK, CommitDigest, Goes, lock
  <2>. QED BY <1>16, <2>1, <2>2 DEF CommitDigest
<1>17. ASSUME NEW p \in Procs, CommitFails(p) PROVE OneHolder'
  BY <1>17, FailedOneHolder DEF CommitFails
<1>18. ASSUME NEW p \in Procs, NotSent(p) PROVE OneHolder'
  BY <1>18 DEF TypeOK, NotSent, Goes, Writes, lock
<1>19. ASSUME NEW p \in Procs, Send(p) PROVE OneHolder'
  BY <1>19 DEF TypeOK, Send, Goes, lock
<1>20. ASSUME NEW p \in Procs, Answered(p) PROVE OneHolder'
  BY <1>20 DEF TypeOK, Answered, Goes, Writes, lock
<1>21. ASSUME NEW p \in Procs, Withdraw(p) PROVE OneHolder'
  BY <1>21 DEF TypeOK, Withdraw, Goes, lock
<1>22. ASSUME NEW p \in Procs, Remove(p) PROVE OneHolder'
  BY <1>22 DEF TypeOK, Remove, Goes, Ends
<1>23. ASSUME NEW p \in Procs, Crash(p) PROVE OneHolder'
  BY <1>23 DEF TypeOK, Crash, Goes, Ends
<1>. QED
  BY <1>1, <1>2, <1>3, <1>4, <1>5, <1>6, <1>7, <1>8, <1>9, <1>10, <1>11, <1>12, <1>13, <1>14,
     <1>15, <1>16, <1>17, <1>18, <1>19, <1>20, <1>21, <1>22, <1>23 DEF Next, Acts

\* What its only holder is about to commit stays what the directory durably shows.
LEMMA DurableStep ==
  ASSUME TypeOK, [Next]_vars, OneHolder, Durable
  PROVE  Durable'
<1>. USE DEF Durable
<1>1. CASE UNCHANGED vars
  BY <1>1 DEF vars, lock, hand, disk
<1>2. CASE ReplaceLock \/ PowerCut
  BY <1>2 DEF ReplaceLock, PowerCut, OneHolder, hand, disk
<1>. DEFINE Alone(p) == inode = 1 => \A q \in Procs : q # p => ~AtLock(q)
<1>3. ASSUME NEW p \in Procs, AtLock(p) PROVE Alone(p)
  BY <1>3 DEF OneHolder
<1>4. ASSUME NEW p \in Procs, Grant(p) PROVE Durable'
  BY <1>3, <1>4 DEF TypeOK, AtLock, Grant, Goes, lock, disk
<1>5. ASSUME NEW p \in Procs, Lock(p) PROVE Durable'
  BY <1>3, <1>5 DEF TypeOK, AtLock, Lock, Goes, disk
<1>6. ASSUME NEW p \in Procs, Recover(p) PROVE Durable'
  BY <1>3, <1>6 DEF TypeOK, AtLock, Recover, Goes, lock, disk
<1>7. ASSUME NEW p \in Procs, Visible(p) PROVE Durable'
  BY <1>3, <1>7 DEF TypeOK, AtLock, Visible, Goes, Writes, lock, disk
<1>8. ASSUME NEW p \in Procs, ReadFile(p) PROVE Durable'
  BY <1>3, <1>8 DEF TypeOK, AtLock, ReadFile, Goes, lock, disk
<1>9. ASSUME NEW p \in Procs, Judge(p) PROVE Durable'
  BY <1>3, <1>9 DEF TypeOK, AtLock, Judge, Goes, Writes, lock, disk
<1>10. ASSUME NEW p \in Procs, GiveUp(p) PROVE Durable'
  BY <1>3, <1>10 DEF TypeOK, AtLock, GiveUp, Goes, Ends, disk
<1>11. ASSUME NEW p \in Procs, WriteNext(p) PROVE Durable'
  BY <1>3, <1>11 DEF TypeOK, AtLock, WriteNext, Goes, lock, disk
<1>12. ASSUME NEW p \in Procs, Rename(p) PROVE Durable'
  BY <1>3, <1>12 DEF TypeOK, AtLock, Rename, Goes, Shows, lock
<1>13. ASSUME NEW p \in Procs, SyncDir(p) PROVE Durable'
  BY <1>3, <1>13 DEF TypeOK, AtLock, SyncDir, Goes, lock
<1>14. ASSUME NEW p \in Procs, WriteFails(p) PROVE Durable'
  BY <1>3, <1>14 DEF TypeOK, AtLock, WriteFails, Goes, Ends, Failed, lock, disk
<1>15. ASSUME NEW p \in Procs, Revert(p) PROVE Durable'
  BY <1>3, <1>15, ZenonT(40) DEF TypeOK, AtLock, Revert, Goes, Ends, Failed, Shows, lock, disk
<1>16. ASSUME NEW p \in Procs, Fence(p) PROVE Durable'
  BY <1>3, <1>16 DEF TypeOK, AtLock, Fence, Goes, lock, disk
<1>17. ASSUME NEW p \in Procs, CommitDigest(p) PROVE Durable'
  BY <1>3, <1>17, ZenonT(40) DEF TypeOK, AtLock, CommitDigest, Goes, Ends, lock, disk
<1>18. ASSUME NEW p \in Procs, CommitFails(p) PROVE Durable'
  BY <1>3, <1>18 DEF TypeOK, AtLock, CommitFails, Goes, Ends, Failed, lock, disk
<1>19. ASSUME NEW p \in Procs, NotSent(p) PROVE Durable'
  BY <1>3, <1>19 DEF TypeOK, AtLock, NotSent, Goes, Writes, lock, disk
<1>20. ASSUME NEW p \in Procs, Send(p) PROVE Durable'
  BY <1>3, <1>20 DEF TypeOK, AtLock, Send, Goes, lock, disk
<1>21. ASSUME NEW p \in Procs, Answered(p) PROVE Durable'
  BY <1>3, <1>21 DEF TypeOK, AtLock, Answered, Goes, Writes, lock, disk
<1>22. ASSUME NEW p \in Procs, Withdraw(p) PROVE Durable'
  BY <1>3, <1>22 DEF TypeOK, AtLock, Withdraw, Goes, lock, disk
<1>23. ASSUME NEW p \in Procs, Remove(p) PROVE Durable'
  BY <1>3, <1>23 DEF TypeOK, AtLock, Remove, Goes, Ends, Shows
<1>24. ASSUME NEW p \in Procs, Crash(p) PROVE Durable'
  BY <1>3, <1>24 DEF TypeOK, AtLock, Crash, Goes, Ends, disk
<1>. QED
  BY <1>1, <1>2, <1>4, <1>5, <1>6, <1>7, <1>8, <1>9, <1>10, <1>11, <1>12, <1>13, <1>14, <1>15,
     <1>16, <1>17, <1>18, <1>19, <1>20, <1>21, <1>22, <1>23, <1>24 DEF Next, Acts

\* While nobody has replaced the lock file, a committed digest names bytes that survive a
\* power cut: the file is durable before its digest is.
THEOREM TokenIsDurable == Spec => CommittedIsDurable
<1>1. Init => OneHolder /\ Durable
  BY DEF Init, OneHolder, Durable, AtLock
<1>2. TokenInv /\ OneHolder /\ Durable /\ [Next]_vars => (OneHolder /\ Durable)'
  BY OneHolderStep, DurableStep DEF TokenInv
<1>3. ASSUME TypeOK, Durable, Next, digest' # digest, inode = 1
      PROVE  onDisk' = {digest'}
  <2>1. \A p \in Procs : Quiet(p) => digest' = digest
    BY DEF Quiet, Lock, Recover, Visible, ReadFile, Judge, GiveUp, WriteNext, Rename, SyncDir,
           WriteFails, Revert, Fence, CommitFails, Withdraw, Remove, Crash, base
  <2>2. \A p \in Procs : Grant(p) \/ NotSent(p) \/ Send(p) \/ Answered(p) => digest' = digest
    BY DEF Grant, NotSent, Send, Answered, base
  <2>3. ReplaceLock \/ PowerCut => digest' = digest
    BY DEF ReplaceLock, PowerCut, base
  <2>4. PICK p \in Procs : CommitDigest(p)
    BY <1>3, <2>1, <2>2, <2>3 DEF Next, Acts, Quiet
  <2>. QED BY <1>3, <2>4 DEF Durable, CommitDigest, disk
<1>4. TokenInv /\ Durable /\ [Next]_vars => [digest' # digest /\ inode = 1 => onDisk' = {digest'}]_vars
  BY <1>3 DEF TokenInv
<1>. QED BY <1>1, <1>2, <1>4, TokenIsKept, PTL DEF Spec, CommittedIsDurable
===========================================================================
