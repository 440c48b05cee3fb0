------------------------ MODULE CommandLocksProofs ------------------------
(***************************************************************************)
(* For any number of transactions over any work: no ring of waiting        *)
(* transactions, no write outside its locks or over a row that changed     *)
(* since it was read, and no claim left on a revoked grant.                *)
(***************************************************************************)
EXTENDS CommandLocks, TLAPS, WellFoundedInduction

\* Every row a command asks for has a class of LOCK_ORDER, after the grant and before
\* the audit chain.
LEMMA SetRowsAreRuntimeRows ==
  ASSUME NEW c \in Commands, NEW w \in Works, NEW f \in [works : SUBSET Works, opened : BOOLEAN]
  PROVE  /\ SetRows(c, w, f) \subseteq Row
         /\ \A r \in SetRows(c, w, f) : 0 < Rank[r[1]] /\ Rank[r[1]] < Rank["audit"]
<1> USE CommandLocksAssumption
<1>1. \A v \in Works : /\ HoldRows(v) \cup ClaimRows(v) \subseteq Row
                       /\ \A r \in HoldRows(v) \cup ClaimRows(v) :
                            0 < Rank[r[1]] /\ Rank[r[1]] < Rank["audit"]
  BY DEF HoldRows, ClaimRows, Row, Rank
<1>2. \A S \in SUBSET Works : /\ AffectedRows(S) \subseteq Row
                              /\ \A r \in AffectedRows(S) :
                                   0 < Rank[r[1]] /\ Rank[r[1]] < Rank["audit"]
  BY <1>1 DEF AffectedRows
<1>3. f.works \in SUBSET Works /\ {w} \in SUBSET Works
  OBVIOUS
<1>4. c \in {"decide", "pickup", "handback", "cancel", "revoke", "sweep", "call"}
  BY DEF Commands
<1>5. CASE c = "decide"
  BY <1>5 DEF SetRows, Row, Rank
<1>6. CASE c = "pickup"
  BY <1>1, <1>2, <1>3, <1>6 DEF SetRows
<1>7. CASE c = "handback"
  BY <1>2, <1>3, <1>7 DEF SetRows
<1>8. CASE c = "cancel"
  <2>1. SetRows(c, w, f) = {<<"run", w>>, <<"lineage", w>>} \cup AffectedRows(f.works)
    BY <1>8 DEF SetRows
  <2>2. /\ {<<"run", w>>, <<"lineage", w>>} \subseteq Row
        /\ \A r \in {<<"run", w>>, <<"lineage", w>>} : 0 < Rank[r[1]] /\ Rank[r[1]] < Rank["audit"]
    BY DEF Row, Rank
  <2> QED BY <1>2, <1>3, <2>1, <2>2
<1>9. CASE c = "call"
  <2>1. SetRows(c, w, f) = {<<"task", TaskOf[w]>>, <<"run", w>>, <<"reservation", w>>,
                            <<"ceiling", 0>>, <<"route", 0>>} \cup ClaimRows(w)
    BY <1>9 DEF SetRows
  <2>2. /\ {<<"task", TaskOf[w]>>, <<"run", w>>, <<"reservation", w>>,
            <<"ceiling", 0>>, <<"route", 0>>} \subseteq Row
        /\ \A r \in {<<"task", TaskOf[w]>>, <<"run", w>>, <<"reservation", w>>,
                     <<"ceiling", 0>>, <<"route", 0>>} : 0 < Rank[r[1]] /\ Rank[r[1]] < Rank["audit"]
    BY DEF Row, Rank
  <2> QED BY <1>1, <2>1, <2>2
<1>10. CASE c \in {"revoke", "sweep"}
  BY <1>2, <1>3, <1>10 DEF SetRows
<1> QED BY <1>4, <1>5, <1>6, <1>7, <1>8, <1>9, <1>10

\* A discovery reads work there is.
LEMMA FoundIsWork ==
  ASSUME TypeOK, NEW c \in Commands, NEW w \in Works
  PROVE  Found(c, w) \in [works : SUBSET Works, opened : BOOLEAN]
<1>1. Found(c, w).works \in SUBSET Works
  BY DEF Found, Claimed, OnTask, TypeOK
<1> QED BY <1>1 DEF Found

LEMMA FoundAgainIsWork ==
  ASSUME TypeOK, NEW c \in Commands, NEW w \in Works, NEW f \in [works : SUBSET Works, opened : BOOLEAN]
  PROVE  FoundAgain(c, w, f) \in [works : SUBSET Works, opened : BOOLEAN]
BY FoundIsWork DEF FoundAgain, Claimed

\* What a command writes, and what it read, are choices of states for work.
LEMMA EffectIsAChoice ==
  ASSUME TypeOK, NEW c \in Commands, NEW w \in Works, NEW f \in [works : SUBSET Works, opened : BOOLEAN]
  PROVE  /\ Effect(c, w, f) \in Choices
         /\ Decided(c, w, f) \in Choices
         /\ \A v \in DOMAIN Effect(c, w, f) :
              Effect(c, w, f)[v] = "claimed" => c = "pickup" /\ grant = "live"
         /\ c = "revoke" => Effect(c, w, f) = Set(f.works, "ended")
<1>1. \A S \in SUBSET Works, st \in States : Set(S, st) \in Choices
  BY DEF Set, Choices
<1>2. NoWork \in Choices
  BY DEF NoWork, Choices, States
<1>3. {w} \in SUBSET Works /\ f.works \in SUBSET Works /\ {w} \cup f.works \in SUBSET Works
  OBVIOUS
<1>4. [v \in {w} \cup f.works |-> IF v = w THEN "claimed" ELSE "ended"] \in Choices
  <2> DEFINE g == [v \in {w} \cup f.works |-> IF v = w THEN "claimed" ELSE "ended"]
  <2>1. g \in [{w} \cup f.works -> States]
    BY DEF States
  <2> QED BY <1>3, <2>1 DEF Choices
<1>5. "reserved" \in States /\ "ended" \in States
  BY DEF States
<1>6. Effect(c, w, f) \in Choices
  BY <1>1, <1>2, <1>3, <1>4, <1>5 DEF Effect
<1>7. Decided(c, w, f) \in Choices
  <2> DEFINE S == IF c \in {"revoke", "sweep"} THEN f.works ELSE {w} \cup f.works
  <2>1. S \in SUBSET Works
    BY <1>3
  <2>2. [v \in S |-> work[v]] \in [S -> States]
    BY <2>1 DEF TypeOK
  <2>3. Decided(c, w, f) = [v \in S |-> work[v]]
    BY DEF Decided
  <2> QED BY <2>1, <2>2, <2>3 DEF Choices
<1>8. ASSUME NEW v \in DOMAIN Effect(c, w, f), Effect(c, w, f)[v] = "claimed"
      PROVE  c = "pickup" /\ grant = "live"
  BY <1>8 DEF Effect, Set, NoWork
<1>9. c = "revoke" => Effect(c, w, f) = Set(f.works, "ended")
  BY DEF Effect
<1> QED BY <1>6, <1>7, <1>8, <1>9

---------------------------------------------------------------------------

LEMMA InitIsOrdered == Init => OrderInv
<1> SUFFICES ASSUME Init PROVE OrderInv
  OBVIOUS
<1> USE CommandLocksAssumption
<1>1. (CHOOSE w \in Works : TRUE) \in Works
  OBVIOUS
<1>2. NoWork \in Choices /\ DOMAIN NoWork = {}
  BY DEF NoWork, Choices, States
<1>3. TypeOK
  BY <1>1, <1>2 DEF Init, TypeOK, Nothing, Commands, States
<1>4. RowsHeldUpwards
  BY DEF Init, RowsHeldUpwards
<1>5. GrantIsHeld
  BY DEF Init, GrantIsHeld
<1>6. RevocationIsComplete
  BY <1>2 DEF Init, RevocationIsComplete
<1>7. NoClaimOutlivesItsGrant
  BY DEF Init, NoClaimOutlivesItsGrant
<1> QED BY <1>3, <1>4, <1>5, <1>6, <1>7 DEF OrderInv

LEMMA BeginKeepsOrder ==
  ASSUME OrderInv, NEW t \in Txs, NEW c \in Menu, NEW w \in Works, Begin(t, c, w)
  PROVE  OrderInv'
<1> USE DEF OrderInv
<1>1. c \in Commands
  BY CommandLocksAssumption
<1>2. EntryRows(c) \subseteq {<<"grant", 0>>} /\ <<"grant", 0>> \in Row
  BY DEF EntryRows, Row, Rank
<1>3. TypeOK'
  BY <1>1, <1>2 DEF Begin, TypeOK, rows
<1>4. RowsHeldUpwards'
  BY <1>2 DEF Begin, RowsHeldUpwards, TypeOK
<1>5. GrantIsHeld'
  BY DEF Begin, GrantIsHeld, TypeOK, RowsHeldUpwards
<1>6. RevocationIsComplete'
  BY DEF Begin, RevocationIsComplete, TypeOK, rows, Claimed, NoWork
<1>7. NoClaimOutlivesItsGrant'
  BY DEF Begin, NoClaimOutlivesItsGrant, rows, Claimed
<1> QED BY <1>3, <1>4, <1>5, <1>6, <1>7

LEMMA TakeKeepsOrder ==
  ASSUME OrderInv, NEW t \in Txs, NEW r \in wanted[t], Take(t, r)
  PROVE  OrderInv'
<1> USE DEF OrderInv
<1>1. TypeOK'
  BY DEF Take, TypeOK, rows, calls
<1>2. RowsHeldUpwards'
  BY DEF Take, RowsHeldUpwards, TypeOK, IsNext
<1>3. GrantIsHeld'
  <2>1. ASSUME NEW u \in Txs \ {t}, r = <<"grant", 0>>, r \in held[u]
        PROVE  cmd[t] # "revoke" /\ cmd[u] # "revoke"
    BY <2>1 DEF Take, Blocks, SharedBy
  <2> QED BY <2>1 DEF Take, GrantIsHeld, TypeOK, calls
<1>4. RevocationIsComplete'
  BY DEF Take, RevocationIsComplete, TypeOK, rows, calls, Claimed
<1>5. NoClaimOutlivesItsGrant'
  BY DEF Take, NoClaimOutlivesItsGrant, rows, Claimed
<1> QED BY <1>1, <1>2, <1>3, <1>4, <1>5

LEMMA DiscoverKeepsOrder ==
  ASSUME OrderInv, NEW t \in Txs, Discover(t)
  PROVE  OrderInv'
<1> USE DEF OrderInv
<1> DEFINE now == Found(cmd[t], on[t])
<1>1. cmd[t] \in Commands /\ on[t] \in Works
  BY DEF TypeOK
<1>2. now \in [works : SUBSET Works, opened : BOOLEAN]
  BY <1>1, FoundIsWork DEF TypeOK
<1>3. /\ SetRows(cmd[t], on[t], now) \subseteq Row
      /\ \A r \in SetRows(cmd[t], on[t], now) : 0 < Rank[r[1]] /\ Rank[r[1]] < Rank["audit"]
  BY <1>1, <1>2, SetRowsAreRuntimeRows
<1>4. /\ found' = [found EXCEPT ![t] = now]
      /\ wanted' = [wanted EXCEPT ![t] = SetRows(cmd[t], on[t], now)]
      /\ phase[t] = "entry" /\ wanted[t] = {}
      /\ phase' = [phase EXCEPT ![t] = "locking"]
      /\ UNCHANGED <<calls, held, reads, writes, rows>>
  BY DEF Discover
<1> HIDE DEF now
<1>5. TypeOK'
  BY <1>2, <1>3, <1>4 DEF TypeOK, rows, calls
<1>6. RowsHeldUpwards'
  <2>1. \A r \in held[t] : r = <<"grant", 0>>
    BY <1>4 DEF RowsHeldUpwards
  <2>2. \A r \in held[t] : Rank[r[1]] = 0
    BY <2>1 DEF Rank
  <2>3. \A r \in held[t], s \in wanted'[t] : Before(r, s)
    BY <1>3, <1>4, <2>2 DEF Before, TypeOK
  <2>4. \A r \in held[t] \cup wanted'[t] : Rank[r[1]] < Rank["audit"]
    BY <1>3, <1>4, <2>2 DEF TypeOK, Rank
  <2> QED BY <1>4, <2>3, <2>4 DEF RowsHeldUpwards, TypeOK, calls
<1>7. GrantIsHeld'
  BY <1>4 DEF GrantIsHeld, TypeOK, calls
<1>8. RevocationIsComplete'
  BY <1>4 DEF RevocationIsComplete, TypeOK, rows, calls, Claimed
<1>9. NoClaimOutlivesItsGrant'
  BY <1>4 DEF NoClaimOutlivesItsGrant, rows, Claimed
<1> QED BY <1>5, <1>6, <1>7, <1>8, <1>9

\* A transaction that ends lets go of everything and has written nothing more.
LEMMA EndingKeepsOrder ==
  ASSUME OrderInv, NEW t \in Txs, Ended(t), UNCHANGED <<calls, rows>>
  PROVE  OrderInv'
<1> USE DEF OrderInv
<1>1. NoWork \in Choices /\ DOMAIN NoWork = {}
  BY DEF NoWork, Choices, States
<1>2. TypeOK'
  BY <1>1 DEF Ended, TypeOK, rows, calls, Nothing
<1>3. RowsHeldUpwards'
  BY DEF Ended, RowsHeldUpwards, TypeOK
<1>4. GrantIsHeld'
  BY DEF Ended, GrantIsHeld, TypeOK, calls
<1>5. RevocationIsComplete'
  BY <1>1 DEF Ended, RevocationIsComplete, TypeOK, rows, calls, Claimed
<1>6. NoClaimOutlivesItsGrant'
  BY DEF NoClaimOutlivesItsGrant, rows, Claimed
<1> QED BY <1>2, <1>3, <1>4, <1>5, <1>6

LEMMA LoseKeepsOrder ==
  ASSUME OrderInv, NEW t \in Txs, Lose(t)
  PROVE  OrderInv'
BY EndingKeepsOrder DEF Lose

LEMMA RecheckKeepsOrder ==
  ASSUME OrderInv, NEW t \in Txs, Recheck(t)
  PROVE  OrderInv'
<1> USE DEF OrderInv
<1> DEFINE now == FoundAgain(cmd[t], on[t], found[t])
           stands == SetStands(cmd[t], found[t], now, held[t], SetRows(cmd[t], on[t], now))
<1>1. cmd[t] \in Commands /\ on[t] \in Works /\ found[t] \in [works : SUBSET Works, opened : BOOLEAN]
  BY DEF TypeOK
<1>2. now \in [works : SUBSET Works, opened : BOOLEAN]
  BY <1>1, FoundAgainIsWork
<1>3. phase[t] = "locking" /\ wanted[t] = {} /\ UNCHANGED rows
  BY DEF Recheck
<1>4. cmd[t] = "revoke" => now.works = Claimed(Works)
  BY DEF FoundAgain, Found
<1>5. \/ /\ phase' = [phase EXCEPT ![t] = "deciding"]
         /\ found' = [found EXCEPT ![t] = now]
         /\ UNCHANGED <<calls, held, wanted, reads, writes>>
      \/ /\ phase' = [phase EXCEPT ![t] = "entry"]
         /\ retried' = [retried EXCEPT ![t] = TRUE]
         /\ held' = [held EXCEPT ![t] = {}]
         /\ wanted' = [wanted EXCEPT ![t] = EntryRows(cmd[t])]
         /\ found' = [found EXCEPT ![t] = Nothing]
         /\ UNCHANGED <<cmd, on, reads, writes>>
      \/ Ended(t) /\ UNCHANGED calls
  BY DEF Recheck
<1> HIDE DEF now, stands
<1>6. CASE /\ phase' = [phase EXCEPT ![t] = "deciding"]
           /\ found' = [found EXCEPT ![t] = now]
           /\ UNCHANGED <<calls, held, wanted, reads, writes>>
  <2>1. TypeOK'
    BY <1>2, <1>3, <1>6 DEF TypeOK, rows, calls
  <2>2. RowsHeldUpwards'
    BY <1>3, <1>6 DEF RowsHeldUpwards, TypeOK
  <2>3. GrantIsHeld'
    BY <1>3, <1>6 DEF GrantIsHeld, TypeOK, calls
  <2>4. RevocationIsComplete'
    BY <1>3, <1>4, <1>6 DEF RevocationIsComplete, TypeOK, rows, calls, Claimed
  <2>5. NoClaimOutlivesItsGrant'
    BY <1>3 DEF NoClaimOutlivesItsGrant, rows, Claimed
  <2> QED BY <2>1, <2>2, <2>3, <2>4, <2>5
<1>7. CASE /\ phase' = [phase EXCEPT ![t] = "entry"]
           /\ retried' = [retried EXCEPT ![t] = TRUE]
           /\ held' = [held EXCEPT ![t] = {}]
           /\ wanted' = [wanted EXCEPT ![t] = EntryRows(cmd[t])]
           /\ found' = [found EXCEPT ![t] = Nothing]
           /\ UNCHANGED <<cmd, on, reads, writes>>
  <2>1. EntryRows(cmd[t]) \subseteq {<<"grant", 0>>} /\ <<"grant", 0>> \in Row
    BY DEF EntryRows, Row, Rank
  <2>2. TypeOK'
    BY <1>3, <1>7, <2>1 DEF TypeOK, rows, Nothing
  <2>3. RowsHeldUpwards'
    BY <1>7, <2>1 DEF RowsHeldUpwards, TypeOK
  <2>4. GrantIsHeld'
    BY <1>7 DEF GrantIsHeld, TypeOK
  <2>5. RevocationIsComplete'
    BY <1>3, <1>7 DEF RevocationIsComplete, TypeOK, rows, Claimed
  <2>6. NoClaimOutlivesItsGrant'
    BY <1>3 DEF NoClaimOutlivesItsGrant, rows, Claimed
  <2> QED BY <2>2, <2>3, <2>4, <2>5, <2>6
<1>8. CASE Ended(t) /\ UNCHANGED calls
  BY <1>3, <1>8, EndingKeepsOrder
<1> QED BY <1>5, <1>6, <1>7, <1>8

LEMMA PerformKeepsOrder ==
  ASSUME OrderInv, NEW t \in Txs, Perform(t)
  PROVE  OrderInv'
<1> USE DEF OrderInv
<1> DEFINE eff == Effect(cmd[t], on[t], found[t])
           dec == Decided(cmd[t], on[t], found[t])
<1>1. cmd[t] \in Commands /\ on[t] \in Works /\ found[t] \in [works : SUBSET Works, opened : BOOLEAN]
  BY DEF TypeOK
<1>2. /\ eff \in Choices /\ dec \in Choices
      /\ \A v \in DOMAIN eff : eff[v] = "claimed" => cmd[t] = "pickup" /\ grant = "live"
      /\ cmd[t] = "revoke" => eff = Set(found[t].works, "ended")
  BY <1>1, EffectIsAChoice
<1>3. /\ phase[t] = "deciding" /\ phase' = [phase EXCEPT ![t] = "auditing"]
      /\ writes' = [writes EXCEPT ![t] = eff]
      /\ reads' = [reads EXCEPT ![t] = dec]
      /\ wanted' = [wanted EXCEPT ![t] = {<<"audit", 0>>}]
      /\ UNCHANGED <<calls, found, held, rows>>
  BY DEF Perform
<1> HIDE DEF eff, dec
<1>4. TypeOK'
  <2>1. <<"audit", 0>> \in Row
    BY DEF Row, Rank
  <2> QED BY <1>2, <1>3, <2>1 DEF TypeOK, rows, calls
<1>5. RowsHeldUpwards'
  <2>1. \A r \in held[t] : Rank[r[1]] < Rank["audit"]
    BY <1>3 DEF RowsHeldUpwards
  <2>2. \A r \in held[t] : Before(r, <<"audit", 0>>)
    BY <2>1 DEF Before
  <2> QED BY <1>3, <2>2 DEF RowsHeldUpwards, TypeOK
<1>6. GrantIsHeld'
  BY <1>3 DEF GrantIsHeld, TypeOK, calls
<1>7. RevocationIsComplete'
  <2>1. ASSUME NEW u \in Txs PROVE
          /\ phase'[u] \in {"deciding", "auditing"} /\ cmd'[u] = "revoke"
               => Claimed(Works)' \subseteq found'[u].works
          /\ phase'[u] = "auditing" /\ cmd'[u] = "revoke" => writes'[u] = Set(found'[u].works, "ended")
          /\ phase'[u] # "auditing" => writes'[u] = NoWork
          /\ \A v \in DOMAIN writes'[u] :
                writes'[u][v] = "claimed" => cmd'[u] = "pickup" /\ grant' = "live"
    <3>1. CASE u = t
      BY <1>2, <1>3, <3>1 DEF RevocationIsComplete, TypeOK, rows, calls, Claimed
    <3>2. CASE u # t
      BY <1>3, <3>2 DEF RevocationIsComplete, TypeOK, rows, calls, Claimed
    <3> QED BY <3>1, <3>2
  <2>2. \A S : Set(S, "ended")' = Set(S, "ended") /\ NoWork' = NoWork
    BY DEF Set, NoWork
  <2> QED BY <2>1, <2>2 DEF RevocationIsComplete
<1>8. NoClaimOutlivesItsGrant'
  BY <1>3 DEF NoClaimOutlivesItsGrant, rows, Claimed
<1> QED BY <1>4, <1>5, <1>6, <1>7, <1>8

\* A pickup's claim and a revocation's ending cannot both land: both hold the grant row.
LEMMA CommitKeepsOrder ==
  ASSUME OrderInv, NEW t \in Txs, Commit(t)
  PROVE  OrderInv'
<1> USE DEF OrderInv
<1>1. /\ phase[t] = "auditing"
      /\ work' = [w \in Works |-> IF w \in DOMAIN writes[t] THEN writes[t][w] ELSE work[w]]
      /\ grant' = IF cmd[t] = "revoke" THEN "revoked" ELSE grant
      /\ Ended(t)
      /\ UNCHANGED <<calls, expired>>
  BY DEF Commit
<1>2. NoWork \in Choices /\ DOMAIN NoWork = {} /\ NoWork' = NoWork /\ \A S : Set(S, "ended")' = Set(S, "ended")
  BY DEF NoWork, Choices, States, Set
<1>3. \A v \in DOMAIN writes[t] : writes[t][v] \in States
  BY DEF TypeOK, Choices
<1>4. TypeOK'
  BY <1>1, <1>2, <1>3 DEF Ended, TypeOK, calls, Nothing
<1>5. RowsHeldUpwards'
  BY <1>1 DEF Ended, RowsHeldUpwards, TypeOK
<1>6. GrantIsHeld'
  BY <1>1 DEF Ended, GrantIsHeld, TypeOK, calls
<1>7. \A u \in Txs : phase[u] \in {"locking", "deciding", "auditing"} /\ cmd[u] \in {"pickup", "revoke"}
                        => <<"grant", 0>> \in held[u]
  BY DEF GrantIsHeld, EntryRows
<1>8. ASSUME cmd[t] = "revoke"
      PROVE  Claimed(Works)' = {}
  <2>1. writes[t] = Set(found[t].works, "ended") /\ Claimed(Works) \subseteq found[t].works
    BY <1>1, <1>8 DEF RevocationIsComplete
  <2>2. \A v \in Works : work'[v] # "claimed"
    BY <1>1, <2>1 DEF Set, Claimed, TypeOK
  <2> QED BY <2>2 DEF Claimed
<1>9. ASSUME cmd[t] # "pickup"
      PROVE  Claimed(Works)' \subseteq Claimed(Works)
  <2>1. \A v \in DOMAIN writes[t] : writes[t][v] # "claimed"
    BY <1>9 DEF RevocationIsComplete
  <2> QED BY <1>1, <2>1 DEF Claimed
<1>10. RevocationIsComplete'
  <2>1. ASSUME NEW u \in Txs PROVE
          /\ phase'[u] \in {"deciding", "auditing"} /\ cmd'[u] = "revoke"
               => Claimed(Works)' \subseteq found'[u].works
          /\ phase'[u] = "auditing" /\ cmd'[u] = "revoke" => writes'[u] = Set(found'[u].works, "ended")
          /\ phase'[u] # "auditing" => writes'[u] = NoWork
          /\ \A v \in DOMAIN writes'[u] :
                writes'[u][v] = "claimed" => cmd'[u] = "pickup" /\ grant' = "live"
    <3>1. CASE u = t
      BY <1>1, <1>2, <3>1 DEF Ended, TypeOK
    <3>2. CASE u # t
      <4>1. /\ phase'[u] = phase[u] /\ cmd'[u] = cmd[u] /\ found'[u] = found[u] /\ writes'[u] = writes[u]
        BY <1>1, <3>2 DEF Ended, calls, TypeOK
      <4>2. phase[u] \in {"deciding", "auditing"} /\ cmd[u] = "revoke" => cmd[t] # "pickup"
        BY <1>1, <1>7, <3>2 DEF GrantIsHeld
      <4>3. phase[u] = "auditing" /\ cmd[u] = "pickup" => cmd[t] # "revoke"
        BY <1>1, <1>7, <3>2 DEF GrantIsHeld
      <4>4. DOMAIN writes[u] # {} => phase[u] = "auditing"
        BY <1>2 DEF RevocationIsComplete
      <4> QED BY <1>1, <1>9, <4>1, <4>2, <4>3, <4>4 DEF RevocationIsComplete
    <3> QED BY <3>1, <3>2
  <2> QED BY <1>2, <2>1 DEF RevocationIsComplete
<1>11. NoClaimOutlivesItsGrant'
  <2>1. CASE cmd[t] = "revoke"
    BY <1>8, <2>1 DEF NoClaimOutlivesItsGrant
  <2>2. CASE cmd[t] = "pickup" /\ \E v \in DOMAIN writes[t] : writes[t][v] = "claimed"
    BY <1>1, <2>2 DEF NoClaimOutlivesItsGrant, RevocationIsComplete
  <2>3. CASE cmd[t] # "revoke" /\ \A v \in DOMAIN writes[t] : writes[t][v] # "claimed"
    <3>1. Claimed(Works)' \subseteq Claimed(Works)
      BY <1>1, <2>3 DEF Claimed
    <3> QED BY <1>1, <2>3, <3>1 DEF NoClaimOutlivesItsGrant
  <2> QED BY <2>1, <2>2, <2>3 DEF RevocationIsComplete
<1> QED BY <1>4, <1>5, <1>6, <1>10, <1>11

LEMMA NextKeepsOrder == OrderInv /\ [Next]_vars => OrderInv'
<1> SUFFICES ASSUME OrderInv, [Next]_vars PROVE OrderInv'
  OBVIOUS
<1>1. CASE \E t \in Txs, c \in Menu, w \in Works : Begin(t, c, w)
  BY <1>1, BeginKeepsOrder
<1>2. CASE \E t \in Txs : Step(t)
  BY <1>2, TakeKeepsOrder, DiscoverKeepsOrder, RecheckKeepsOrder, PerformKeepsOrder,
     CommitKeepsOrder DEF Step
<1>3. CASE \E t \in Txs : Lose(t)
  BY <1>3, LoseKeepsOrder
<1>4. CASE \E w \in Works : Expire(w)
  BY <1>4 DEF Expire, OrderInv, TypeOK, RowsHeldUpwards, GrantIsHeld, RevocationIsComplete,
              NoClaimOutlivesItsGrant, calls, Claimed, Set, NoWork
<1>5. CASE UNCHANGED vars
  BY <1>5 DEF OrderInv, TypeOK, RowsHeldUpwards, GrantIsHeld, RevocationIsComplete,
              NoClaimOutlivesItsGrant, vars, rows, calls, Claimed, Set, NoWork
<1> QED BY <1>1, <1>2, <1>3, <1>4, <1>5 DEF Next, Finished

---------------------------------------------------------------------------

\* The rows that stand between two writers of a piece of work: whoever reads it to write
\* holds its run, whoever ends its claim its lease and reservation.
LEMMA SetRowsHoldRuns ==
  ASSUME NEW c \in Commands, NEW w \in Works, NEW f \in [works : SUBSET Works, opened : BOOLEAN]
  PROVE  /\ \A v \in f.works : c \in {"pickup", "cancel", "revoke", "sweep"} =>
              /\ <<"run", v>> \in SetRows(c, w, f)
              /\ <<"lease", v>> \in SetRows(c, w, f)
              /\ <<"reservation", v>> \in SetRows(c, w, f)
         /\ c \in {"decide", "pickup", "handback", "cancel", "call"} => <<"run", w>> \in SetRows(c, w, f)
         /\ c = "handback" => /\ <<"lease", w>> \in SetRows(c, w, f)
                             /\ <<"reservation", w>> \in SetRows(c, w, f)
<1>1. ASSUME NEW S, NEW v \in S
      PROVE  /\ <<"run", v>> \in AffectedRows(S)
             /\ <<"lease", v>> \in AffectedRows(S)
             /\ <<"reservation", v>> \in AffectedRows(S)
  BY DEF AffectedRows, HoldRows, ClaimRows
<1>2. <<"run", w>> \in HoldRows(w)
  BY DEF HoldRows
<1>3. c = "pickup" => SetRows(c, w, f) = HoldRows(w) \cup AffectedRows(f.works)
  BY DEF SetRows
<1>4. c = "cancel" => SetRows(c, w, f) = {<<"run", w>>, <<"lineage", w>>} \cup AffectedRows(f.works)
  BY DEF SetRows
<1>5. c \in {"revoke", "sweep"} => SetRows(c, w, f) = AffectedRows(f.works)
  BY DEF SetRows
<1>6. c = "handback" => SetRows(c, w, f) = AffectedRows({w})
  BY DEF SetRows
<1>7. c \in {"decide", "call"} => <<"run", w>> \in SetRows(c, w, f)
  BY DEF SetRows
<1> QED BY <1>1, <1>2, <1>3, <1>4, <1>5, <1>6, <1>7

\* A discovery finds nothing but for the commands that end claims.
LEMMA EffectStandsOnItsReads ==
  ASSUME TypeOK, NEW c \in Commands, NEW w \in Works, NEW f \in [works : SUBSET Works, opened : BOOLEAN],
         c \notin {"pickup", "cancel", "revoke", "sweep"} => f.works = {},
         c = "cancel" /\ work[w] = "claimed" => w \in f.works
  PROVE  /\ DOMAIN Effect(c, w, f) \subseteq DOMAIN Decided(c, w, f)
         /\ \A v \in DOMAIN Decided(c, w, f) : /\ <<"run", v>> \in SetRows(c, w, f)
                                               /\ Decided(c, w, f)[v] = work[v]
         /\ \A v \in DOMAIN Effect(c, w, f) : work[v] = "claimed" =>
              <<"lease", v>> \in SetRows(c, w, f) /\ <<"reservation", v>> \in SetRows(c, w, f)
<1>1. DOMAIN Effect(c, w, f) \subseteq IF c \in {"revoke", "sweep"} THEN f.works ELSE {w} \cup f.works
  BY DEF Effect, Set, NoWork
<1>2. DOMAIN Decided(c, w, f) = IF c \in {"revoke", "sweep"} THEN f.works ELSE {w} \cup f.works
  BY DEF Decided
<1>3. \A v \in DOMAIN Decided(c, w, f) : Decided(c, w, f)[v] = work[v]
  BY DEF Decided
<1>4. c \in {"decide", "pickup", "handback", "cancel", "revoke", "sweep", "call"}
  BY DEF Commands
<1>5. \A v \in DOMAIN Decided(c, w, f) : <<"run", v>> \in SetRows(c, w, f)
  BY <1>2, <1>4, SetRowsHoldRuns
<1>6. ASSUME NEW v \in DOMAIN Effect(c, w, f), work[v] = "claimed"
      PROVE  <<"lease", v>> \in SetRows(c, w, f) /\ <<"reservation", v>> \in SetRows(c, w, f)
  <2>1. c \notin {"decide", "call"}
    BY <1>6 DEF Effect, Set, NoWork
  <2>2. CASE c = "handback"
    BY <1>1, <2>2, SetRowsHoldRuns
  <2>3. CASE c = "pickup"
    <3>1. v \in f.works
      BY <1>1, <1>6, <2>3 DEF Effect, NoWork
    <3> QED BY <2>3, <3>1, SetRowsHoldRuns
  <2>4. CASE c \in {"cancel", "revoke", "sweep"}
    <3>1. v \in f.works
      BY <1>1, <1>6, <2>4
    <3> QED BY <2>4, <3>1, SetRowsHoldRuns
  <2> QED BY <1>4, <2>1, <2>2, <2>3, <2>4
<1> QED BY <1>1, <1>2, <1>3, <1>5, <1>6

\* A set depends on what the command found, not on the rows as they are now.
LEMMA SetRowsAreFixed ==
  \A c, w, f : SetRows(c, w, f)' = SetRows(c, w, f)
BY DEF SetRows, AffectedRows, HoldRows, ClaimRows

LEMMA InitHolds == Init => HoldsInv
<1> SUFFICES ASSUME Init PROVE HoldsInv
  OBVIOUS
<1>1. DOMAIN NoWork = {}
  BY DEF NoWork
<1>2. \A t \in Txs : phase[t] = "idle" /\ held[t] = {} /\ writes[t] = NoWork
  BY DEF Init
<1> QED BY <1>1, <1>2 DEF HoldsInv, RowsExclude, SetIsHeld, ReadsStand, WritesUnderItsLocks

LEMMA BeginKeepsHolds ==
  ASSUME OrderInv, HoldsInv, NEW t \in Txs, NEW c \in Menu, NEW w \in Works, Begin(t, c, w)
  PROVE  HoldsInv'
<1>1. /\ phase[t] = "idle" /\ phase' = [phase EXCEPT ![t] = "entry"]
      /\ UNCHANGED <<found, held, reads, writes, work>>
      /\ \A u \in Txs \ {t} : /\ phase'[u] = phase[u] /\ cmd'[u] = cmd[u] /\ on'[u] = on[u]
                              /\ wanted'[u] = wanted[u]
      /\ phase'[t] = "entry"
  BY DEF Begin, rows, OrderInv, TypeOK
<1>2. RowsExclude'
  BY <1>1 DEF HoldsInv, RowsExclude
<1>3. SetIsHeld'
  BY <1>1, SetRowsAreFixed DEF HoldsInv, SetIsHeld
<1>4. ReadsStand'
  BY <1>1 DEF HoldsInv, ReadsStand
<1>5. WritesUnderItsLocks'
  BY <1>1 DEF HoldsInv, WritesUnderItsLocks
<1> QED BY <1>2, <1>3, <1>4, <1>5 DEF HoldsInv

\* A row that another transaction holds is waited for, unless both hold it for share.
LEMMA TakeKeepsHolds ==
  ASSUME OrderInv, HoldsInv, NEW t \in Txs, NEW r \in wanted[t], Take(t, r)
  PROVE  HoldsInv'
<1>1. /\ held' = [held EXCEPT ![t] = @ \cup {r}]
      /\ wanted' = [wanted EXCEPT ![t] = @ \ {r}]
      /\ UNCHANGED <<phase, cmd, on, found, reads, writes, work>>
      /\ \A u \in Txs : ~Blocks(u, t, r)
  BY DEF Take, calls, rows
<1>2. /\ held'[t] = held[t] \cup {r} /\ wanted'[t] = wanted[t] \ {r}
      /\ \A u \in Txs \ {t} : held'[u] = held[u] /\ wanted'[u] = wanted[u]
  BY <1>1 DEF OrderInv, TypeOK
<1>3. \A u \in Txs \ {t} : r \in held[u] => r[1] \in {"grant", "task"}
  BY <1>1 DEF Blocks, SharedBy
<1>4. RowsExclude'
  BY <1>2, <1>3 DEF HoldsInv, RowsExclude
<1>5. SetIsHeld'
  BY <1>1, <1>2, SetRowsAreFixed DEF HoldsInv, SetIsHeld
<1>6. ReadsStand'
  BY <1>1, <1>2 DEF HoldsInv, ReadsStand
<1>7. WritesUnderItsLocks'
  BY <1>1, <1>2 DEF HoldsInv, WritesUnderItsLocks
<1> QED BY <1>4, <1>5, <1>6, <1>7 DEF HoldsInv

LEMMA DiscoverKeepsHolds ==
  ASSUME OrderInv, HoldsInv, NEW t \in Txs, Discover(t)
  PROVE  HoldsInv'
<1> DEFINE now == Found(cmd[t], on[t])
<1>1. /\ phase' = [phase EXCEPT ![t] = "locking"]
      /\ found' = [found EXCEPT ![t] = now]
      /\ wanted' = [wanted EXCEPT ![t] = SetRows(cmd[t], on[t], now)]
      /\ UNCHANGED <<cmd, on, held, reads, writes, work>>
  BY DEF Discover, calls, rows
<1> HIDE DEF now
<1>2. /\ phase'[t] = "locking" /\ found'[t] = now /\ wanted'[t] = SetRows(cmd[t], on[t], now)
      /\ \A u \in Txs \ {t} : phase'[u] = phase[u] /\ found'[u] = found[u] /\ wanted'[u] = wanted[u]
  BY <1>1 DEF OrderInv, TypeOK
<1>3. RowsExclude'
  BY <1>1 DEF HoldsInv, RowsExclude
<1>4. SetIsHeld'
  BY <1>1, <1>2, SetRowsAreFixed DEF HoldsInv, SetIsHeld
<1>5. ReadsStand'
  BY <1>1, <1>2 DEF HoldsInv, ReadsStand
<1>6. WritesUnderItsLocks'
  BY <1>1 DEF HoldsInv, WritesUnderItsLocks
<1> QED BY <1>3, <1>4, <1>5, <1>6 DEF HoldsInv

LEMMA EndingKeepsHolds ==
  ASSUME OrderInv, HoldsInv, NEW t \in Txs, Ended(t), UNCHANGED <<calls, work>>
  PROVE  HoldsInv'
<1>1. /\ phase'[t] = "done" /\ held'[t] = {} /\ writes'[t] = NoWork
      /\ \A u \in Txs \ {t} : /\ phase'[u] = phase[u] /\ held'[u] = held[u] /\ wanted'[u] = wanted[u]
                              /\ found'[u] = found[u] /\ reads'[u] = reads[u] /\ writes'[u] = writes[u]
      /\ UNCHANGED <<cmd, on, work>>
      /\ DOMAIN NoWork = {}
  BY DEF Ended, calls, OrderInv, TypeOK, NoWork
<1>2. RowsExclude'
  BY <1>1 DEF HoldsInv, RowsExclude
<1>3. SetIsHeld'
  BY <1>1, SetRowsAreFixed DEF HoldsInv, SetIsHeld
<1>4. ReadsStand'
  BY <1>1 DEF HoldsInv, ReadsStand
<1>5. WritesUnderItsLocks'
  BY <1>1 DEF HoldsInv, WritesUnderItsLocks
<1> QED BY <1>2, <1>3, <1>4, <1>5 DEF HoldsInv

\* What is acted on is what is locked: the set grew by nothing it does not hold already.
LEMMA RecheckKeepsHolds ==
  ASSUME OrderInv, HoldsInv, NEW t \in Txs, Recheck(t)
  PROVE  HoldsInv'
<1> DEFINE now == FoundAgain(cmd[t], on[t], found[t])
<1>1. phase[t] = "locking" /\ wanted[t] = {} /\ UNCHANGED work
  BY DEF Recheck, rows
<1>2. \/ /\ SetStands(cmd[t], found[t], now, held[t], SetRows(cmd[t], on[t], now))
         /\ phase' = [phase EXCEPT ![t] = "deciding"]
         /\ found' = [found EXCEPT ![t] = now]
         /\ UNCHANGED <<calls, held, wanted, reads, writes>>
      \/ /\ phase' = [phase EXCEPT ![t] = "entry"]
         /\ held' = [held EXCEPT ![t] = {}]
         /\ wanted' = [wanted EXCEPT ![t] = EntryRows(cmd[t])]
         /\ found' = [found EXCEPT ![t] = Nothing]
         /\ UNCHANGED <<cmd, on, reads, writes>>
      \/ Ended(t) /\ UNCHANGED calls
  BY DEF Recheck
<1>3. /\ cmd[t] = "cancel" /\ work[on[t]] = "claimed" => on[t] \in now.works
      /\ cmd[t] \in {"decide", "handback", "call"} => now.works = {}
  BY DEF FoundAgain, Found, OrderInv, TypeOK
<1> HIDE DEF now
<1>4. CASE /\ SetStands(cmd[t], found[t], now, held[t], SetRows(cmd[t], on[t], now))
           /\ phase' = [phase EXCEPT ![t] = "deciding"]
           /\ found' = [found EXCEPT ![t] = now]
           /\ UNCHANGED <<calls, held, wanted, reads, writes>>
  <2>1. SetRows(cmd[t], on[t], now) \subseteq held[t]
    BY <1>1, <1>4 DEF SetStands, HoldsInv, SetIsHeld
  <2>2. /\ phase'[t] = "deciding" /\ found'[t] = now
        /\ \A u \in Txs \ {t} : phase'[u] = phase[u] /\ found'[u] = found[u]
        /\ UNCHANGED <<cmd, on, held, wanted, reads, writes, work>>
    BY <1>1, <1>4 DEF calls, OrderInv, TypeOK
  <2>3. RowsExclude'
    BY <2>2 DEF HoldsInv, RowsExclude
  <2>4. SetIsHeld'
    BY <1>3, <2>1, <2>2, SetRowsAreFixed DEF HoldsInv, SetIsHeld
  <2>5. ReadsStand'
    BY <2>2 DEF HoldsInv, ReadsStand
  <2>6. WritesUnderItsLocks'
    BY <2>2 DEF HoldsInv, WritesUnderItsLocks
  <2> QED BY <2>3, <2>4, <2>5, <2>6 DEF HoldsInv
<1>5. CASE /\ phase' = [phase EXCEPT ![t] = "entry"]
           /\ held' = [held EXCEPT ![t] = {}]
           /\ wanted' = [wanted EXCEPT ![t] = EntryRows(cmd[t])]
           /\ found' = [found EXCEPT ![t] = Nothing]
           /\ UNCHANGED <<cmd, on, reads, writes>>
  <2>1. /\ phase'[t] = "entry" /\ held'[t] = {} /\ UNCHANGED <<cmd, on, reads, writes, work>>
        /\ \A u \in Txs \ {t} : /\ phase'[u] = phase[u] /\ found'[u] = found[u]
                                /\ held'[u] = held[u] /\ wanted'[u] = wanted[u]
        /\ writes[t] = NoWork /\ DOMAIN NoWork = {}
    BY <1>1, <1>5 DEF OrderInv, TypeOK, RevocationIsComplete, NoWork
  <2>2. RowsExclude'
    BY <2>1 DEF HoldsInv, RowsExclude
  <2>3. SetIsHeld'
    BY <2>1, SetRowsAreFixed DEF HoldsInv, SetIsHeld
  <2>4. ReadsStand'
    BY <2>1 DEF HoldsInv, ReadsStand
  <2>5. WritesUnderItsLocks'
    BY <2>1 DEF HoldsInv, WritesUnderItsLocks
  <2> QED BY <2>2, <2>3, <2>4, <2>5 DEF HoldsInv
<1>6. CASE Ended(t) /\ UNCHANGED calls
  BY <1>1, <1>6, EndingKeepsHolds
<1> QED BY <1>2, <1>4, <1>5, <1>6

LEMMA PerformKeepsHolds ==
  ASSUME OrderInv, HoldsInv, NEW t \in Txs, Perform(t)
  PROVE  HoldsInv'
<1> DEFINE eff == Effect(cmd[t], on[t], found[t])
           dec == Decided(cmd[t], on[t], found[t])
           set == SetRows(cmd[t], on[t], found[t])
<1>1. /\ phase[t] = "deciding" /\ phase' = [phase EXCEPT ![t] = "auditing"]
      /\ writes' = [writes EXCEPT ![t] = eff]
      /\ reads' = [reads EXCEPT ![t] = dec]
      /\ wanted' = [wanted EXCEPT ![t] = {<<"audit", 0>>}]
      /\ UNCHANGED <<cmd, on, found, held, work>>
  BY DEF Perform, calls, rows
<1>2. /\ cmd[t] \in Commands /\ on[t] \in Works
      /\ found[t] \in [works : SUBSET Works, opened : BOOLEAN]
      /\ cmd[t] \notin {"pickup", "cancel", "revoke", "sweep"} => found[t].works = {}
      /\ cmd[t] = "cancel" /\ work[on[t]] = "claimed" => on[t] \in found[t].works
      /\ set \subseteq held[t]
  <2>1. cmd[t] \in {"decide", "pickup", "handback", "cancel", "revoke", "sweep", "call"}
    BY DEF OrderInv, TypeOK, Commands
  <2> QED BY <1>1, <2>1 DEF OrderInv, TypeOK, HoldsInv, SetIsHeld
<1>3. TypeOK
  BY DEF OrderInv
<1>4. /\ DOMAIN eff \subseteq DOMAIN dec
      /\ \A v \in DOMAIN dec : <<"run", v>> \in set /\ dec[v] = work[v]
      /\ \A v \in DOMAIN eff : work[v] = "claimed" => <<"lease", v>> \in set /\ <<"reservation", v>> \in set
  BY <1>2, <1>3, EffectStandsOnItsReads
<1> HIDE DEF eff, dec
<1>5. /\ phase'[t] = "auditing" /\ writes'[t] = eff /\ reads'[t] = dec
      /\ \A u \in Txs \ {t} : /\ phase'[u] = phase[u] /\ wanted'[u] = wanted[u]
                              /\ reads'[u] = reads[u] /\ writes'[u] = writes[u]
  BY <1>1 DEF OrderInv, TypeOK
<1>6. RowsExclude'
  BY <1>1 DEF HoldsInv, RowsExclude
<1>7. SetIsHeld'
  BY <1>1, <1>2, <1>5, SetRowsAreFixed DEF HoldsInv, SetIsHeld
<1> HIDE DEF set
<1>8. ReadsStand'
  BY <1>1, <1>2, <1>4, <1>5 DEF HoldsInv, ReadsStand
<1>9. WritesUnderItsLocks'
  <2>1. ASSUME NEW v \in DOMAIN eff
        PROVE  /\ <<"run", v>> \in held[t]
               /\ dec[v] = "claimed" => <<"lease", v>> \in held[t] /\ <<"reservation", v>> \in held[t]
    <3>1. v \in DOMAIN dec /\ dec[v] = work[v]
      BY <1>4
    <3> QED BY <1>2, <1>4, <3>1
  <2>2. held' = held
    BY <1>1
  <2> QED BY <1>5, <2>1, <2>2 DEF HoldsInv, WritesUnderItsLocks
<1> QED BY <1>6, <1>7, <1>8, <1>9 DEF HoldsInv

\* A write lands on work whose run its transaction holds, so on none that another has read
\* under its locks.
LEMMA CommitKeepsHolds ==
  ASSUME OrderInv, HoldsInv, NEW t \in Txs, Commit(t)
  PROVE  HoldsInv'
<1>1. /\ phase'[t] = "done" /\ held'[t] = {} /\ writes'[t] = NoWork
      /\ \A u \in Txs \ {t} : /\ phase'[u] = phase[u] /\ held'[u] = held[u] /\ wanted'[u] = wanted[u]
                              /\ found'[u] = found[u] /\ reads'[u] = reads[u] /\ writes'[u] = writes[u]
      /\ UNCHANGED <<cmd, on>>
      /\ DOMAIN NoWork = {}
      /\ work' = [w \in Works |-> IF w \in DOMAIN writes[t] THEN writes[t][w] ELSE work[w]]
  BY DEF Commit, Ended, calls, OrderInv, TypeOK, NoWork
<1>2. \A u \in Txs \ {t} : \A v \in Works : <<"run", v>> \in held[u] => work'[v] = work[v]
  <2>1. ASSUME NEW u \in Txs \ {t}, NEW v \in Works, <<"run", v>> \in held[u]
        PROVE  v \notin DOMAIN writes[t]
    <3>1. <<"run", v>> \notin held[t]
      BY <2>1 DEF HoldsInv, RowsExclude
    <3> QED BY <3>1 DEF HoldsInv, WritesUnderItsLocks
  <2> QED BY <1>1, <2>1
<1>3. RowsExclude'
  BY <1>1 DEF HoldsInv, RowsExclude
<1>4. SetIsHeld'
  <2>1. ASSUME NEW u \in Txs \ {t}, phase[u] = "deciding", cmd[u] = "cancel"
        PROVE  work'[on[u]] = work[on[u]]
    <3>1. on[u] \in Works /\ <<"run", on[u]>> \in SetRows(cmd[u], on[u], found[u])
      BY <2>1 DEF SetRows, OrderInv, TypeOK
    <3> QED BY <1>2, <2>1, <3>1 DEF HoldsInv, SetIsHeld
  <2> QED BY <1>1, <2>1, SetRowsAreFixed DEF HoldsInv, SetIsHeld
<1>5. ReadsStand'
  <2>1. \A u \in Txs : DOMAIN reads[u] \subseteq Works
    BY DEF OrderInv, TypeOK, Choices
  <2> QED BY <1>1, <1>2, <2>1 DEF HoldsInv, ReadsStand
<1>6. WritesUnderItsLocks'
  BY <1>1 DEF HoldsInv, WritesUnderItsLocks
<1> QED BY <1>3, <1>4, <1>5, <1>6 DEF HoldsInv

LEMMA NextKeepsHolds == LocksInv /\ [Next]_vars => HoldsInv'
<1> SUFFICES ASSUME OrderInv, HoldsInv, [Next]_vars PROVE HoldsInv'
  BY DEF LocksInv
<1>1. CASE \E t \in Txs, c \in Menu, w \in Works : Begin(t, c, w)
  BY <1>1, BeginKeepsHolds
<1>2. CASE \E t \in Txs : Step(t)
  BY <1>2, TakeKeepsHolds, DiscoverKeepsHolds, RecheckKeepsHolds, PerformKeepsHolds,
     CommitKeepsHolds DEF Step
<1>3. CASE \E t \in Txs : Lose(t)
  BY <1>3, EndingKeepsHolds DEF Lose, rows
<1>4. CASE \E w \in Works : Expire(w)
  BY <1>4, SetRowsAreFixed DEF Expire, calls, HoldsInv, RowsExclude, SetIsHeld, ReadsStand, WritesUnderItsLocks
<1>5. CASE UNCHANGED vars
  BY <1>5, SetRowsAreFixed DEF vars, calls, rows, HoldsInv, RowsExclude, SetIsHeld, ReadsStand, WritesUnderItsLocks
<1> QED BY <1>1, <1>2, <1>3, <1>4, <1>5 DEF Next, Finished

---------------------------------------------------------------------------

\* Locks, discoveries and rechecks keep their order, and the rows of a write stay held, in
\* every behaviour of the commands (locks.ts `acquire`, rediscovery.ts `lockRediscovered`).
THEOREM LocksAreKept == Spec => []LocksInv
<1>1. Init => LocksInv
  BY InitIsOrdered, InitHolds DEF LocksInv
<1>2. LocksInv /\ [Next]_vars => LocksInv'
  BY NextKeepsOrder, NextKeepsHolds DEF LocksInv
<1> QED BY <1>1, <1>2, PTL DEF Spec

\* Whatever grew between two discoveries, a command writes only work whose run it holds, and
\* ends a claim only under its lease and reservation (rediscovery.ts `covered`, `sameSet`).
THEOREM WritesStayUnderLocks == Spec => []WritesUnderItsLocks
<1>1. LocksInv => WritesUnderItsLocks
  BY DEF LocksInv, HoldsInv
<1> QED BY <1>1, LocksAreKept, PTL

\* What a write was decided on still reads the same when it lands, whatever committed while
\* its transaction waited for the audit chain (rediscovery.ts `lockRediscovered`).
THEOREM NoWriteIsLost == Spec => CommitsWhatItRead
<1>1. LocksInv => [\A t \in Txs : (phase[t] = "auditing" /\ phase'[t] = "done" /\ work' # work) =>
                      \A w \in DOMAIN reads[t] : work[w] = reads[t][w]]_vars
  BY DEF LocksInv, HoldsInv, ReadsStand
<1> QED BY <1>1, LocksAreKept, PTL DEF CommitsWhatItRead

\* A revoked grant leaves no claim behind, whatever pickup was in flight
\* (authority-controls.ts `revokeGrantRow`, authority-loss.ts).
THEOREM NoClaimOutlivesARevocation == Spec => []NoClaimOutlivesItsGrant
<1>1. LocksInv => NoClaimOutlivesItsGrant
  BY DEF LocksInv, OrderInv
<1> QED BY <1>1, LocksAreKept, PTL

---------------------------------------------------------------------------

\* Some number of a set of numbers is its least.
LEMMA LeastExists ==
  ASSUME NEW S \in SUBSET Nat, S # {}
  PROVE  \E x \in S : \A y \in S : x <= y
<1> DEFINE Below == {p \in Nat \X Nat : p[1] < p[2]}
<1>1. Below = OpToRel(<, Nat)
  BY DEF Below, OpToRel
<1>2. IsWellFoundedOn(Below, Nat)
  BY <1>1, NatLessThanWellFounded, Zenon
<1>3. PICK x \in S : \A y \in S : ~(<<y, x>> \in Below)
  BY <1>2, WFMin
<1>4. ASSUME NEW y \in S PROVE x <= y
  <2>1. x \in Nat /\ y \in Nat
    OBVIOUS
  <2>2. ~(y < x)
    BY <1>3, <2>1 DEF Below
  <2> QED BY <2>1, <2>2
<1> QED BY <1>4

\* Of the rows a ring would wait for, one comes before or with all the others.
LEMMA LeastRowExists ==
  ASSUME NEW R \in SUBSET Row, R # {}
  PROVE  \E r \in R : \A s \in R : ~Before(s, r)
<1>1. \A r \in Row : Rank[r[1]] \in Nat /\ r[2] \in Nat
  BY DEF Row, Rank
<1> DEFINE Ranks == {Rank[r[1]] : r \in R}
<1>2. Ranks \in SUBSET Nat /\ Ranks # {}
  BY <1>1
<1>3. PICK k \in Ranks : \A j \in Ranks : k <= j
  BY <1>2, LeastExists
<1> DEFINE Keys == {r[2] : r \in {s \in R : Rank[s[1]] = k}}
<1>4. Keys \in SUBSET Nat /\ Keys # {}
  BY <1>1
<1>5. PICK i \in Keys : \A j \in Keys : i <= j
  BY <1>4, LeastExists
<1>6. PICK r \in R : Rank[r[1]] = k /\ r[2] = i
  OBVIOUS
<1>7. ASSUME NEW s \in R PROVE ~Before(s, r)
  <2>1. k <= Rank[s[1]] /\ Rank[s[1]] \in Nat /\ k \in Nat /\ s[2] \in Nat /\ i \in Nat
    BY <1>1, <1>3, <1>6
  <2>2. Rank[s[1]] = k => i <= s[2]
    BY <1>5
  <2> QED BY <1>6, <2>1, <2>2 DEF Before
<1> QED BY <1>7

\* No commands wait for each other in a ring: of the rows the ring waits for, the first
\* is waited for by a holder of an earlier one.
LEMMA LocksHeldUpwardsBreakRings == OrderInv => NoCircularWait
<1> SUFFICES ASSUME OrderInv, NEW S \in SUBSET Txs, CircularWait(S) PROVE FALSE
  BY DEF NoCircularWait
<1> DEFINE R == {r \in Row : \E t \in S : IsNext(t, r)}
<1>1. R # {}
  <2>1. PICK t \in S : \E u \in S : WaitsFor(t, u)
    BY DEF CircularWait
  <2>2. PICK r \in wanted[t] : IsNext(t, r)
    BY <2>1 DEF WaitsFor
  <2>3. r \in Row
    BY <2>2 DEF OrderInv, TypeOK
  <2> QED BY <2>2, <2>3
<1>2. PICK r \in R : \A s \in R : ~Before(s, r)
  BY <1>1, LeastRowExists
<1>3. PICK t \in S : IsNext(t, r)
  OBVIOUS
<1>4. PICK u \in S : WaitsFor(u, t)
  BY DEF CircularWait
<1>5. PICK h \in wanted[u] : IsNext(u, h) /\ h \in held[t]
  BY <1>4 DEF WaitsFor, Blocks
<1>6. h \in R
  BY <1>5 DEF OrderInv, TypeOK
<1>7. r \in wanted[t]
  BY <1>3 DEF IsNext
<1>8. Before(h, r)
  BY <1>5, <1>7 DEF OrderInv, RowsHeldUpwards
<1> QED BY <1>2, <1>6, <1>8

\* LOCK_ORDER keeps every ring of waiting transactions from closing (locks.ts:88).
THEOREM NoDeadlock == Spec => []NoCircularWait
<1>1. LocksInv => NoCircularWait
  BY LocksHeldUpwardsBreakRings DEF LocksInv
<1> QED BY <1>1, LocksAreKept, PTL
===========================================================================
