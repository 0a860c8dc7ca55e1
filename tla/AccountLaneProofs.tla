------------------------- MODULE AccountLaneProofs -------------------------
(***************************************************************************)
(* Nonces of an account: what TLAPS proves of the lane, the in-flight set  *)
(* and the cap, from LaneInvariant.                                        *)
(***************************************************************************)
EXTENDS AccountSafetyProofs, LaneInvariant, FiniteSetTheorems, FunctionTheorems

----------------------------------------------------------------------------
(* A kind of fault that no budget allows never happens.                    *)

LEMMA NoFaultStep ==
    ASSUME TypeOK, NEW kind \in FaultKinds, faults[kind] = 0, [Next]_vars
    PROVE  faults'[kind] = 0
<1>1. ASSUME NEW other \in FaultKinds, Spend(other)
      PROVE  faults'[kind] = 0
  BY <1>1 DEF Spend, TypeOK
<1>2. CASE UNCHANGED faults
  BY <1>2
<1>3. FaultKinds = {"rpc", "lost", "store", "crash", "evict", "reorg", "revert"}
  BY DEF FaultKinds
<1>4. CASE \E k \in Jobs : Submit(k) \/ LaneStep(k)
  BY <1>1, <1>2, <1>3, <1>4
     DEF Submit, LaneStep, TurnRefused, TurnStart, NextTurn, EstimateFails, WriteAhead, Send,
         RecordFailure, Reseed, RecordBroadcast, FinishTurn
<1>5. CASE \E f \in Foreign : ForeignSend(f) \/ ReattachStore(f) \/ ReattachTrack(f)
  BY <1>1, <1>2, <1>3, <1>5 DEF ForeignSend, ReattachStore, ReattachTrack
<1>6. CASE TickStep
  <2>1. CASE TickStart \/ TickEnd
    BY <1>1, <1>2, <1>3, <2>1 DEF TickStart, TickEnd, RefreshState
  <2>2. ASSUME NEW r \in todo, PollStep(r) PROVE faults'[kind] = 0
    BY <1>1, <1>2, <1>3, <2>2
       DEF PollStep, PollReverted, PollSucceeded, PollConfirmed, PollMined, PollWaiting, PollGivesUp,
           PollReplaces, PollFails, Measures
  <2>3. ASSUME NEW w \in work, WorkStep(w) PROVE faults'[kind] = 0
    BY <1>1, <1>2, <1>3, <2>3 DEF WorkStep, ReplaceSend, TickStores, TickDrops, TickPuts
  <2> QED BY <1>6, <2>1, <2>2, <2>3 DEF TickStep
<1>7. CASE PrimeNonce \/ Crash
  BY <1>1, <1>2, <1>3, <1>7 DEF PrimeNonce, Crash
<1>8. CASE BootStep
  BY <1>1, <1>2, <1>3, <1>8 DEF BootStep, Restore, BootDone, Rebroadcast, RecordRebroadcast
<1>9. CASE ChainStep
  BY <1>1, <1>2, <1>3, <1>9
     DEF ChainStep, ChainMines, ChainReverts, ChainGrows, ChainReorgs, ChainEvicts
<1>10. CASE UNCHANGED vars
  BY <1>2, <1>10 DEF vars
<1> QED BY <1>4, <1>5, <1>6, <1>7, <1>8, <1>9, <1>10 DEF Next

LEMMA NoFaultInit ==
    ASSUME NEW kind \in FaultKinds, NeverFaults(kind), Init
    PROVE  faults[kind] = 0
BY DEF NeverFaults, Init

LEMMA NothingToSpend == ASSUME NEW kind, faults[kind] = 0 PROVE ~Spend(kind)
BY DEF Spend
----------------------------------------------------------------------------
(* Reverted is dead, without reorgs.                                       *)

\* What was settled as reverted has a failed transaction in the chain.
Failed(k) == \E m \in mined : m.tx.job = k /\ ~m.ok

RevertInv ==
    /\ \A k \in Keys : row[k].status = "reverted" => Failed(k)
    /\ \A w \in work : w.status = "reverted" => Failed(w.job)

LEMMA RevertStep ==
    ASSUME IInv, RevertInv, faults["reorg"] = 0, [Next]_vars
    PROVE  RevertInv'
<1>1. ~ChainReorgs
  BY NothingToSpend DEF ChainReorgs
<1>2. mined \subseteq mined'
  <2>1. CASE \E k \in Jobs : Submit(k) \/ LaneStep(k)
    BY <2>1 DEF Submit, LaneStep, TurnRefused, TurnStart, NextTurn, EstimateFails, WriteAhead, Send,
         RecordFailure, Reseed, RecordBroadcast, FinishTurn, nodeVars
  <2>2. CASE \E f \in Foreign : ForeignSend(f) \/ ReattachStore(f) \/ ReattachTrack(f)
    BY <2>2 DEF ForeignSend, ReattachStore, ReattachTrack, nodeVars
  <2>3. CASE PrimeNonce \/ Crash \/ TickStart \/ TickEnd \/ UNCHANGED vars
    BY <2>3 DEF PrimeNonce, Crash, TickStart, TickEnd, vars, nodeVars
  <2>4. ASSUME NEW r \in todo, PollStep(r) PROVE mined' = mined
    BY <2>4 DEF PollStep, PollReverted, PollSucceeded, PollConfirmed, PollMined, PollWaiting, PollGivesUp,
           PollReplaces, PollFails, Stuck, Polls, Measures, Looks, nodeVars
  <2>5. ASSUME NEW w \in work, WorkStep(w) PROVE mined' = mined
    BY <2>5 DEF WorkStep, ReplaceSend, TickStores, TickDrops, TickPuts, nodeVars
  <2>6. CASE BootStep
    BY <2>6 DEF BootStep, Restore, BootDone, Rebroadcast, RecordRebroadcast, nodeVars
  <2>7. CASE ChainStep
    BY <2>7, <1>1 DEF ChainStep, ChainMines, ChainReverts, ChainGrows, ChainEvicts, Mine, EmptyBlock, Evict
  <2> QED BY <2>1, <2>2, <2>3, <2>4, <2>5, <2>6, <2>7 DEF Next, TickStep
<1>3. \A k : Failed(k) => Failed(k)'
  BY <1>2 DEF Failed
\* A row that turns reverted was the tick's record.
<1>4. ASSUME NEW k \in Keys, row'[k].status = "reverted" PROVE Failed(k)
  <2>t. row[k] \in Rec /\ row \in [Keys -> Rec] /\ outbox \subseteq Rec /\ work \subseteq Rec
    BY DEF IInv, TypeOK
  <2>1. CASE row' = row
    BY <2>1, <1>4 DEF RevertInv
  <2>2. CASE \E j \in Jobs : Submit(j) \/ LaneStep(j)
    <3>1. PICK j \in Jobs : row' = row \/ \E x \in {NewRecord(j, alloc[j]), Live(row[j]), Settled(row[j], "failed")} :
                    row' = [row EXCEPT ![j] = x]
      BY <2>2 DEF Submit, LaneStep, TurnRefused, TurnStart, NextTurn, EstimateFails, WriteAhead, Send,
         RecordFailure, Reseed, RecordBroadcast, FinishTurn, storeVars
    <3>2. j \in Keys /\ row[j] \in Rec /\ alloc[j] \in Nat
      BY JobsAssumption DEF IInv, TypeOK
    <3>3. \A x \in {NewRecord(j, alloc[j]), Live(row[j]), Settled(row[j], "failed")} : x.status # "reverted"
      BY <3>2, NewFields, LiveFields, SettledFields
    <3> QED BY <3>1, <3>2, <3>3, <2>t, <2>1, <1>4 DEF RevertInv
  <2>3. CASE \E f \in Foreign : ForeignSend(f) \/ ReattachStore(f) \/ ReattachTrack(f)
    <3>1. PICK f \in Foreign : row' = row \/ row' = [row EXCEPT ![f] = ReattachRecord(f, alloc[f])]
      BY <2>3 DEF ForeignSend, ReattachStore, ReattachTrack, storeVars
    <3>2. f \in Keys /\ alloc[f] \in Nat
      BY DEF Foreign, IInv, TypeOK
    <3>3. ReattachRecord(f, alloc[f]).status # "reverted"
      BY <3>2, NewFields
    <3> QED BY <3>1, <3>2, <3>3, <2>t, <2>1, <1>4 DEF RevertInv
  <2>4. ASSUME NEW w \in work, WorkStep(w) PROVE Failed(k)
    <3>1. row' = row \/ row' = [row EXCEPT ![w.job] = w]
      BY <2>4 DEF WorkStep, ReplaceSend, TickStores, TickDrops, TickPuts, storeVars
    <3>2. w.job \in Keys
      BY <2>t DEF Rec
    <3> QED BY <3>1, <3>2, <2>t, <2>1, <1>4 DEF RevertInv
  <2>5. ASSUME NEW r \in todo, PollStep(r) PROVE row' = row
    BY <2>5 DEF PollStep, PollReverted, PollSucceeded, PollConfirmed, PollMined, PollWaiting, PollGivesUp,
           PollReplaces, PollFails, Stuck, Polls, Measures, Looks, storeVars
  <2>6. CASE PrimeNonce \/ Crash \/ TickStart \/ TickEnd \/ ChainStep \/ UNCHANGED vars
    BY <2>6, <2>1 DEF PrimeNonce, Crash, TickStart, TickEnd, vars, storeVars, ChainStep, ChainMines,
       ChainReverts, ChainGrows, ChainReorgs, ChainEvicts, accountVars
  <2>7. CASE BootStep
    <3>1. CASE row' # row
      <4>1. PICK r \in outbox : row' = [row EXCEPT ![r.job] = r] /\ r.status = "broadcast"
        BY <2>7, <3>1 DEF BootStep, Restore, BootDone, Rebroadcast, RecordRebroadcast, storeVars
      <4>2. r.job \in Keys
        BY <2>t DEF Rec
      <4> QED BY <4>1, <4>2, <2>t, <1>4 DEF RevertInv
    <3> QED BY <3>1, <2>1
  <2> QED BY <2>1, <2>2, <2>3, <2>4, <2>5, <2>6, <2>7 DEF Next, TickStep
<1>5. ASSUME NEW w \in work', w.status = "reverted" PROVE Failed(w.job)
  <2>1. CASE w \in work
    BY <2>1, <1>5 DEF RevertInv
  <2>2. CASE w \notin work
    <3>1. PICK r \in todo : PollStep(r) /\ w \in work'
      <4>1. CASE \E j \in Jobs : Submit(j) \/ LaneStep(j)
        BY <4>1, <2>2, <1>5 DEF Submit, LaneStep, TurnRefused, TurnStart, NextTurn, EstimateFails,
           WriteAhead, Send, RecordFailure, Reseed, RecordBroadcast, FinishTurn, tickVars
      <4>2. CASE \E f \in Foreign : ForeignSend(f) \/ ReattachStore(f) \/ ReattachTrack(f)
        BY <4>2, <2>2, <1>5 DEF ForeignSend, ReattachStore, ReattachTrack, tickVars
      <4>3. CASE PrimeNonce \/ Crash \/ TickStart \/ TickEnd \/ ChainStep \/ UNCHANGED vars
        BY <4>3, <2>2, <1>5 DEF PrimeNonce, Crash, TickStart, TickEnd, vars, tickVars, ChainStep,
           ChainMines, ChainReverts, ChainGrows, ChainReorgs, ChainEvicts, accountVars
      <4>4. ASSUME NEW v \in work, WorkStep(v) PROVE FALSE
        BY <4>4, <2>2, <1>5 DEF WorkStep, ReplaceSend, TickStores, TickDrops, TickPuts
      <4>5. CASE BootStep
        BY <4>5, <2>2, <1>5 DEF BootStep, Restore, BootDone, Rebroadcast, RecordRebroadcast, tickVars
      <4> QED BY <1>5, <4>1, <4>2, <4>3, <4>4, <4>5 DEF Next, TickStep
    <3>2. r \in Rec
      BY DEF IInv, TypeOK
    <3>3. \/ work' = {} \/ work' = work
          \/ work' = {Settled(r, "reverted")} /\ PollReverted(r)
          \/ \E x \in {Settled(r, "confirmed"), Mined(r), Settled(r, "failed"), Replacement(r)} :
                work' = {x}
      BY <3>1 DEF PollStep, PollReverted, PollSucceeded, PollConfirmed, PollMined, PollWaiting, PollGivesUp,
           PollReplaces, PollFails, NextRecord, Advance
    <3>4. \A x \in {Settled(r, "confirmed"), Mined(r), Settled(r, "failed"), Replacement(r)} :
              x.status # "reverted"
      BY <3>2, SettledFields, MinedFields, ReplacementFields
    <3>5. w = Settled(r, "reverted") /\ PollReverted(r)
      BY <3>1, <3>3, <3>4, <1>5, <2>2
    <3> QED BY <3>2, <3>5, SettledFields DEF PollReverted, Reverted, Receipts, HashTx, Failed
  <2> QED BY <2>1, <2>2
<1> QED BY <1>3, <1>4, <1>5 DEF RevertInv

(* models.ts: a "reverted" transaction is dead. Settling on the first sight *)
(* of a failed receipt is sound on a chain without reorgs.                  *)
THEOREM RevertedStaysDead == ASSUME NeverFaults("reorg") PROVE Spec => []RevertedIsDead
<1> DEFINE J == IInv /\ RevertInv /\ faults["reorg"] = 0
<1>0. "reorg" \in FaultKinds
  BY DEF FaultKinds
<1>1. Init => J
  <2> SUFFICES ASSUME Init PROVE J
    OBVIOUS
  <2>1. RevertInv
    BY DEF Init, NoRow, RevertInv
  <2> QED BY <2>1, <1>0, IInvInit, NoFaultInit
<1>2. J /\ [Next]_vars => J'
  BY <1>0, IInvStep, RevertStep, NoFaultStep DEF IInv
<1>3. J => RevertedIsDead
  <2> SUFFICES ASSUME J, NEW k \in Keys, row[k].status = "reverted"
               PROVE  OnChain(k) # {} /\ \A m \in OnChain(k) : ~m.ok
    BY DEF RevertedIsDead
  <2>1. SingleExecution
    BY DEF IInv, ChainInv, SingleExecution
  <2> QED BY <2>1 DEF RevertInv, Failed, OnChain, SingleExecution
<1> HIDE DEF J
<1>4. Spec => []J
  BY <1>1, <1>2, PTL DEF Spec
<1> QED BY <1>3, <1>4, PTL

----------------------------------------------------------------------------
(* The lane.  What the lemmas below add to a step is that the stores work  *)
(* (a failing store shares a nonce) and that all jobs are this program's.  *)

LaneIInv == TurnInv /\ LaneInv /\ TrackInv /\ CapInv

LEMMA InjectionBound ==
    ASSUME NEW S, NEW T, IsFiniteSet(T), NEW f \in [S -> T],
           \A x, y \in S : f[x] = f[y] => x = y
    PROVE  IsFiniteSet(S) /\ Cardinality(S) <= Cardinality(T)
<1>1. f \in Injection(S, T)
  BY Fun_IsInj
<1> QED BY <1>1, FS_Injection

\* Who holds what: the facts of IInv that the lane's proofs use.
LEMMA Holders ==
    ASSUME IInv
    PROVE  /\ \A r \in inflight :
                /\ r \in Rec /\ r.job \in Keys /\ pc[r.job] \in Done
                /\ r.nonce = row[r.job].nonce /\ Occupies(r.job)
           /\ \A k \in Keys : pc[k] \in InTurn \cup {"queued"} => CachedFor(k) = {} /\ phase = "up"
           /\ \A k \in Keys : row[k] \in Rec /\ row[k].job = k
           /\ cursor \in Nat /\ alloc \in [Keys -> Nat] /\ pc \in [Keys -> PcStates]
<1>1. \A r \in inflight : r \in Rec /\ r.job \in Keys
  BY DEF IInv, TypeOK, Rec
<1>2. \A r \in inflight : pc[r.job] \in Done /\ r.nonce = row[r.job].nonce
  BY DEF IInv, HeldInv
<1>3. \A r \in inflight : Occupies(r.job)
  BY DEF Occupies, CachedFor
<1>4. \A k \in Keys : pc[k] \in InTurn \cup {"queued"} => pc[k] \notin Done \cup {"idle", "abroad"}
  BY DEF InTurn, Done
<1>5. \A k \in Keys : pc[k] \in InTurn \cup {"queued"} => CachedFor(k) = {}
  BY <1>2, <1>4 DEF CachedFor
<1>6. phase # "up" => \A k \in Keys : pc[k] \in {"idle", "abroad"} \cup Done
  BY DEF IInv, PhaseInv
<1>7. \A k \in Keys : row[k] \in Rec /\ row[k].job = k
  BY DEF IInv, TypeOK, RowInv
<1>8. cursor \in Nat /\ alloc \in [Keys -> Nat] /\ pc \in [Keys -> PcStates]
  BY DEF IInv, TypeOK
<1> QED BY <1>1, <1>2, <1>3, <1>4, <1>5, <1>6, <1>7, <1>8

\* A step after which nobody occupies or has the lane who did not before.
LEMMA LaneShrinks ==
    ASSUME IInv, IInv', TurnInv, LaneInv, CapInv,
           \A k \in Keys :
              /\ Occupies(k)' => Occupies(k)
              /\ row'[k].nonce = row[k].nonce
              /\ pc'[k] \in InTurn => pc[k] \in InTurn /\ alloc'[k] = alloc[k]
              /\ pc'[k] \in InTurn \ {"estimating"} => pc[k] # "estimating"
              /\ pc'[k] = "reseed" => row'[k].status = "failed",
           phase' # "down" =>
              /\ phase # "down" /\ cursor' >= cursor
              /\ \A k \in Keys : Occupies(k)' /\ pc'[k] \notin InTurn => pc[k] \notin InTurn,
           \A x, y \in inflight' : x.nonce = y.nonce => x = y,
           IsFiniteSet(inflight')
    PROVE  TurnInv' /\ LaneInv' /\ CapInv'
<1>n. /\ \A k \in Keys : row[k].nonce \in Nat /\ alloc[k] \in Nat
      /\ cursor \in Nat /\ cursor' \in Nat
  BY DEF IInv, TypeOK, Rec
<1>1. TurnInv'
  BY DEF TurnInv
<1>2. LaneInv'
  <2>1. \A j, k \in Keys : Occupies(j)' /\ Occupies(k)' /\ row'[j].nonce = row'[k].nonce => j = k
    BY DEF LaneInv
  <2>2. phase' # "down" =>
          \A k \in Keys : Occupies(k)' /\ pc'[k] \notin InTurn => row'[k].nonce < cursor'
    BY <1>n DEF LaneInv
  <2>3. ASSUME NEW k \in Keys, pc'[k] \in InTurn
        PROVE  /\ alloc'[k] <= cursor'
               /\ \A j \in Keys \ {k} : Occupies(j)' => row'[j].nonce < alloc'[k]
    <3>1. phase' # "down"
      BY <2>3, Holders
         DEF IInv, PhaseInv, InTurn, Done
    <3> QED BY <2>3, <3>1, <1>n DEF LaneInv
  <2> QED BY <2>1, <2>2, <2>3 DEF LaneInv
<1>3. CapInv'
  <2>1. Claimed' \in SUBSET Claimed
    BY DEF Claimed
  <2>2. IsFiniteSet(Claimed') /\ Cardinality(Claimed') <= Cardinality(Claimed)
    BY <2>1, FS_Subset DEF CapInv
  <2>3. Cardinality(Claimed) \in Nat /\ Cardinality(Claimed') \in Nat
    BY <2>2, FS_CardinalityType DEF CapInv
  <2> QED BY <2>2, <2>3, LimitAssumption DEF CapInv
<1> QED BY <1>1, <1>2, <1>3

LEMMA TrackFrame ==
    ASSUME TrackInv,
           \A k \in Keys : CachedFor(k) # {} => CachedFor(k)' # {},
           \A k \in Jobs : phase' # "down" /\ row'[k].status \in Active /\ pc'[k] \notin InTurn
              => phase # "down" /\ row[k].status \in Active /\ pc[k] \notin InTurn,
           step' = "cache" => step = "cache" /\ work' = work,
           \A w \in work : w.job \in Keys
    PROVE  TrackInv'
<1>1. ActiveRowsTracked'
  BY JobsAssumption DEF TrackInv, ActiveRowsTracked
<1>2. step' = "cache" => \A w \in work' : CachedFor(w.job)' # {}
  BY DEF TrackInv
<1> QED BY <1>1, <1>2 DEF TrackInv

----------------------------------------------------------------------------
(* The turn.                                                               *)

LEMMA TurnMoves ==
    ASSUME IInv, IInv', LaneIInv, NEW k \in Jobs,
           UNCHANGED <<inflight, alloc, phase, tickVars>>, cursor' >= cursor,
           \A j \in Keys \ {k} : row'[j] = row[j] /\ pc'[j] = pc[j],
           row'[k].nonce = row[k].nonce,
           row'[k].status \in Active => row[k].status \in Active,
           pc'[k] \in InTurn => pc[k] \in InTurn,
           pc'[k] \in InTurn \ {"estimating"} => pc[k] # "estimating",
           pc'[k] = "reseed" => row'[k].status = "failed",
           pc[k] \in InTurn /\ pc'[k] \notin InTurn => row'[k].status \notin Active
    PROVE  LaneIInv'
<1>k. k \in Keys
  BY JobsAssumption
<1>2. \A j \in Keys : CachedFor(j)' = CachedFor(j)
  BY DEF CachedFor
<1>3. \A j \in Keys : Occupies(j)' => Occupies(j)
  BY <1>2 DEF Occupies
<1>4. \A j \in Keys : Occupies(j)' /\ pc'[j] \notin InTurn => pc[j] \notin InTurn
  BY <1>2, Holders DEF Occupies
<1>5. TurnInv' /\ LaneInv' /\ CapInv'
  <2>1. \A j \in Keys :
              /\ Occupies(j)' => Occupies(j)
              /\ row'[j].nonce = row[j].nonce
              /\ pc'[j] \in InTurn => pc[j] \in InTurn /\ alloc'[j] = alloc[j]
              /\ pc'[j] \in InTurn \ {"estimating"} => pc[j] # "estimating"
              /\ pc'[j] = "reseed" => row'[j].status = "failed"
    BY <1>3 DEF LaneIInv, TurnInv
  <2>2. /\ \A y, z \in inflight' : y.nonce = z.nonce => y = z
        /\ IsFiniteSet(inflight')
    BY DEF LaneIInv, LaneInv, CapInv
  <2> QED BY <2>1, <2>2, <1>4, LaneShrinks DEF LaneIInv
<1>6. TrackInv'
  <2>1. \A j \in Jobs : phase' # "down" /\ row'[j].status \in Active /\ pc'[j] \notin InTurn
              => phase # "down" /\ row[j].status \in Active /\ pc[j] \notin InTurn
    BY JobsAssumption
  <2>2. \A w \in work : w.job \in Keys
    BY DEF IInv, TypeOK, Rec
  <2> QED BY <1>2, <2>1, <2>2, TrackFrame DEF LaneIInv, tickVars
<1> QED BY <1>5, <1>6 DEF LaneIInv

\* The steps of a call that take no nonce and track no record.
LEMMA LaneQuiet ==
    ASSUME IInv, IInv', LaneIInv, OwnJobsOnly, faults["store"] = 0, NEW k \in Jobs,
           \/ Submit(k) \/ TurnRefused(k) \/ EstimateFails(k) \/ Send(k)
           \/ RecordFailure(k) \/ Reseed(k) \/ RecordBroadcast(k)
    PROVE  LaneIInv'
<1>t. /\ k \in Keys /\ row[k] \in Rec /\ row[k].job = k
      /\ row \in [Keys -> Rec] /\ pc \in [Keys -> PcStates]
      /\ cursor \in Nat /\ alloc[k] \in Nat
  BY JobsAssumption DEF IInv, TypeOK, RowInv
<1>s. ~Spend("store")
  BY NothingToSpend
<1>q. UNCHANGED <<inflight, alloc, phase, tickVars>>
  BY DEF Submit, TurnRefused, NextTurn, EstimateFails, Send, RecordFailure, Reseed,
         RecordBroadcast, cacheVars, bootVars
<1>o. \A j \in Keys \ {k} : row'[j] = row[j] /\ pc'[j] = pc[j]
  BY <1>t DEF Submit, TurnRefused, NextTurn, EstimateFails, Send, RecordFailure, Reseed,
              RecordBroadcast, MovePc, storeVars
<1>c. cursor' >= cursor
  <2>1. CASE Reseed(k)
    <3>1. \A c \in Nat : \A n \in Nat : SeedNonce(c, n) >= c /\ SeedNonce(c, n) \in Nat
      BY DEF SeedNonce
    <3>2. PendingCounts \subseteq Nat
      BY PendingCountTypes DEF IInv, TypeOK
    <3>3. alloc[k] + 1 \in Nat
      BY <1>t
    <3> QED BY <2>1, <1>t, <3>1, <3>2, <3>3 DEF Reseed
  <2>2. CASE ~Reseed(k)
    BY <2>2, <1>t DEF Submit, TurnRefused, NextTurn, EstimateFails, Send, RecordFailure,
                      RecordBroadcast, cacheVars
  <2> QED BY <2>1, <2>2
<1> USE <1>t, <1>q, <1>o, <1>c, TurnMoves DEF MovePc, InTurn
<1>1. CASE Submit(k) \/ TurnRefused(k)
  <2>1. row' = row /\ pc[k] \in {"idle", "queued"} /\ pc'[k] \in {"queued", "rejected"}
    BY <1>1 DEF Submit, TurnRefused, NextTurn, storeVars
  <2> QED BY <2>1
<1>2. CASE EstimateFails(k) \/ Reseed(k)
  <2>1. row[k].status \notin Active
    BY <1>2 DEF EstimateFails, Reseed, LaneIInv, TurnInv, IInv, RowInv, Active
  <2>2. row' = row /\ pc'[k] = "rejected"
    BY <1>2 DEF EstimateFails, Reseed, storeVars
  <2> QED BY <2>1, <2>2
<1>3. CASE Send(k)
  <2>1. row' = row /\ pc[k] = "ahead" /\ pc'[k] \in {"sent", "drift", "error"}
    BY <1>3 DEF Send, storeVars
  <2> QED BY <2>1
<1>4. CASE RecordFailure(k)
  <2>1. row'[k] = Settled(row[k], "failed") /\ pc[k] \in {"drift", "error"}
    BY <1>4, <1>s DEF RecordFailure
  <2>2. row'[k].nonce = row[k].nonce /\ row'[k].status = "failed"
    BY <2>1, SettledFields
  <2> QED BY <2>1, <2>2 DEF Active
<1>5. CASE RecordBroadcast(k)
  <2>1. row'[k] = Live(row[k]) /\ pc[k] = "sent" /\ pc'[k] = "stored"
    BY <1>5, <1>s DEF RecordBroadcast
  <2>2. row'[k].nonce = row[k].nonce /\ row[k].status \in Active
    BY <2>1, LiveFields DEF IInv, RowInv, Active
  <2> QED BY <2>1, <2>2
<1> QED BY <1>1, <1>2, <1>3, <1>4, <1>5

\* The lane is free: the next turn gets the cursor, past every nonce in use,
\* and, the cap not being reached, a place under it.
LEMMA LaneStarts ==
    ASSUME IInv, IInv', LaneIInv, OwnJobsOnly, NEW k \in Jobs, TurnStart(k)
    PROVE  LaneIInv'
<1>t. /\ k \in Keys /\ pc[k] = "queued" /\ phase = "up"
      /\ pc \in [Keys -> PcStates] /\ alloc \in [Keys -> Nat] /\ cursor \in Nat
      /\ row \in [Keys -> Rec]
  BY JobsAssumption, Holders DEF TurnStart, NextTurn, IInv, TypeOK
<1>u. UNCHANGED <<inflight, cursor, row, phase, tickVars>>
  BY DEF TurnStart, NextTurn, cacheVars, storeVars, bootVars
<1>1. /\ pc'[k] = "estimating" /\ alloc'[k] = cursor
      /\ \A j \in Keys \ {k} : pc'[j] = pc[j] /\ alloc'[j] = alloc[j]
  BY <1>t DEF TurnStart, MovePc
<1>2. \A j \in Keys : pc[j] \notin InTurn
  BY DEF TurnStart, NextTurn, LaneFree, OwnJobsOnly
<1>3. \A j \in Keys : CachedFor(j)' = CachedFor(j) /\ Occupies(j)' = Occupies(j)
  BY <1>u DEF CachedFor, Occupies
<1>4. TurnInv'
  BY <1>1, <1>2, <1>u DEF TurnInv, InTurn
<1>5. LaneInv'
  <2>1. /\ \A x, y \in inflight' : x.nonce = y.nonce => x = y
        /\ \A i, j \in Keys : Occupies(i)' /\ Occupies(j)' /\ row'[i].nonce = row'[j].nonce => i = j
    BY <1>u, <1>3 DEF LaneIInv, LaneInv
  <2>2. \A j \in Keys : Occupies(j) => row[j].nonce < cursor
    BY <1>2, <1>t DEF LaneIInv, LaneInv
  <2>3. ASSUME NEW j \in Keys, pc'[j] \in InTurn PROVE j = k
    BY <1>1, <1>2, <2>3
  <2>4. alloc'[k] <= cursor' /\ \A j \in Keys \ {k} : Occupies(j)' => row'[j].nonce < alloc'[k]
    BY <1>1, <1>3, <1>u, <1>t, <2>2
  <2> QED BY <2>1, <2>2, <2>3, <2>4, <1>3, <1>u DEF LaneInv
<1>6. TrackInv'
  <2>1. \A j \in Jobs : phase' # "down" /\ row'[j].status \in Active /\ pc'[j] \notin InTurn
              => phase # "down" /\ row[j].status \in Active /\ pc[j] \notin InTurn
    BY <1>1, <1>2, <1>u, JobsAssumption
  <2>2. \A w \in work : w.job \in Keys
    BY DEF IInv, TypeOK, Rec
  <2> QED BY <1>3, <1>u, <2>1, <2>2, TrackFrame DEF LaneIInv, tickVars
<1>7. CapInv'
  <2>1. IsFiniteSet(Claimed) /\ IsFiniteSet(inflight)
    BY DEF LaneIInv, CapInv
  <2>2. \A j \in Claimed : CachedFor(j) # {}
    BY <1>2, <1>t DEF Claimed, Occupies, OwnJobsOnly, LaneIInv, TrackInv, ActiveRowsTracked
  <2> DEFINE f == [j \in Claimed |-> CHOOSE r \in inflight : r.job = j]
  <2>3. \A j \in Claimed : f[j] \in inflight /\ f[j].job = j
    BY <2>2 DEF CachedFor
  <2>4. f \in [Claimed -> inflight] /\ \A i, j \in Claimed : f[i] = f[j] => i = j
    BY <2>3
  <2> HIDE DEF f
  <2>5. Cardinality(Claimed) <= Cardinality(inflight)
    BY <2>1, <2>4, InjectionBound
  <2>6. Cardinality(inflight) \in Nat /\ Cardinality(Claimed) \in Nat
    BY <2>1, FS_CardinalityType
  <2>7. Cardinality(Claimed) < MaxInflight
    BY <2>5, <2>6, LimitAssumption DEF TurnStart, AtCap
  <2>8. Claimed' = Claimed \cup {k}
    BY <1>1, <1>2, <1>3, <1>t DEF Claimed, InTurn
  <2>9. /\ IsFiniteSet(Claimed')
        /\ Cardinality(Claimed') \in {Cardinality(Claimed), Cardinality(Claimed) + 1}
    BY <2>1, <2>8, FS_AddElement
  <2> QED BY <2>1, <2>6, <2>7, <2>9, <1>u, LimitAssumption DEF CapInv
<1> QED BY <1>4, <1>5, <1>6, <1>7 DEF LaneIInv

\* The write-ahead row takes the nonce of the turn.
LEMMA LaneWritesAhead ==
    ASSUME IInv, IInv', LaneIInv, OwnJobsOnly, faults["store"] = 0,
           NEW k \in Jobs, WriteAhead(k)
    PROVE  LaneIInv'
<1>t. /\ k \in Keys /\ pc[k] = "estimating" /\ phase = "up"
      /\ pc \in [Keys -> PcStates] /\ alloc \in [Keys -> Nat] /\ cursor \in Nat
      /\ row \in [Keys -> Rec]
  BY JobsAssumption, Holders DEF WriteAhead, IInv, TypeOK, InTurn
<1>u. UNCHANGED <<inflight, cursor, alloc, phase, tickVars>>
  BY DEF WriteAhead, cacheVars, bootVars
<1>1. /\ row' = [row EXCEPT ![k] = NewRecord(k, alloc[k])] /\ pc' = [pc EXCEPT ![k] = "ahead"]
  BY NothingToSpend DEF WriteAhead, MovePc
<1>2. /\ row'[k].nonce = alloc[k] /\ pc'[k] = "ahead"
      /\ \A j \in Keys \ {k} : row'[j] = row[j] /\ pc'[j] = pc[j]
  BY <1>1, <1>t, NewFields
<1>3. \A j \in Keys : CachedFor(j)' = CachedFor(j)
  BY <1>u DEF CachedFor
<1>4. \A j \in Keys \ {k} : Occupies(j)' = Occupies(j)
  BY <1>2, <1>3 DEF Occupies
<1>5. \A j \in Keys : pc'[j] \in InTurn <=> pc[j] \in InTurn
  BY <1>2, <1>t DEF InTurn
<1>i. pc[k] \in InTurn /\ "ahead" # "reseed"
  BY <1>t DEF InTurn
<1>6. TurnInv'
  BY <1>2, <1>5, <1>u, <1>i DEF LaneIInv, TurnInv
<1>7. LaneInv'
  <2>1. \A j \in Keys \ {k} : Occupies(j) => row[j].nonce < alloc[k]
    BY <1>t, <1>i DEF LaneIInv, LaneInv
  <2>2. \A j \in Keys : row[j].nonce \in Nat /\ alloc[j] \in Nat
    BY <1>t DEF Rec
  <2>3. \A i, j \in Keys : Occupies(i)' /\ Occupies(j)' /\ row'[i].nonce = row'[j].nonce => i = j
    BY <1>2, <1>4, <2>1, <2>2 DEF LaneIInv, LaneInv
  <2>4. \A j \in Keys : Occupies(j)' /\ pc'[j] \notin InTurn => row'[j].nonce < cursor'
    BY <1>2, <1>4, <1>5, <1>u, <1>t, <1>i DEF LaneIInv, LaneInv
  <2>5. ASSUME NEW i \in Keys, pc'[i] \in InTurn PROVE i = k
    BY <2>5, <1>5, <1>i, <1>t DEF LaneIInv, TurnInv
  <2>6. alloc'[k] <= cursor' /\ \A j \in Keys \ {k} : Occupies(j)' => row'[j].nonce < alloc'[k]
    BY <1>2, <1>4, <1>u, <1>i, <1>t, <2>1 DEF LaneIInv, LaneInv
  <2>7. \A x, y \in inflight' : x.nonce = y.nonce => x = y
    BY <1>u DEF LaneIInv, LaneInv
  <2> QED BY <2>3, <2>4, <2>5, <2>6, <2>7 DEF LaneInv
<1>8. TrackInv'
  <2>1. \A j \in Jobs : phase' # "down" /\ row'[j].status \in Active /\ pc'[j] \notin InTurn
              => phase # "down" /\ row[j].status \in Active /\ pc[j] \notin InTurn
    BY <1>2, <1>5, <1>u, <1>i, JobsAssumption
  <2>2. \A w \in work : w.job \in Keys
    BY DEF IInv, TypeOK, Rec
  <2> QED BY <1>3, <1>u, <2>1, <2>2, TrackFrame DEF LaneIInv, tickVars
<1>9. CapInv'
  <2>1. Claimed' = Claimed
    BY <1>4, <1>5, <1>i, <1>t DEF Claimed
  <2> QED BY <2>1, <1>u DEF LaneIInv, CapInv
<1> QED BY <1>6, <1>7, <1>8, <1>9 DEF LaneIInv

\* Every nonce in use is below the one of the turn, so tracking its record
\* replaces none, and the cursor may follow it.
LEMMA LaneFinishes ==
    ASSUME IInv, IInv', LaneIInv, OwnJobsOnly, NEW k \in Jobs, FinishTurn(k)
    PROVE  LaneIInv'
<1>t. /\ k \in Keys /\ pc[k] = "stored" /\ pc[k] \in InTurn /\ pc[k] # "estimating" /\ phase = "up"
      /\ pc \in [Keys -> PcStates] /\ alloc \in [Keys -> Nat] /\ cursor \in Nat
      /\ row \in [Keys -> Rec] /\ row[k].job = k /\ row[k].status = "broadcast"
  BY JobsAssumption, Holders DEF FinishTurn, IInv, TypeOK, RowInv, InTurn
<1>u. UNCHANGED <<alloc, row, phase, tickVars>>
  BY DEF FinishTurn, storeVars, bootVars
<1>1. /\ inflight' = PutTx(inflight, row[k]) /\ cursor' = alloc[k] + 1
      /\ pc'[k] = "resolved" /\ \A j \in Keys \ {k} : pc'[j] = pc[j]
  BY <1>t DEF FinishTurn, MovePc
<1>i. pc'[k] \notin InTurn
  BY <1>1 DEF InTurn
<1>2. Occupies(k) /\ row[k].nonce = alloc[k]
  BY <1>t DEF Occupies, Active, LaneIInv, TurnInv
<1>3. \A j \in Keys \ {k} : Occupies(j) => row[j].nonce < alloc[k]
  BY <1>t DEF LaneIInv, LaneInv
<1>n. \A j \in Keys : row[j].nonce \in Nat /\ alloc[j] \in Nat
  BY <1>t DEF Rec
<1>4. \A r \in inflight : r.nonce \in Nat /\ r.nonce < alloc[k] /\ r.job # k
  BY <1>3, <1>t, <1>n, Holders DEF CachedFor
<1>5. inflight' = inflight \cup {row[k]}
  BY <1>1, <1>2, <1>4, <1>n, <1>t DEF PutTx
<1>6. /\ \A j \in Keys \ {k} : CachedFor(j)' = CachedFor(j)
      /\ CachedFor(k)' # {}
  BY <1>5, <1>t DEF CachedFor
<1>7. \A j \in Keys : Occupies(j)' = Occupies(j)
  BY <1>2, <1>6, <1>u DEF Occupies
<1>8. \A j \in Keys \ {k} : pc[j] \notin InTurn
  BY <1>t DEF LaneIInv, TurnInv
<1>9. \A j \in Keys : pc'[j] \notin InTurn
  BY <1>1, <1>i, <1>8
<1>10. TurnInv'
  BY <1>9 DEF TurnInv, InTurn
<1>11. LaneInv'
  <2>1. \A x, y \in inflight' : x.nonce = y.nonce => x = y
    BY <1>2, <1>4, <1>5, <1>n, <1>t DEF LaneIInv, LaneInv
  <2>2. \A i, j \in Keys : Occupies(i)' /\ Occupies(j)' /\ row'[i].nonce = row'[j].nonce => i = j
    BY <1>7, <1>u DEF LaneIInv, LaneInv
  <2>3. \A j \in Keys : Occupies(j)' => row'[j].nonce < cursor'
    BY <1>1, <1>2, <1>3, <1>7, <1>u, <1>n, <1>t
  <2> QED BY <2>1, <2>2, <2>3, <1>9 DEF LaneInv
<1>12. TrackInv'
  <2>1. ActiveRowsTracked'
    BY <1>6, <1>8, <1>u, JobsAssumption DEF LaneIInv, TrackInv, ActiveRowsTracked
  <2>2. \A w \in work : w.job \in Keys
    BY DEF IInv, TypeOK, Rec
  <2> QED BY <2>1, <2>2, <1>6, <1>u DEF LaneIInv, TrackInv, tickVars
<1>13. CapInv'
  <2>1. Claimed' = Claimed
    BY <1>1, <1>2, <1>7, <1>t DEF Claimed
  <2>2. IsFiniteSet(inflight')
    BY <1>5, FS_AddElement DEF LaneIInv, CapInv
  <2> QED BY <2>1, <2>2 DEF LaneIInv, CapInv
<1> QED BY <1>10, <1>11, <1>12, <1>13 DEF LaneIInv

\* A restart finds no two active rows of one nonce, so it tracks them all,
\* and seeds the cursor past them.
LEMMA LaneRestored ==
    ASSUME IInv, IInv', LaneIInv, OwnJobsOnly, Restore
    PROVE  LaneIInv'
<1>t. /\ row \in [Keys -> Rec] /\ \A k \in Keys : row[k].job = k /\ row[k].nonce \in Nat
      /\ inflight = {} /\ step = "idle" /\ \A k \in Keys : pc[k] \notin InTurn
  <2>1. \A k \in Keys : pc[k] \in {"idle", "abroad"} \cup Done
    BY DEF IInv, PhaseInv, Restore
  <2>2. inflight = {} /\ step = "idle"
    BY DEF IInv, PhaseInv, Restore
  <2> QED BY <2>1, <2>2 DEF IInv, TypeOK, RowInv, Rec, InTurn, Done
<1>u. UNCHANGED <<alloc, row, pc, tickVars>> /\ phase' = "restoring" /\ cursor' \in SeededCursors
  BY DEF Restore, storeVars, callVars
<1>1. inflight' = ActiveRows
  <2>1. /\ inflight' \subseteq ActiveRows
        /\ \A r \in ActiveRows : \E x \in inflight' : x.nonce = r.nonce
    BY DEF Restore
  <2>2. \A r, x \in ActiveRows : r.nonce = x.nonce => r = x
    <3>1. \A k \in Keys : row[k].status \in Active => Occupies(k)
      BY DEF Occupies
    <3> QED BY <3>1 DEF LaneIInv, LaneInv, ActiveRows
  <2> QED BY <2>1, <2>2
<1>2. \A k \in Keys : CachedFor(k)' # {} <=> row[k].status \in Active
  BY <1>1, <1>t DEF CachedFor, ActiveRows
<1>3. \A k \in Keys : Occupies(k)' <=> Occupies(k)
  BY <1>2, <1>t, <1>u DEF Occupies, CachedFor
<1>4. TurnInv'
  BY <1>t, <1>u DEF TurnInv, InTurn
<1>5. LaneInv'
  <2>1. \A x, y \in inflight' : x.nonce = y.nonce => x = y
    BY DEF Restore
  <2>2. \A i, j \in Keys : Occupies(i)' /\ Occupies(j)' /\ row'[i].nonce = row'[j].nonce => i = j
    BY <1>3, <1>u DEF LaneIInv, LaneInv
  <2>3. \A j \in Keys : Occupies(j)' => row'[j].nonce < cursor'
    <3>1. ASSUME NEW j \in Keys, Occupies(j)' PROVE row[j] \in ActiveRows
      BY <1>2, <1>u, <3>1 DEF Occupies, ActiveRows
    <3>2. SeededCursors \subseteq Nat
      BY <1>t DEF SeededCursors, ActiveRows, IInv, TypeOK
    <3> QED BY <3>1, <3>2, <1>u, <1>t DEF SeededCursors
  <2> QED BY <2>1, <2>2, <2>3, <1>t, <1>u DEF LaneInv
<1>6. TrackInv'
  BY <1>2, <1>t, <1>u, JobsAssumption DEF TrackInv, ActiveRowsTracked, tickVars
<1>7. CapInv'
  <2>1. Claimed' = Claimed
    BY <1>3, <1>u DEF Claimed
  <2> DEFINE f == [r \in inflight' |-> r.job]
  <2>2. \A r \in inflight' : r.job \in Claimed
    BY <1>1, <1>t DEF ActiveRows, Claimed, Occupies
  <2>3. f \in [inflight' -> Claimed] /\ \A x, y \in inflight' : f[x] = f[y] => x = y
    BY <2>2, <1>1, <1>t DEF ActiveRows
  <2> HIDE DEF f
  <2>4. IsFiniteSet(inflight')
    BY <2>3, InjectionBound DEF LaneIInv, CapInv
  <2> QED BY <2>1, <2>4 DEF LaneIInv, CapInv
<1> QED BY <1>4, <1>5, <1>6, <1>7 DEF LaneIInv

----------------------------------------------------------------------------
(* The tick, the boot and the chain.                                       *)

LEMMA LaneIdle ==
    ASSUME IInv, IInv', LaneIInv,
           UNCHANGED <<inflight, pc, alloc, row>>, cursor' >= cursor,
           phase' # "down" => phase # "down",
           step' = "cache" => step = "cache" /\ work' = work
    PROVE  LaneIInv'
<1>1. \A j \in Keys : CachedFor(j)' = CachedFor(j) /\ Occupies(j)' = Occupies(j)
  BY DEF CachedFor, Occupies
<1>2. TurnInv' /\ LaneInv' /\ CapInv'
  <2>1. \A j \in Keys :
              /\ Occupies(j)' => Occupies(j)
              /\ row'[j].nonce = row[j].nonce
              /\ pc'[j] \in InTurn => pc[j] \in InTurn /\ alloc'[j] = alloc[j]
              /\ pc'[j] \in InTurn \ {"estimating"} => pc[j] # "estimating"
              /\ pc'[j] = "reseed" => row'[j].status = "failed"
    BY <1>1 DEF LaneIInv, TurnInv
  <2>2. /\ \A y, z \in inflight' : y.nonce = z.nonce => y = z
        /\ IsFiniteSet(inflight')
    BY DEF LaneIInv, LaneInv, CapInv
  <2> QED BY <2>1, <2>2, LaneShrinks DEF LaneIInv
<1>3. TrackInv'
  <2>1. \A w \in work : w.job \in Keys
    BY DEF IInv, TypeOK, Rec
  <2> QED BY <1>1, <2>1, TrackFrame DEF LaneIInv
<1> QED BY <1>2, <1>3 DEF LaneIInv

\* A record that is tracked, or dropped, belongs to a job that occupies its
\* nonce, so no other job's record goes.
LEMMA OthersKept ==
    ASSUME IInv, LaneInv, NEW r \in Rec, r.job \in Keys, Occupies(r.job),
           r.nonce = row[r.job].nonce,
           inflight' \in {PutTx(inflight, r), DropTx(inflight, r.nonce)}
    PROVE  /\ \A j \in Keys \ {r.job} : CachedFor(j)' = CachedFor(j)
           /\ inflight' = PutTx(inflight, r) => CachedFor(r.job)' # {}
           /\ \A x, y \in inflight' : x.nonce = y.nonce => x = y
           /\ IsFiniteSet(inflight) => IsFiniteSet(inflight')
<1>1. \A x \in inflight : x.nonce = r.nonce => x.job = r.job
  BY Holders DEF LaneInv
<1>2. \A j \in Keys \ {r.job} : CachedFor(j)' = CachedFor(j)
  BY <1>1 DEF CachedFor, PutTx, DropTx
<1>3. inflight' = PutTx(inflight, r) => CachedFor(r.job)' # {}
  BY DEF CachedFor, PutTx
<1>4. \A x, y \in inflight' : x.nonce = y.nonce => x = y
  BY DEF PutTx, DropTx, LaneInv
<1>5. ASSUME IsFiniteSet(inflight) PROVE IsFiniteSet(inflight')
  <2>1. DropTx(inflight, r.nonce) \in SUBSET inflight
    BY DEF DropTx
  <2>2. IsFiniteSet(DropTx(inflight, r.nonce))
    BY <1>5, <2>1, FS_Subset
  <2>3. PutTx(inflight, r) = DropTx(inflight, r.nonce) \cup {r}
    BY DEF PutTx, DropTx
  <2>4. IsFiniteSet(PutTx(inflight, r))
    BY <2>2, <2>3, FS_AddElement
  <2> QED BY <2>2, <2>4
<1> QED BY <1>2, <1>3, <1>4, <1>5

\* A step of the tick or the boot that stores, tracks or drops a record.
LEMMA LaneWrites ==
    ASSUME IInv, IInv', LaneIInv, UNCHANGED <<pc, alloc, cursor, phase>>,
           NEW k \in Keys, pc[k] \in Done,
           \A j \in Keys \ {k} : row'[j] = row[j] /\ CachedFor(j)' = CachedFor(j),
           Occupies(k), row'[k].nonce = row[k].nonce,
           \A x, y \in inflight' : x.nonce = y.nonce => x = y,
           IsFiniteSet(inflight')
    PROVE  TurnInv' /\ LaneInv' /\ CapInv'
<1>1. pc[k] \notin InTurn
  BY DEF InTurn, Done
<1>2. \A j \in Keys : Occupies(j)' => Occupies(j)
  BY DEF Occupies
<1>3. \A j \in Keys :
              /\ Occupies(j)' => Occupies(j)
              /\ row'[j].nonce = row[j].nonce
              /\ pc'[j] \in InTurn => pc[j] \in InTurn /\ alloc'[j] = alloc[j]
              /\ pc'[j] \in InTurn \ {"estimating"} => pc[j] # "estimating"
              /\ pc'[j] = "reseed" => row'[j].status = "failed"
  BY <1>1, <1>2 DEF LaneIInv, TurnInv, InTurn
<1>4. cursor' >= cursor
  BY DEF IInv, TypeOK
<1> QED BY <1>3, <1>4, LaneShrinks DEF LaneIInv

LEMMA LaneTicks ==
    ASSUME IInv, IInv', LaneIInv, OwnJobsOnly, faults["store"] = 0,
           NEW w \in work, TickStores(w) \/ TickDrops(w) \/ TickPuts(w)
    PROVE  LaneIInv'
<1>t. w \in Rec /\ w.job \in Keys /\ row \in [Keys -> Rec] /\ IsFiniteSet(inflight) /\ work = {w}
  <2>1. w \in Rec /\ row \in [Keys -> Rec] /\ IsFiniteSet(inflight)
    BY DEF IInv, TypeOK, LaneIInv, CapInv
  <2>2. work = {w}
    BY DEF IInv, StepInv
  <2> QED BY <2>1, <2>2 DEF Rec
<1>w. w.nonce = row[w.job].nonce /\ pc[w.job] \in Done
  BY DEF IInv, WorkInv
<1>p. phase # "down"
  BY DEF IInv, PhaseInv, TickStores, TickDrops, TickPuts
<1>d. pc[w.job] \notin InTurn
  BY <1>w DEF InTurn, Done
<1>u. UNCHANGED <<pc, alloc, cursor, phase>>
  BY DEF TickStores, TickDrops, TickPuts, cacheVars, callVars, bootVars
<1>1. CASE TickStores(w)
  <2>1. row' = [row EXCEPT ![w.job] = w] /\ step' = "cache" /\ work' = work /\ inflight' = inflight
    BY <1>1, NothingToSpend DEF TickStores, cacheVars
  <2>2. \A j \in Keys : CachedFor(j)' = CachedFor(j)
    BY <2>1 DEF CachedFor
  <2>3. row[w.job].status \in Active
    BY <1>1 DEF IInv, WorkInv, TickStores
  <2>4. CachedFor(w.job) # {}
    BY <2>3, <1>t, <1>p, <1>d DEF OwnJobsOnly, LaneIInv, TrackInv, ActiveRowsTracked
  <2>5. \A j \in Keys \ {w.job} : row'[j] = row[j] /\ CachedFor(j)' = CachedFor(j)
    BY <2>1, <2>2, <1>t
  <2>6. TurnInv' /\ LaneInv' /\ CapInv'
    <3>1. Occupies(w.job)
      BY <2>3 DEF Occupies
    <3>2. row'[w.job].nonce = row[w.job].nonce
      BY <2>1, <1>t, <1>w
    <3>3. \A x, y \in inflight' : x.nonce = y.nonce => x = y
      BY <2>1 DEF LaneIInv, LaneInv
    <3>4. IsFiniteSet(inflight')
      BY <2>1, <1>t
    <3> QED BY <3>1, <3>2, <3>3, <3>4, <2>5, <1>t, <1>w, <1>u, LaneWrites
  <2>7. TrackInv'
    <3>1. ActiveRowsTracked'
      BY <2>2, <2>4, <2>5, <1>u, JobsAssumption DEF LaneIInv, TrackInv, ActiveRowsTracked
    <3> QED BY <3>1, <2>1, <2>2, <2>4, <1>t DEF TrackInv
  <2> QED BY <2>6, <2>7 DEF LaneIInv
<1>2. CASE TickDrops(w) \/ TickPuts(w)
  <2>1. /\ row' = row /\ step' = "poll" /\ step = "cache"
        /\ inflight' \in {PutTx(inflight, w), DropTx(inflight, w.nonce)}
    BY <1>2 DEF TickDrops, TickPuts, storeVars
  <2>2. row[w.job] = w /\ CachedFor(w.job) # {}
    BY <2>1 DEF IInv, WorkInv, LaneIInv, TrackInv
  <2>3. Occupies(w.job)
    BY <2>2 DEF Occupies
  <2>4. /\ \A j \in Keys \ {w.job} : CachedFor(j)' = CachedFor(j)
        /\ inflight' = PutTx(inflight, w) => CachedFor(w.job)' # {}
        /\ \A x, y \in inflight' : x.nonce = y.nonce => x = y
        /\ IsFiniteSet(inflight')
    BY <2>1, <2>3, <1>t, <1>w, OthersKept DEF LaneIInv
  <2>5. TurnInv' /\ LaneInv' /\ CapInv'
    <3>1. \A j \in Keys \ {w.job} : row'[j] = row[j] /\ CachedFor(j)' = CachedFor(j)
      BY <2>1, <2>4
    <3>2. row'[w.job].nonce = row[w.job].nonce
      BY <2>1
    <3> QED BY <3>1, <3>2, <2>3, <2>4, <1>t, <1>w, <1>u, LaneWrites
  <2>6. TrackInv'
    <3>1. row[w.job].status \in Active => CachedFor(w.job)' # {}
      BY <1>2, <2>2, <2>4 DEF TickDrops, TickPuts, Active, Terminal
    <3>2. ActiveRowsTracked'
      BY <3>1, <2>1, <2>4, <1>u, JobsAssumption DEF LaneIInv, TrackInv, ActiveRowsTracked
    <3> QED BY <3>2, <2>1 DEF TrackInv
  <2> QED BY <2>5, <2>6 DEF LaneIInv
<1> QED BY <1>1, <1>2

LEMMA LaneRebroadcasts ==
    ASSUME IInv, IInv', LaneIInv, faults["store"] = 0,
           NEW r \in outbox, RecordRebroadcast(r)
    PROVE  LaneIInv'
<1>t. /\ r \in Rec /\ r.job \in Keys /\ row \in [Keys -> Rec]
      /\ IsFiniteSet(inflight)
  BY DEF IInv, TypeOK, Rec, LaneIInv, CapInv
<1>o. /\ r.nonce = row[r.job].nonce /\ pc[r.job] \in Done /\ row[r.job].status = "pending"
      /\ phase = "restoring" /\ step = "idle"
  BY DEF IInv, OutboxInv, PhaseInv
<1>u. UNCHANGED <<pc, alloc, cursor, phase, step>>
  BY DEF RecordRebroadcast, callVars, tickVars
<1>1. row' = [row EXCEPT ![r.job] = r] /\ inflight' = PutTx(inflight, r)
  BY NothingToSpend DEF RecordRebroadcast
<1>2. Occupies(r.job) /\ row'[r.job].nonce = row[r.job].nonce
  BY <1>o, <1>1, <1>t DEF Occupies, Active
<1>3. /\ \A j \in Keys \ {r.job} : CachedFor(j)' = CachedFor(j)
      /\ CachedFor(r.job)' # {}
      /\ \A x, y \in inflight' : x.nonce = y.nonce => x = y
      /\ IsFiniteSet(inflight')
  BY <1>1, <1>2, <1>t, <1>o, OthersKept DEF LaneIInv
<1>4. \A j \in Keys \ {r.job} : row'[j] = row[j] /\ CachedFor(j)' = CachedFor(j)
  BY <1>1, <1>3, <1>t
<1>5. TurnInv' /\ LaneInv' /\ CapInv'
  BY <1>2, <1>3, <1>4, <1>t, <1>o, <1>u, LaneWrites
<1>6. ActiveRowsTracked'
  BY <1>3, <1>4, <1>u, JobsAssumption DEF LaneIInv, TrackInv, ActiveRowsTracked
<1> QED BY <1>5, <1>6, <1>o, <1>u DEF LaneIInv, TrackInv

LEMMA LaneCrash ==
    ASSUME IInv, IInv', LaneIInv, Crash
    PROVE  LaneIInv'
<1>1. /\ inflight' = {} /\ phase' = "down" /\ step' = "idle" /\ UNCHANGED <<alloc, row>>
  BY DEF Crash, storeVars
<1>2. \A j \in Keys : pc'[j] \notin InTurn
  BY DEF Crash, InTurn
<1>3. \A j \in Keys : Occupies(j)' => Occupies(j)
  BY <1>1 DEF Occupies, CachedFor
<1>4. TurnInv' /\ LaneInv' /\ CapInv'
  <2>1. \A j \in Keys :
              /\ Occupies(j)' => Occupies(j)
              /\ row'[j].nonce = row[j].nonce
              /\ pc'[j] \in InTurn => pc[j] \in InTurn /\ alloc'[j] = alloc[j]
              /\ pc'[j] \in InTurn \ {"estimating"} => pc[j] # "estimating"
              /\ pc'[j] = "reseed" => row'[j].status = "failed"
    BY <1>1, <1>2, <1>3 DEF InTurn
  <2>2. /\ \A y, z \in inflight' : y.nonce = z.nonce => y = z
        /\ IsFiniteSet(inflight')
    BY <1>1, FS_EmptySet
  <2> QED BY <2>1, <2>2, <1>1, LaneShrinks DEF LaneIInv
<1> QED BY <1>1, <1>4 DEF LaneIInv, TrackInv, ActiveRowsTracked

LEMMA LaneInductive ==
    ASSUME IInv, LaneIInv, OwnJobsOnly, faults["store"] = 0, [Next]_vars
    PROVE  LaneIInv'
<1>i. IInv'
  BY IInvStep
<1>c. cursor \in Nat
  BY DEF IInv, TypeOK
<1> USE LaneIdle
<1>1. CASE \E k \in Jobs : Submit(k) \/ LaneStep(k)
  BY <1>1, <1>i, LaneQuiet, LaneStarts, LaneWritesAhead, LaneFinishes DEF LaneStep
<1>2. CASE \E f \in Foreign : ForeignSend(f) \/ ReattachStore(f) \/ ReattachTrack(f)
  BY <1>2 DEF Foreign, OwnJobsOnly
<1>3. CASE PrimeNonce
  <2>1. \A n \in Nat : SeedNonce(cursor, n) >= cursor
    BY <1>c DEF SeedNonce
  <2>2. cursor' >= cursor
    BY <1>3, <2>1, PendingCountTypes DEF PrimeNonce, IInv, TypeOK
  <2> QED BY <1>3, <1>i, <2>2 DEF PrimeNonce, callVars, storeVars, tickVars
<1>4. CASE Crash
  BY <1>4, <1>i, LaneCrash
<1>5. CASE UNCHANGED vars \/ ChainStep
  <2>1. UNCHANGED accountVars
    BY <1>5 DEF vars, accountVars, ChainStep, ChainMines, ChainReverts, ChainGrows, ChainReorgs,
                ChainEvicts
  <2>2. UNCHANGED <<inflight, pc, alloc, row, cursor, phase, step, work>>
    BY <2>1 DEF accountVars, cacheVars, callVars, tickVars, storeVars, bootVars
  <2> QED BY <2>2, <1>i, <1>c
<1>6. CASE TickStart \/ TickEnd
  BY <1>6, <1>i, <1>c DEF TickStart, TickEnd, cacheVars, callVars, storeVars, bootVars
<1>7. ASSUME NEW r \in todo, PollStep(r) PROVE LaneIInv'
  <2>1. UNCHANGED <<inflight, pc, alloc, row, cursor, phase>>
    BY <1>7 DEF PollStep, PollReverted, PollSucceeded, PollConfirmed, PollMined, PollWaiting, PollGivesUp,
           PollReplaces, PollFails, Stuck, Polls, Measures, Looks, cacheVars, callVars, storeVars, bootVars
  <2>2. step' # "cache"
    BY <1>7 DEF PollStep, PollReverted, PollSucceeded, PollConfirmed, PollMined, PollWaiting, PollGivesUp,
           PollReplaces, PollFails, NextRecord, Advance
  <2> QED BY <2>1, <2>2, <1>i, <1>c
<1>8. ASSUME NEW w \in work, WorkStep(w) PROVE LaneIInv'
  <2>1. CASE ReplaceSend(w)
    BY <2>1, <1>i, <1>c DEF ReplaceSend, cacheVars, callVars, storeVars, bootVars
  <2>2. CASE TickStores(w) \/ TickDrops(w) \/ TickPuts(w)
    BY <2>2, <1>i, LaneTicks
  <2> QED BY <1>8, <2>1, <2>2 DEF WorkStep
<1>9. CASE BootStep
  <2>1. ASSUME NEW r \in outbox, Rebroadcast(r) PROVE LaneIInv'
    BY <2>1, <1>i, <1>c DEF Rebroadcast, cacheVars, callVars, tickVars, storeVars
  <2>2. CASE BootDone
    BY <2>2, <1>i, <1>c DEF BootDone, cacheVars, callVars, tickVars, storeVars
  <2> QED BY <1>9, <1>i, <2>1, <2>2, LaneRestored, LaneRebroadcasts DEF BootStep
<1> QED BY <1>1, <1>2, <1>3, <1>4, <1>5, <1>6, <1>7, <1>8, <1>9 DEF Next, TickStep

LEMMA LaneIInvInit == Init => LaneIInv
<1> SUFFICES ASSUME Init PROVE LaneIInv
  OBVIOUS
<1>1. \A k \in Keys : ~Occupies(k) /\ pc[k] \notin InTurn /\ pc[k] # "reseed"
  BY DEF Init, Occupies, CachedFor, NoRow, Active, InTurn
<1>2. TurnInv /\ LaneInv
  BY <1>1 DEF TurnInv, LaneInv, InTurn, Init
<1>3. TrackInv
  <2>1. step # "cache" /\ \A k \in Keys : row[k].status \notin Active
    BY DEF Init, NoRow, Active
  <2> QED BY <2>1, JobsAssumption DEF TrackInv, ActiveRowsTracked
<1>4. Claimed = {} /\ inflight = {}
  BY <1>1 DEF Claimed, Init
<1> QED BY <1>2, <1>3, <1>4, FS_EmptySet, LimitAssumption DEF CapInv, LaneIInv

(* The invariant of the lane, of the in-flight set and of the cap: every   *)
(* nonce in use has one job, one turn at a time is past all of them, and   *)
(* what is tracked is what is live.                                        *)
THEOREM LaneInvariants ==
    ASSUME OwnJobsOnly, NeverFaults("store")
    PROVE  Spec => [](IInv /\ LaneIInv)
<1> DEFINE J == IInv /\ LaneIInv /\ faults["store"] = 0
<1>0. "store" \in FaultKinds
  BY DEF FaultKinds
<1>1. Init => J
  BY <1>0, IInvInit, LaneIInvInit, NoFaultInit
<1>2. J /\ [Next]_vars => J'
  BY <1>0, IInvStep, LaneInductive, NoFaultStep DEF IInv
<1>3. J => IInv /\ LaneIInv
  OBVIOUS
<1> HIDE DEF J
<1>4. Spec => []J
  BY <1>1, <1>2, PTL DEF Spec
<1> QED BY <1>3, <1>4, PTL

(* Two live jobs never share a nonce, whatever fails, is lost or crashes   *)
(* between a turn and its record, as long as the stores work.              *)
THEOREM LiveNoncesDistinct ==
    ASSUME OwnJobsOnly, NeverFaults("store") PROVE Spec => []ActiveNoncesDistinct
<1>1. IInv /\ LaneIInv => ActiveNoncesDistinct
  <2>1. \A k \in Keys : row[k].status \in Active => Occupies(k)
    BY DEF Occupies
  <2> QED BY <2>1 DEF LaneIInv, LaneInv, ActiveNoncesDistinct, ActiveRows
<1> QED BY <1>1, LaneInvariants, PTL

(* No live job is forgotten: an active row is in the in-flight set the     *)
(* tick works from, also after a restart.                                  *)
THEOREM LiveRowsTracked ==
    ASSUME OwnJobsOnly, NeverFaults("store") PROVE Spec => []ActiveRowsTracked
<1>1. IInv /\ LaneIInv => ActiveRowsTracked
  BY DEF LaneIInv, TrackInv
<1> QED BY <1>1, LaneInvariants, PTL

(* The in-flight set never outgrows maxInflight, across turns that check   *)
(* the cap before they are tracked, ticks that re-put, and restarts.       *)
THEOREM CapHolds ==
    ASSUME OwnJobsOnly, NeverFaults("store") PROVE Spec => []CapRespected
<1>1. IInv /\ LaneIInv => CapRespected
  <2> SUFFICES ASSUME IInv, LaneIInv PROVE Cardinality(inflight) <= MaxInflight
    BY DEF CapRespected
  <2> DEFINE f == [r \in inflight |-> r.job]
  <2>1. \A r \in inflight : r.job \in Claimed
    BY Holders DEF Claimed
  <2>2. \A x, y \in inflight : x.job = y.job => x = y
    BY Holders DEF LaneIInv, LaneInv
  <2>3. f \in [inflight -> Claimed] /\ \A x, y \in inflight : f[x] = f[y] => x = y
    BY <2>1, <2>2
  <2> HIDE DEF f
  <2>4. IsFiniteSet(inflight) /\ Cardinality(inflight) <= Cardinality(Claimed)
    BY <2>3, InjectionBound DEF LaneIInv, CapInv
  <2>5. Cardinality(inflight) \in Nat /\ Cardinality(Claimed) \in Nat
    BY <2>4, FS_CardinalityType DEF LaneIInv, CapInv
  <2> QED BY <2>4, <2>5, LimitAssumption DEF LaneIInv, CapInv
<1> QED BY <1>1, LaneInvariants, PTL

----------------------------------------------------------------------------
(* No gaps.  First, what a step does to the chain's side, to a row, to a   *)
(* turn and to the record the tick writes.                                 *)

\* A reorg takes back the block of the account's last transaction.
OrphansTx(m) ==
    m.tx.nonce + 1 = next /\ network' = network \cup {m.tx} /\ next' = m.tx.nonce

LEMMA NodeStep ==
    ASSUME [Next]_vars
    PROVE  \/ network \subseteq network' /\ UNCHANGED next
           \/ \E u \in network, ok \in BOOLEAN : Mine(u, ok)
           \/ \E m \in mined : OrphansTx(m)
           \/ ChainEvicts
<1>1. CASE \E k \in Jobs : Submit(k) \/ LaneStep(k)
  BY <1>1 DEF Submit, LaneStep, TurnRefused, TurnStart, NextTurn, EstimateFails, WriteAhead, Send,
         RecordFailure, Reseed, RecordBroadcast, FinishTurn, nodeVars
<1>2. CASE \E f \in Foreign : ForeignSend(f) \/ ReattachStore(f) \/ ReattachTrack(f)
  BY <1>2 DEF ForeignSend, ReattachStore, ReattachTrack, nodeVars
<1>3. CASE PrimeNonce \/ Crash \/ TickStart \/ TickEnd \/ UNCHANGED vars
  BY <1>3 DEF PrimeNonce, Crash, TickStart, TickEnd, vars, nodeVars
<1>4. ASSUME NEW r \in todo, PollStep(r) PROVE network' = network /\ next' = next
  BY <1>4 DEF PollStep, PollReverted, PollSucceeded, PollConfirmed, PollMined, PollWaiting, PollGivesUp,
         PollReplaces, PollFails, Stuck, Polls, Measures, Looks, nodeVars
<1>5. ASSUME NEW w \in work, WorkStep(w) PROVE network \subseteq network' /\ next' = next
  BY <1>5 DEF WorkStep, ReplaceSend, TickStores, TickDrops, TickPuts, nodeVars
<1>6. CASE BootStep
  BY <1>6 DEF BootStep, Restore, BootDone, Rebroadcast, RecordRebroadcast, nodeVars
<1>7. CASE ChainStep
  BY <1>7 DEF ChainStep, ChainMines, ChainReverts, ChainGrows, ChainReorgs, EmptyBlock, Reorg, OrphansTx
<1> QED BY <1>1, <1>2, <1>3, <1>4, <1>5, <1>6, <1>7 DEF Next, TickStep

\* As long as mempools forget nothing, what is out there stays: a mined nonce
\* is below `next`, and an orphaned one is gossiped again.
LEMMA OutThereStays ==
    ASSUME IInv, faults["evict"] = 0, [Next]_vars, NEW n \in Nat, OutThere(n)
    PROVE  OutThere(n)'
<1>t. next \in Nat /\ (\A u \in network : u.nonce \in Nat) /\ (\A m \in mined : m.tx.nonce \in Nat)
  BY DEF IInv, TypeOK, NodeTypeOK, Receipt, Tx
<1>1. ~ChainEvicts
  BY NothingToSpend DEF ChainEvicts
<1>2. CASE network \subseteq network' /\ UNCHANGED next
  BY <1>2 DEF OutThere, Versions
<1>3. ASSUME NEW u \in network, NEW ok \in BOOLEAN, Mine(u, ok) PROVE OutThere(n)'
  <2>1. network' = network \ Versions(next) /\ next' = next + 1
    BY <1>3 DEF Mine
  <2>2. CASE n <= next
    BY <2>1, <2>2, <1>t DEF OutThere
  <2>3. CASE n > next
    BY <2>1, <2>3, <1>t DEF OutThere, Versions
  <2> QED BY <2>2, <2>3, <1>t
<1>4. ASSUME NEW m \in mined, OrphansTx(m) PROVE OutThere(n)'
  <2>1. network' = network \cup {m.tx} /\ next' = m.tx.nonce /\ m.tx.nonce + 1 = next
    BY <1>4 DEF OrphansTx
  <2>2. CASE n = m.tx.nonce
    BY <2>1, <2>2 DEF OutThere, Versions
  <2>3. CASE n # m.tx.nonce
    BY <2>1, <2>3, <1>t DEF OutThere, Versions
  <2> QED BY <2>2, <2>3
<1> QED BY <1>1, <1>2, <1>3, <1>4, NodeStep

LEMMA AttemptFields ==
    /\ \A k \in Keys, n \in Nat : NewRecord(k, n).attempts = 1
    /\ \A r \in Rec : /\ Live(r).attempts = r.attempts
                      /\ \A s : Settled(r, s).attempts = r.attempts
<1>1. \A k \in Keys, n \in Nat : NewRecord(k, n).attempts = 1
  BY DEF NewRecord
<1>2. \A r \in Rec : Live(r).attempts = r.attempts
  BY DEF Live, Rec
<1>3. \A r \in Rec : \A s : Settled(r, s).attempts = r.attempts
  BY DEF Settled, Rec
<1> QED BY <1>1, <1>2, <1>3

\* Who writes a row, and what.
LEMMA RowStep ==
    ASSUME IInv, OwnJobsOnly, faults["store"] = 0, [Next]_vars, NEW k \in Keys
    PROVE  \/ row'[k] = row[k]
           \/ /\ row'[k] = NewRecord(k, alloc[k])
              /\ pc[k] = "estimating" /\ pc'[k] = "ahead" /\ UNCHANGED alloc
           \/ /\ row'[k] \in {Live(row[k]), Settled(row[k], "failed")}
              /\ pc[k] \in {"drift", "error", "sent"}
           \/ \E w \in work : step = "store" /\ w.job = k /\ row'[k] = w /\ UNCHANGED pc
           \/ \E r \in outbox : r.job = k /\ row'[k] = r /\ UNCHANGED pc
<1>t. /\ row \in [Keys -> Rec] /\ pc \in [Keys -> PcStates] /\ Jobs = Keys
      /\ \A r \in outbox \cup work : r.job \in Keys
  BY DEF IInv, TypeOK, Rec, OwnJobsOnly
<1>s. ~Spend("store")
  BY NothingToSpend
<1>1. ASSUME NEW j \in Jobs, Submit(j) \/ LaneStep(j)
      PROVE  \/ row'[k] = row[k]
             \/ /\ row'[k] = NewRecord(k, alloc[k])
                /\ pc[k] = "estimating" /\ pc'[k] = "ahead" /\ UNCHANGED alloc
             \/ /\ row'[k] \in {Live(row[k]), Settled(row[k], "failed")}
                /\ pc[k] \in {"drift", "error", "sent"}
  <2>1. CASE WriteAhead(j)
    BY <2>1, <1>t, <1>s DEF WriteAhead, MovePc
  <2>2. CASE RecordFailure(j)
    BY <2>2, <1>t, <1>s DEF RecordFailure
  <2>3. CASE RecordBroadcast(j)
    BY <2>3, <1>t, <1>s DEF RecordBroadcast
  <2>4. CASE ~WriteAhead(j) /\ ~RecordFailure(j) /\ ~RecordBroadcast(j)
    BY <2>4, <1>1 DEF Submit, LaneStep, TurnRefused, TurnStart, NextTurn, EstimateFails, Send,
         Reseed, FinishTurn, storeVars
  <2> QED BY <2>1, <2>2, <2>3, <2>4
<1>2. CASE \E f \in Foreign : ForeignSend(f) \/ ReattachStore(f) \/ ReattachTrack(f)
  BY <1>2, <1>t DEF Foreign
<1>3. CASE PrimeNonce \/ Crash \/ TickStart \/ TickEnd \/ ChainStep \/ UNCHANGED vars
  BY <1>3 DEF PrimeNonce, Crash, TickStart, TickEnd, vars, storeVars, ChainStep, ChainMines,
     ChainReverts, ChainGrows, ChainReorgs, ChainEvicts, accountVars
<1>4. ASSUME NEW r \in todo, PollStep(r) PROVE row' = row
  BY <1>4 DEF PollStep, PollReverted, PollSucceeded, PollConfirmed, PollMined, PollWaiting, PollGivesUp,
         PollReplaces, PollFails, Stuck, Polls, Measures, Looks, storeVars
<1>5. ASSUME NEW w \in work, WorkStep(w)
      PROVE  row'[k] = row[k] \/ (step = "store" /\ w.job = k /\ row'[k] = w /\ UNCHANGED pc)
  <2>1. CASE row' = row
    BY <2>1
  <2>2. CASE row' = [row EXCEPT ![w.job] = w] /\ TickStores(w)
    <3>1. step = "store" /\ UNCHANGED pc
      BY <2>2 DEF TickStores, callVars
    <3> QED BY <3>1, <2>2, <1>t
  <2> QED BY <1>5, <2>1, <2>2 DEF WorkStep, ReplaceSend, TickStores, TickDrops, TickPuts, storeVars
<1>6. CASE BootStep
  <2>1. ASSUME NEW r \in outbox, RecordRebroadcast(r)
        PROVE  row'[k] = row[k] \/ (r.job = k /\ row'[k] = r /\ UNCHANGED pc)
    <3>1. UNCHANGED pc /\ row' = [row EXCEPT ![r.job] = r]
      BY <2>1, <1>s DEF RecordRebroadcast, callVars
    <3> QED BY <3>1, <1>t
  <2>2. CASE ~\E r \in outbox : RecordRebroadcast(r)
    BY <2>2, <1>6 DEF BootStep, Restore, BootDone, Rebroadcast, storeVars
  <2> QED BY <2>1, <2>2
<1> QED BY <1>1, <1>2, <1>3, <1>4, <1>5, <1>6 DEF Next, TickStep

\* A turn goes on with the nonce it has, or begins with the cursor's; it ends
\* in drift on a nonce the node knows.
LEMMA TurnStep ==
    ASSUME IInv, OwnJobsOnly, [Next]_vars, NEW k \in Keys, pc'[k] \in InTurn
    PROVE  /\ \/ pc[k] \in InTurn /\ alloc'[k] = alloc[k]
              \/ pc[k] = "queued" /\ pc'[k] = "estimating" /\ alloc'[k] = cursor
           /\ pc'[k] \in {"drift", "reseed"} =>
                \/ pc[k] \in {"drift", "reseed"}
                \/ pc[k] = "ahead" /\ Drifts(SignedTx(row[k])) /\ UNCHANGED nodeVars
<1>t. pc \in [Keys -> PcStates] /\ alloc \in [Keys -> Nat] /\ Jobs = Keys
  BY DEF IInv, TypeOK, OwnJobsOnly
<1>0. CASE UNCHANGED <<pc, alloc>>
  BY <1>0
<1>1. ASSUME NEW j \in Jobs, Submit(j) \/ LaneStep(j), j = k
      PROVE  /\ \/ pc[k] \in InTurn /\ alloc'[k] = alloc[k]
                \/ pc[k] = "queued" /\ pc'[k] = "estimating" /\ alloc'[k] = cursor
             /\ pc'[k] \in {"drift", "reseed"} =>
                  \/ pc[k] \in {"drift", "reseed"}
                  \/ pc[k] = "ahead" /\ Drifts(SignedTx(row[k])) /\ UNCHANGED nodeVars
  <2> USE <1>1, <1>t DEF InTurn, MovePc
  <2>1. CASE Submit(k) \/ TurnRefused(k) \/ EstimateFails(k) \/ Reseed(k) \/ FinishTurn(k)
    BY <2>1 DEF Submit, TurnRefused, EstimateFails, Reseed, FinishTurn
  <2>2. CASE TurnStart(k)
    BY <2>2 DEF TurnStart, NextTurn
  <2>3. CASE WriteAhead(k) \/ RecordBroadcast(k)
    BY <2>3 DEF WriteAhead, RecordBroadcast
  <2>4. CASE Send(k)
    <3>1. pc[k] = "ahead" /\ alloc'[k] = alloc[k]
      BY <2>4 DEF Send
    <3>2. pc'[k] = "drift" => Drifts(SignedTx(row[k])) /\ UNCHANGED nodeVars
      BY <2>4 DEF Send, nodeVars
    <3>3. pc'[k] # "reseed"
      BY <2>4 DEF Send
    <3> QED BY <3>1, <3>2, <3>3
  <2>5. CASE RecordFailure(k)
    BY <2>5 DEF RecordFailure
  <2> QED BY <2>1, <2>2, <2>3, <2>4, <2>5 DEF LaneStep
<1>2. ASSUME NEW j \in Jobs, Submit(j) \/ LaneStep(j), j # k
      PROVE  pc'[k] = pc[k] /\ alloc'[k] = alloc[k]
  BY <1>2, <1>t DEF Submit, LaneStep, TurnRefused, TurnStart, NextTurn, EstimateFails, WriteAhead,
         Send, RecordFailure, Reseed, RecordBroadcast, FinishTurn, MovePc
<1>3. CASE \E f \in Foreign : ForeignSend(f) \/ ReattachStore(f) \/ ReattachTrack(f)
  BY <1>3, <1>t DEF Foreign
<1>4. ~Crash
  BY DEF Crash, InTurn
<1>5. CASE PrimeNonce \/ TickStart \/ TickEnd \/ ChainStep \/ UNCHANGED vars
  BY <1>0, <1>5 DEF PrimeNonce, TickStart, TickEnd, vars, callVars, ChainStep, ChainMines,
     ChainReverts, ChainGrows, ChainReorgs, ChainEvicts, accountVars
<1>6. ASSUME NEW r \in todo, PollStep(r) PROVE UNCHANGED <<pc, alloc>>
  BY <1>6 DEF PollStep, PollReverted, PollSucceeded, PollConfirmed, PollMined, PollWaiting, PollGivesUp,
         PollReplaces, PollFails, Stuck, Polls, Measures, Looks, callVars
<1>7. ASSUME NEW w \in work, WorkStep(w) PROVE UNCHANGED <<pc, alloc>>
  BY <1>7 DEF WorkStep, ReplaceSend, TickStores, TickDrops, TickPuts, callVars
<1>8. CASE BootStep
  BY <1>0, <1>8 DEF BootStep, Restore, BootDone, Rebroadcast, RecordRebroadcast, callVars
<1> QED BY <1>0, <1>1, <1>2, <1>3, <1>4, <1>5, <1>6, <1>7, <1>8 DEF Next, TickStep

\* A receipt of the record is in the chain or in the tick's hands.
Polled(r) == \E m \in mined \cup seen : m.tx = HashTx(r)

\* The receipt in the tick's hands was in the chain.
LEMMA SeenWritten ==
    ASSUME IInv, [Next]_vars
    PROVE  seen' \subseteq seen \cup mined
<1>1. ASSUME NEW r \in todo, PollStep(r) PROVE seen' \subseteq seen \cup mined
  BY <1>1 DEF PollStep, PollReverted, PollSucceeded, PollConfirmed, PollMined, PollWaiting, PollGivesUp,
         PollReplaces, PollFails, Stuck, NextRecord, Advance, Receipts
<1>2. ASSUME NEW w \in work, WorkStep(w) PROVE seen' = seen
  BY <1>2 DEF WorkStep, ReplaceSend, TickStores, TickDrops, TickPuts
<1>3. CASE TickStart \/ TickEnd \/ Crash \/ PrimeNonce \/ ChainStep \/ UNCHANGED vars
  BY <1>3 DEF TickStart, TickEnd, Crash, PrimeNonce, vars, tickVars, ChainStep, ChainMines,
     ChainReverts, ChainGrows, ChainReorgs, ChainEvicts, accountVars
<1>4. CASE \E k \in Jobs : Submit(k) \/ LaneStep(k)
  BY <1>4 DEF Submit, LaneStep, TurnRefused, TurnStart, NextTurn, EstimateFails, WriteAhead,
         Send, RecordFailure, Reseed, RecordBroadcast, FinishTurn, tickVars
<1>5. CASE \E f \in Foreign : ForeignSend(f) \/ ReattachStore(f) \/ ReattachTrack(f)
  BY <1>5 DEF ForeignSend, ReattachStore, ReattachTrack, tickVars
<1>6. CASE BootStep
  BY <1>6 DEF BootStep, Restore, BootDone, Rebroadcast, RecordRebroadcast, tickVars
<1> QED BY <1>1, <1>2, <1>3, <1>4, <1>5, <1>6 DEF Next, TickStep

\* Where the record comes from that the tick is about to store.
LEMMA WorkWritten ==
    ASSUME IInv, [Next]_vars, step' \in {"store", "cache"}, NEW w \in work'
    PROVE  \/ w \in work /\ step \in {"store", "cache"}
           \/ w \in work /\ SignedTx(w) \in network'
           \/ \E r \in todo :
                 /\ w.nonce = r.nonce
                 /\ Polled(r) \/ r.attempts >= MaxAttempts
                 /\ w \in {Settled(r, "reverted"), Settled(r, "confirmed"), Settled(r, "failed"),
                           Mined(r)}
                 /\ UNCHANGED nodeVars
<1>0. CASE UNCHANGED tickVars
  BY <1>0 DEF tickVars
<1>1. ASSUME NEW r \in todo, PollStep(r)
      PROVE  /\ w.nonce = r.nonce
             /\ Polled(r) \/ r.attempts >= MaxAttempts
             /\ w \in {Settled(r, "reverted"), Settled(r, "confirmed"), Settled(r, "failed"),
                       Mined(r)}
             /\ UNCHANGED nodeVars
  <2>1. UNCHANGED nodeVars
    BY <1>1 DEF PollStep, PollReverted, PollSucceeded, PollConfirmed, PollMined, PollWaiting, PollGivesUp,
         PollReplaces, PollFails, Stuck, Polls, Measures, Looks
  <2>2. /\ Polled(r) \/ r.attempts >= MaxAttempts
        /\ w \in {Settled(r, "reverted"), Settled(r, "confirmed"), Settled(r, "failed"), Mined(r)}
    BY <1>1 DEF PollStep, PollReverted, PollSucceeded, PollConfirmed, PollMined, PollWaiting, PollGivesUp,
         PollReplaces, PollFails, NextRecord, Advance, Polls, Measures, InHand, Receipts, Polled, Stuck
  <2>3. r \in Rec
    BY DEF IInv, TypeOK
  <2> QED BY <2>1, <2>2, <2>3, SettledFields, MinedFields
<1>2. ASSUME NEW v \in work, WorkStep(v)
      PROVE  w \in work /\ (step \in {"store", "cache"} \/ SignedTx(w) \in network')
  <2>1. CASE ReplaceSend(v)
    <3>1. work' = work /\ SignedTx(v) \in network'
      BY <2>1 DEF ReplaceSend
    <3> QED BY <3>1 DEF IInv, StepInv
  <2>2. CASE TickStores(v)
    BY <2>2 DEF TickStores
  <2>3. CASE TickDrops(v) \/ TickPuts(v)
    BY <2>3 DEF TickDrops, TickPuts
  <2> QED BY <1>2, <2>1, <2>2, <2>3 DEF WorkStep
<1>3. CASE TickStart \/ TickEnd \/ Crash
  BY <1>3 DEF TickStart, TickEnd, Crash
<1>4. CASE \E k \in Jobs : Submit(k) \/ LaneStep(k)
  BY <1>0, <1>4 DEF Submit, LaneStep, TurnRefused, TurnStart, NextTurn, EstimateFails, WriteAhead,
         Send, RecordFailure, Reseed, RecordBroadcast, FinishTurn
<1>5. CASE \E f \in Foreign : ForeignSend(f) \/ ReattachStore(f) \/ ReattachTrack(f)
  BY <1>0, <1>5 DEF ForeignSend, ReattachStore, ReattachTrack
<1>6. CASE PrimeNonce \/ ChainStep \/ UNCHANGED vars
  BY <1>0, <1>6 DEF PrimeNonce, vars, tickVars, ChainStep, ChainMines, ChainReverts, ChainGrows,
     ChainReorgs, ChainEvicts, accountVars
<1>7. CASE BootStep
  BY <1>0, <1>7 DEF BootStep, Restore, BootDone, Rebroadcast, RecordRebroadcast
<1> QED BY <1>1, <1>2, <1>3, <1>4, <1>5, <1>6, <1>7 DEF Next, TickStep

\* What a restart carries to its rebroadcast has the attempts of its row.
LEMMA OutboxWritten ==
    ASSUME IInv, [Next]_vars, NEW r \in outbox'
    PROVE  \/ \E o \in outbox : o.nonce = r.nonce /\ o.attempts = r.attempts
           \/ \E k \in Keys : row[k] = r /\ UNCHANGED row
<1>0. CASE UNCHANGED outbox
  BY <1>0
<1>1. CASE \E k \in Jobs : Submit(k) \/ LaneStep(k)
  BY <1>0, <1>1 DEF Submit, LaneStep, TurnRefused, TurnStart, NextTurn, EstimateFails, WriteAhead,
         Send, RecordFailure, Reseed, RecordBroadcast, FinishTurn, bootVars
<1>2. CASE \E f \in Foreign : ForeignSend(f) \/ ReattachStore(f) \/ ReattachTrack(f)
  BY <1>0, <1>2 DEF ForeignSend, ReattachStore, ReattachTrack, bootVars
<1>3. CASE PrimeNonce \/ TickStart \/ TickEnd \/ ChainStep \/ UNCHANGED vars
  BY <1>0, <1>3 DEF PrimeNonce, TickStart, TickEnd, vars, bootVars, ChainStep, ChainMines,
     ChainReverts, ChainGrows, ChainReorgs, ChainEvicts, accountVars
<1>4. ASSUME NEW x \in todo, PollStep(x) PROVE UNCHANGED outbox
  BY <1>4 DEF PollStep, PollReverted, PollSucceeded, PollConfirmed, PollMined, PollWaiting, PollGivesUp,
         PollReplaces, PollFails, Stuck, Polls, Measures, Looks, bootVars
<1>5. ASSUME NEW w \in work, WorkStep(w) PROVE UNCHANGED outbox
  BY <1>5 DEF WorkStep, ReplaceSend, TickStores, TickDrops, TickPuts, bootVars
<1>6. ~Crash
  BY DEF Crash
<1>7. CASE Restore \/ BootDone
  BY <1>0, <1>7 DEF Restore, BootDone, storeVars, ActiveRows
<1>8. ASSUME NEW o \in outbox, Rebroadcast(o) \/ RecordRebroadcast(o)
      PROVE  \E x \in outbox : x.nonce = r.nonce /\ x.attempts = r.attempts
  <2>1. o \in Rec
    BY DEF IInv, TypeOK
  <2>2. r \in outbox \/ r \in {Live(o), [o EXCEPT !.status = "broadcast"]}
    BY <1>8 DEF Rebroadcast, RecordRebroadcast, DriftLanded
  <2>3. \A x \in {Live(o), [o EXCEPT !.status = "broadcast"]} :
            x.nonce = o.nonce /\ x.attempts = o.attempts
    BY <2>1, LiveFields, AttemptFields DEF Rec
  <2> QED BY <2>2, <2>3
<1> QED BY <1>0, <1>1, <1>2, <1>3, <1>4, <1>5, <1>6, <1>7, <1>8 DEF Next, TickStep, BootStep

----------------------------------------------------------------------------
LEMMA SentStep ==
    ASSUME IInv, LaneIInv, SentInv, OwnJobsOnly, MaxAttempts > 1,
           faults["store"] = 0, faults["evict"] = 0, [Next]_vars
    PROVE  SentInv'
<1>i. IInv'
  BY IInvStep
<1>t. /\ row \in [Keys -> Rec] /\ alloc \in [Keys -> Nat]
      /\ \A r \in todo \cup work \cup outbox : r \in Rec /\ r.nonce \in Nat /\ r.job \in Keys
      /\ \A k \in Keys : row[k] \in Rec /\ row[k].nonce \in Nat
      /\ \A m \in mined : m.tx.nonce \in Nat
  BY DEF IInv, TypeOK, NodeTypeOK, Receipt, Rec, Tx
<1>o. \A n \in Nat : OutThere(n) => OutThere(n)'
  BY OutThereStays
<1>m. \A m \in mined \cup seen : OutThere(m.tx.nonce)
  BY DEF IInv, ChainInv, SentInv, OutThere
<1>1. ASSUME NEW k \in Keys, row'[k].attempts > 1, NEW n \in Nat, n = row'[k].nonce
      PROVE  OutThere(n)'
  <2>1. CASE row'[k] = row[k]
    BY <2>1, <1>1, <1>t, <1>o DEF SentInv
  <2>2. row'[k] # NewRecord(k, alloc[k])
    BY <1>1, <1>t, AttemptFields
  <2>3. CASE row'[k] \in {Live(row[k]), Settled(row[k], "failed")}
    <3>1. row'[k].nonce = row[k].nonce /\ row'[k].attempts = row[k].attempts
      BY <2>3, <1>t, LiveFields, SettledFields, AttemptFields
    <3> QED BY <3>1, <1>1, <1>t, <1>o DEF SentInv
  <2>4. ASSUME NEW w \in work, step = "store", row'[k] = w PROVE OutThere(n)'
    BY <2>4, <1>1, <1>t, <1>o DEF SentInv
  <2>5. ASSUME NEW r \in outbox, row'[k] = r PROVE OutThere(n)'
    BY <2>5, <1>1, <1>t, <1>o DEF SentInv
  <2> QED BY <2>1, <2>2, <2>3, <2>4, <2>5, RowStep
<1>2. ASSUME NEW r \in outbox', r.attempts > 1 PROVE OutThere(r.nonce)'
  BY <1>2, <1>t, <1>o, OutboxWritten DEF SentInv
<1>3. ASSUME step' \in {"store", "cache"}, NEW w \in work',
             w.attempts > 1 \/ w.status \in Terminal
      PROVE  OutThere(w.nonce)'
  <2>1. CASE w \in work /\ step \in {"store", "cache"}
    BY <2>1, <1>3, <1>t, <1>o DEF SentInv
  <2>2. CASE w \in work /\ SignedTx(w) \in network'
    BY <2>2 DEF OutThere, Versions, SignedTx
  <2>3. ASSUME NEW r \in todo, w.nonce = r.nonce,
               Polled(r) \/ r.attempts >= MaxAttempts
        PROVE  OutThere(w.nonce)'
    <3>1. CASE Polled(r)
      <4>1. PICK m \in mined \cup seen : m.tx = HashTx(r)
        BY <3>1 DEF Polled
      <4>2. m.tx.nonce = r.nonce
        BY <4>1 DEF HashTx
      <4> QED BY <4>1, <4>2, <2>3, <1>t, <1>o, <1>m
    <3>2. CASE r.attempts >= MaxAttempts
      <4>1. row[r.job] = r /\ r.attempts > 1
        BY <3>2, <1>t, LimitAssumption DEF IInv, HeldInv, Rec
      <4> QED BY <4>1, <2>3, <1>t, <1>o DEF SentInv
    <3> QED BY <2>3, <3>1, <3>2
  <2> QED BY <1>3, <2>1, <2>2, <2>3, WorkWritten
<1>4. ASSUME NEW k \in Keys, pc'[k] \in {"drift", "reseed"} PROVE OutThere(alloc[k])'
  <2>1. alloc'[k] = alloc[k]
    BY <1>4, TurnStep DEF InTurn
  <2>2. OutThere(alloc[k])
    <3>1. CASE pc[k] \in {"drift", "reseed"}
      BY <3>1 DEF SentInv
    <3>2. CASE pc[k] = "ahead" /\ Drifts(SignedTx(row[k]))
      <4>1. row[k].nonce = alloc[k]
        BY <3>2 DEF LaneIInv, TurnInv, InTurn
      <4> QED BY <3>2, <4>1 DEF Drifts, SignedTx, OutThere
    <3> QED BY <1>4, <3>1, <3>2, TurnStep DEF InTurn
  <2>3. \A n \in Nat : n = alloc[k] => OutThere(n)'
    BY <2>2, <1>o
  <2> QED BY <2>1, <2>3, <1>t DEF OutThere, Versions
<1>5. \A k \in Keys : row'[k].attempts > 1 => OutThere(row[k].nonce)'
  <2>1. \A k \in Keys : row'[k].nonce \in Nat
    BY <1>i DEF IInv, TypeOK, Rec
  <2> QED BY <1>1, <2>1 DEF OutThere, Versions
<1>6. ASSUME NEW m \in seen' PROVE OutThere(m.tx.nonce)'
  <2>1. m \in seen \cup mined /\ m.tx.nonce \in Nat
    BY <1>6, SeenWritten DEF IInv, TypeOK, NodeTypeOK, Receipt, Tx
  <2>2. \A n \in Nat : n = m.tx.nonce => OutThere(n)'
    BY <2>1, <1>m, <1>o
  <2> QED BY <2>1, <2>2 DEF OutThere, Versions
<1> QED BY <1>2, <1>3, <1>4, <1>5, <1>6 DEF SentInv

LEMMA AccountedStays ==
    ASSUME IInv, LaneIInv, SentInv, OwnJobsOnly,
           faults["store"] = 0, faults["evict"] = 0, [Next]_vars,
           NEW n \in Nat, Accounted(n)
    PROVE  Accounted(n)'
<1>1. CASE OutThere(n)
  BY <1>1, OutThereStays DEF Accounted
<1>2. ASSUME NEW k \in Keys, row[k].status \in Active, pc[k] \notin InTurn, row[k].nonce = n
      PROVE  Accounted(n)'
  <2>1. pc[k] # "queued" /\ pc[k] # "estimating"
    BY <1>2 DEF IInv, RowInv, Active, InTurn
  <2>2. pc'[k] \notin InTurn
    BY <1>2, <2>1, TurnStep
  <2>3. CASE row'[k] = row[k]
    BY <1>2, <2>2, <2>3 DEF Accounted
  <2>4. ASSUME NEW w \in work, step = "store", w.job = k, row'[k] = w PROVE Accounted(n)'
    <3>1. w.nonce = n /\ w.status \in Active \cup Terminal
      BY <2>4, <1>2 DEF IInv, WorkInv, Active
    <3>2. CASE w.status \in Active
      BY <2>2, <2>4, <3>1, <3>2 DEF Accounted
    <3>3. CASE w.status \in Terminal
      BY <2>4, <3>1, <3>3, OutThereStays DEF SentInv, Accounted
    <3> QED BY <3>1, <3>2, <3>3
  <2>5. ASSUME NEW r \in outbox, r.job = k, row'[k] = r PROVE Accounted(n)'
    <3>1. r.nonce = n /\ r.status \in Active
      BY <2>5, <1>2 DEF IInv, OutboxInv, Active
    <3> QED BY <2>2, <2>5, <3>1 DEF Accounted
  <2> QED BY <1>2, <2>1, <2>3, <2>4, <2>5, RowStep DEF InTurn
<1> QED BY <1>1, <1>2 DEF Accounted

LEMMA CountIsReached ==
    ASSUME IInv, NEW c \in PendingCounts, NEW n \in Nat, n < c
    PROVE  OutThere(n)
<1>1. c \in Nat /\ next \in Nat
  BY PendingCountTypes DEF IInv, TypeOK, NodeTypeOK
<1>2. n >= next => n \in next .. (c - 1)
  BY <1>1
<1> QED BY <1>1, <1>2 DEF PendingCounts, OutThere

\* How far a step moves the cursor: only to a nonce below which the step's
\* own turn, the node or the rows account for everything.
LEMMA CursorStep ==
    ASSUME IInv, LaneIInv, SentInv, BelowInv, OwnJobsOnly, [Next]_vars, NEW n \in Nat, n < cursor'
    PROVE  \/ Accounted(n)
           \/ \E k \in Keys : n = alloc[k] /\ FinishTurn(k)
<1>t. /\ cursor \in Nat /\ savedCursor \in Nat /\ alloc \in [Keys -> Nat] /\ Jobs = Keys
      /\ \A k \in Keys : row[k].nonce \in Nat
  BY DEF IInv, TypeOK, Rec, OwnJobsOnly
<1>0. CASE cursor' = cursor
  BY <1>0 DEF BelowInv
<1>s. \A c, m \in Nat : n < SeedNonce(c, m) => n < c \/ n < m
  BY DEF SeedNonce
<1>1. ASSUME NEW k \in Jobs, Submit(k) \/ LaneStep(k), cursor' # cursor
      PROVE  Accounted(n) \/ (n = alloc[k] /\ FinishTurn(k))
  <2>1. CASE Reseed(k)
    <3>1. n < cursor \/ n < alloc[k] + 1 \/ \E c \in PendingCounts : n < c
      <4>1. PendingCounts \subseteq Nat /\ alloc[k] + 1 \in Nat
        BY <1>t, PendingCountTypes DEF IInv, TypeOK
      <4>2. \A c \in PendingCounts : SeedNonce(c, alloc[k] + 1) \in Nat
        BY <4>1, SeedTypes
      <4> QED BY <2>1, <1>t, <1>s, <4>1, <4>2 DEF Reseed
    <3>2. pc[k] \in InTurn /\ OutThere(alloc[k])
      BY <2>1, <1>t DEF Reseed, InTurn, SentInv
    <3>3. n < alloc[k] + 1 => n < alloc[k] \/ n = alloc[k]
      BY <1>t
    <3>4. \A c \in PendingCounts : n < c => OutThere(n)
      BY CountIsReached
    <3>5. n < cursor \/ n < alloc[k] => Accounted(n)
      BY <3>2, <1>t DEF BelowInv
    <3>6. OutThere(n) => Accounted(n)
      BY DEF Accounted
    <3>7. n = alloc[k] => OutThere(n)
      BY <3>2
    <3> QED BY <3>1, <3>3, <3>4, <3>5, <3>6, <3>7
  <2>2. CASE FinishTurn(k)
    <3>1. n < alloc[k] \/ n = alloc[k]
      BY <2>2, <1>t DEF FinishTurn
    <3>2. pc[k] \in InTurn
      BY <2>2 DEF FinishTurn, InTurn
    <3> QED BY <2>2, <3>1, <3>2, <1>t DEF BelowInv
  <2>3. CASE ~Reseed(k) /\ ~FinishTurn(k)
    BY <2>3, <1>1 DEF Submit, LaneStep, TurnRefused, TurnStart, NextTurn, EstimateFails, WriteAhead,
         Send, RecordFailure, RecordBroadcast, cacheVars
  <2> QED BY <2>1, <2>2, <2>3
<1>2. CASE \E f \in Foreign : ForeignSend(f) \/ ReattachStore(f) \/ ReattachTrack(f)
  BY <1>2, <1>t DEF Foreign
<1>3. CASE PrimeNonce
  <2>1. n < cursor \/ \E c \in PendingCounts : n < c
    BY <1>3, <1>t, <1>s, PendingCountTypes DEF PrimeNonce, IInv, TypeOK
  <2> QED BY <2>1, CountIsReached DEF BelowInv, Accounted
<1>4. ~Crash
  BY DEF Crash
<1>5. CASE TickStart \/ TickEnd \/ ChainStep \/ UNCHANGED vars
  BY <1>0, <1>5 DEF TickStart, TickEnd, vars, cacheVars, ChainStep, ChainMines,
     ChainReverts, ChainGrows, ChainReorgs, ChainEvicts, accountVars
<1>6. ASSUME NEW x \in todo, PollStep(x) PROVE cursor' = cursor
  BY <1>6 DEF PollStep, PollReverted, PollSucceeded, PollConfirmed, PollMined, PollWaiting, PollGivesUp,
         PollReplaces, PollFails, Stuck, Polls, Measures, Looks, cacheVars
<1>7. ASSUME NEW w \in work, WorkStep(w) PROVE cursor' = cursor
  BY <1>7 DEF WorkStep, ReplaceSend, TickStores, TickDrops, TickPuts, cacheVars
<1>8. CASE Restore
  <2>1. cursor' = savedCursor \/ \E k \in Keys : row[k].status \in Active /\ cursor' = row[k].nonce + 1
    BY <1>8 DEF Restore, SeededCursors, ActiveRows
  <2>2. ASSUME NEW k \in Keys, row[k].status \in Active, cursor' = row[k].nonce + 1
        PROVE  Accounted(n)
    <3>1. pc[k] \notin InTurn
      BY <1>8, Holders DEF Restore
    <3>2. n < row[k].nonce \/ n = row[k].nonce
      BY <2>2, <1>t
    <3> QED BY <2>2, <3>1, <3>2, <1>t DEF BelowInv, Accounted
  <2> QED BY <2>1, <2>2 DEF BelowInv
<1>9. CASE BootStep /\ ~Restore
  BY <1>0, <1>9 DEF BootStep, BootDone, Rebroadcast, RecordRebroadcast, cacheVars
<1> QED BY <1>0, <1>1, <1>2, <1>3, <1>4, <1>5, <1>6, <1>7, <1>8, <1>9, <1>t DEF Next, TickStep

LEMMA SavedStep ==
    ASSUME [Next]_vars
    PROVE  savedCursor' \in {savedCursor, cursor}
<1>1. CASE \E k \in Jobs : Submit(k) \/ LaneStep(k)
  BY <1>1 DEF Submit, LaneStep, TurnRefused, TurnStart, NextTurn, EstimateFails, WriteAhead, Send,
         RecordFailure, Reseed, RecordBroadcast, FinishTurn, storeVars
<1>2. CASE \E f \in Foreign : ForeignSend(f) \/ ReattachStore(f) \/ ReattachTrack(f)
  BY <1>2 DEF ForeignSend, ReattachStore, ReattachTrack, storeVars
<1>3. CASE PrimeNonce \/ Crash \/ TickStart \/ TickEnd \/ ChainStep \/ UNCHANGED vars
  BY <1>3 DEF PrimeNonce, Crash, TickStart, TickEnd, RefreshState, vars, storeVars, ChainStep, ChainMines,
     ChainReverts, ChainGrows, ChainReorgs, ChainEvicts, accountVars
<1>4. ASSUME NEW r \in todo, PollStep(r) PROVE savedCursor' = savedCursor
  BY <1>4 DEF PollStep, PollReverted, PollSucceeded, PollConfirmed, PollMined, PollWaiting, PollGivesUp,
         PollReplaces, PollFails, Stuck, Polls, Measures, Looks, storeVars
<1>5. ASSUME NEW w \in work, WorkStep(w) PROVE savedCursor' = savedCursor
  BY <1>5 DEF WorkStep, ReplaceSend, TickStores, TickDrops, TickPuts, storeVars
<1>6. CASE BootStep
  BY <1>6 DEF BootStep, Restore, BootDone, Rebroadcast, RecordRebroadcast, storeVars
<1> QED BY <1>1, <1>2, <1>3, <1>4, <1>5, <1>6 DEF Next, TickStep

LEMMA BelowStep ==
    ASSUME IInv, LaneIInv, SentInv, BelowInv, OwnJobsOnly,
           faults["store"] = 0, faults["evict"] = 0, [Next]_vars
    PROVE  BelowInv'
<1>t. /\ row \in [Keys -> Rec] /\ alloc \in [Keys -> Nat] /\ cursor \in Nat /\ Jobs = Keys
      /\ \A r \in work \cup outbox : r \in Rec /\ r.job \in Keys
      /\ \A k \in Keys : row[k] \in Rec /\ row[k].nonce \in Nat
  BY DEF IInv, TypeOK, Rec, OwnJobsOnly
<1>a. \A n \in Nat : Accounted(n) => Accounted(n)'
  BY AccountedStays
<1>1. ASSUME NEW n \in Nat, n < cursor' PROVE Accounted(n)'
  <2>1. ASSUME NEW k \in Keys, n = alloc[k], FinishTurn(k) PROVE Accounted(n)'
    <3>1. pc[k] = "stored" /\ pc[k] \in InTurn \ {"estimating"} /\ pc \in [Keys -> PcStates]
      BY <2>1 DEF FinishTurn, InTurn, IInv, TypeOK
    <3>2. row[k].nonce = alloc[k] /\ row[k].status \in Active
      BY <3>1 DEF LaneIInv, TurnInv, IInv, RowInv, Active
    <3>3. row'[k] = row[k] /\ pc'[k] = "resolved"
      BY <2>1, <3>1 DEF FinishTurn, MovePc, storeVars
    <3> QED BY <2>1, <3>2, <3>3 DEF Accounted, InTurn
  <2> QED BY <1>1, <1>a, <2>1, CursorStep
<1>2. ASSUME NEW n \in Nat, n < savedCursor' PROVE Accounted(n)'
  BY <1>2, <1>a, SavedStep DEF BelowInv
<1>3. ASSUME NEW k \in Keys, pc'[k] \in InTurn, NEW n \in Nat, n < alloc'[k] PROVE Accounted(n)'
  BY <1>3, <1>a, TurnStep DEF BelowInv
<1>4. ASSUME NEW k \in Keys, row'[k].status \in Active, NEW n \in Nat, n < row'[k].nonce
      PROVE  Accounted(n)'
  <2>1. CASE row[k].status \in Active /\ row'[k].nonce = row[k].nonce
    BY <2>1, <1>4, <1>a DEF BelowInv
  <2>2. CASE row'[k] = NewRecord(k, alloc[k]) /\ pc[k] = "estimating"
    <3>1. row'[k].nonce = alloc[k] /\ pc[k] \in InTurn
      BY <2>2, <1>t, NewFields DEF InTurn
    <3> QED BY <3>1, <1>4, <1>a DEF BelowInv
  <2>3. CASE /\ row'[k] \in {Live(row[k]), Settled(row[k], "failed")}
             /\ pc[k] \in {"drift", "error", "sent"}
    <3>1. row'[k].nonce = row[k].nonce
      BY <2>3, <1>t, SettledFields, LiveFields
    <3>2. row[k].status \in Active
      BY <2>3 DEF IInv, RowInv, Active
    <3> QED BY <2>1, <3>1, <3>2
  <2>4. ASSUME NEW w \in work, step = "store", w.job = k, row'[k] = w PROVE Accounted(n)'
    BY <2>1, <2>4 DEF IInv, WorkInv
  <2>5. ASSUME NEW r \in outbox, r.job = k, row'[k] = r PROVE Accounted(n)'
    BY <2>1, <2>5 DEF IInv, OutboxInv, Active
  <2> QED BY <1>4, <2>1, <2>2, <2>3, <2>4, <2>5, RowStep
<1> QED BY <1>1, <1>2, <1>3, <1>4 DEF BelowInv

LEMMA GapInit == Init => SentInv /\ BelowInv
<1> SUFFICES ASSUME Init PROVE SentInv /\ BelowInv
  OBVIOUS
<1>1. /\ \A k \in Keys : row[k].attempts = 0 /\ row[k].status \notin Active
      /\ \A k \in Keys : pc[k] = "idle"
      /\ outbox = {} /\ work = {} /\ seen = {} /\ cursor = 0 /\ savedCursor = 0
  BY DEF Init, NoRow, Active
<1>2. SentInv
  BY <1>1 DEF SentInv
<1>3. BelowInv
  BY <1>1 DEF BelowInv, InTurn
<1> QED BY <1>2, <1>3

(* Below the cursor, the saved cursor, the nonce of a turn and that of a   *)
(* live row, every nonce is used, gossiped or held by a record that the    *)
(* tick or a restart will send.  Mempools forget nothing here, and a       *)
(* record that was never sent is not given up.                             *)
THEOREM GapInvariants ==
    ASSUME OwnJobsOnly, NeverFaults("store"), NeverFaults("evict"), MaxAttempts > 1
    PROVE  Spec => [](IInv /\ LaneIInv /\ SentInv /\ BelowInv)
<1> DEFINE J == IInv /\ LaneIInv /\ SentInv /\ BelowInv /\ faults["store"] = 0 /\ faults["evict"] = 0
<1>0. "store" \in FaultKinds /\ "evict" \in FaultKinds
  BY DEF FaultKinds
<1>1. Init => J
  BY <1>0, IInvInit, LaneIInvInit, GapInit, NoFaultInit
<1>2. J /\ [Next]_vars => J'
  <2> SUFFICES ASSUME J, [Next]_vars PROVE J'
    OBVIOUS
  <2>1. IInv' /\ LaneIInv'
    BY IInvStep, LaneInductive
  <2>2. SentInv' /\ BelowInv'
    BY SentStep, BelowStep
  <2>3. faults'["store"] = 0 /\ faults'["evict"] = 0
    BY <1>0, NoFaultStep DEF IInv
  <2> QED BY <2>1, <2>2, <2>3
<1>3. J => IInv /\ LaneIInv /\ SentInv /\ BelowInv
  OBVIOUS
<1> HIDE DEF J
<1>4. Spec => []J
  BY <1>1, <1>2, PTL DEF Spec
<1> QED BY <1>3, <1>4, PTL

(* README.md: "correct, gap-free nonce per account".  Of what the chain    *)
(* still waits for below the cursor, nothing is missing.                   *)
THEOREM NoGaps ==
    ASSUME OwnJobsOnly, NeverFaults("store"), NeverFaults("evict"), MaxAttempts > 1
    PROVE  Spec => []GapFree
<1>1. IInv /\ LaneIInv /\ SentInv /\ BelowInv => GapFree
  <2> SUFFICES ASSUME IInv, LaneIInv, BelowInv, phase = "up", NEW n \in next .. (cursor - 1)
               PROVE  Versions(n) # {} \/ \E r \in inflight : r.nonce = n
    BY DEF GapFree
  <2>1. next \in Nat /\ cursor \in Nat /\ n \in Nat /\ n < cursor /\ ~(n < next)
    BY DEF IInv, TypeOK, NodeTypeOK
  <2>2. Accounted(n)
    BY <2>1 DEF BelowInv
  <2>3. ASSUME NEW k \in Keys, row[k].status \in Active, pc[k] \notin InTurn, row[k].nonce = n
        PROVE  \E r \in inflight : r.nonce = n
    <3>1. PICK r \in CachedFor(k) : TRUE
      BY <2>3 DEF OwnJobsOnly, LaneIInv, TrackInv, ActiveRowsTracked
    <3>2. r \in inflight /\ r.job = k
      BY DEF CachedFor
    <3> QED BY <2>3, <3>2, Holders
  <2> QED BY <2>1, <2>2, <2>3 DEF Accounted, OutThere
<1> QED BY <1>1, GapInvariants, PTL
=============================================================================
