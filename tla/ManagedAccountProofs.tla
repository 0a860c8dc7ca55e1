------------------------ MODULE ManagedAccountProofs ------------------------
(***************************************************************************)
(* What TLAPS proves of ManagedAccount, for every set of keys, every limit *)
(* and every fault budget.                                                 *)
(***************************************************************************)
EXTENDS AccountInvariant, TLAPS

----------------------------------------------------------------------------
(* The record constructors stay among the records.                         *)

LEMMA NewRecordTypes ==
    /\ \A k \in Keys : NoRow(k) \in Rec
    /\ \A k \in Keys, n \in Nat : NewRecord(k, n) \in Rec
BY DEF NoRow, NewRecord, Rec, Active

LEMMA StatusTypes ==
    \A r \in Rec : \A s \in Active \cup Terminal : [r EXCEPT !.status = s] \in Rec
BY DEF Rec

LEMMA LiveTypes == \A r \in Rec : Live(r) \in Rec
BY DEF Live, Rec, Active

LEMMA MinedTypes == \A r \in Rec : Mined(r) \in Rec
BY DEF Mined, Rec, Active

LEMMA SettledTypes == \A r \in Rec : \A s \in Terminal : Settled(r, s) \in Rec
BY StatusTypes DEF Settled

LEMMA ReattachTypes == \A k \in Keys, n \in Nat : ReattachRecord(k, n) \in Rec
BY NewRecordTypes, LiveTypes DEF ReattachRecord

LEMMA ReplacementTypes == \A r \in Rec : Replacement(r) \in Rec
<1>1. \A r \in Rec : [r EXCEPT !.attempts = r.attempts + 1] \in Rec
  BY DEF Rec
<1> QED BY <1>1, LiveTypes DEF Replacement

LEMMA SignedTypes == \A r \in Rec : SignedTx(r) \in Tx /\ HashTx(r) \in Tx
BY DEF SignedTx, HashTx, Rec, Tx

LEMMA PutTxTypes ==
    ASSUME NEW s, s \in SUBSET Rec, NEW r \in Rec
    PROVE  PutTx(s, r) \in SUBSET Rec
BY DEF PutTx

LEMMA DropTxTypes ==
    ASSUME NEW s, s \in SUBSET Rec, NEW n
    PROVE  DropTx(s, n) \in SUBSET Rec
BY DEF DropTx

LEMMA SeedTypes == \A c, n \in Nat : SeedNonce(c, n) \in Nat
BY DEF SeedNonce

LEMMA PendingCountTypes == NodeTypeOK => PendingCounts \subseteq Nat
BY DEF NodeTypeOK, PendingCounts, Tx

LEMMA SpendTypes ==
    ASSUME TypeOK, NEW kind \in FaultKinds, Spend(kind)
    PROVE  faults' \in [FaultKinds -> Nat]
BY DEF TypeOK, Spend

LEMMA MovePcTypes ==
    ASSUME TypeOK, NEW k \in Keys, NEW s \in PcStates, MovePc(k, s)
    PROVE  pc' \in [Keys -> PcStates]
<1>1. pc \in [Keys -> PcStates]
  BY DEF TypeOK
<1> QED BY <1>1 DEF MovePc

LEMMA LaneTypes ==
    ASSUME TypeOK, NEW k \in Jobs, Submit(k) \/ LaneStep(k)
    PROVE  TypeOK'
<1>k. k \in Keys
  BY JobsAssumption
<1>p. \A s \in PcStates : MovePc(k, s) => pc' \in [Keys -> PcStates]
  BY <1>k, MovePcTypes
<1> USE DEF nodeVars, cacheVars, callVars, tickVars, storeVars, bootVars
<1>1. CASE Submit(k)
  BY <1>1, <1>p DEF Submit, TypeOK, NodeTypeOK, PcStates
<1>2. CASE TurnRefused(k)
  BY <1>2, <1>p DEF TurnRefused, NextTurn, TypeOK, NodeTypeOK, PcStates, Done
<1>3. CASE TurnStart(k)
  BY <1>3, <1>p, <1>k DEF TurnStart, NextTurn, TypeOK, NodeTypeOK, PcStates, InTurn
<1>4. CASE EstimateFails(k)
  BY <1>4, <1>p, SpendTypes DEF EstimateFails, TypeOK, NodeTypeOK, PcStates, Done, FaultKinds
<1>5. CASE WriteAhead(k)
  <2>1. NewRecord(k, alloc[k]) \in Rec
    BY <1>k, NewRecordTypes DEF TypeOK
  <2> QED BY <2>1, <1>5, <1>p, SpendTypes
          DEF WriteAhead, TypeOK, NodeTypeOK, PcStates, Done, InTurn, FaultKinds
<1>6. CASE Send(k)
  <2>1. SignedTx(row[k]) \in Tx
    BY <1>k, SignedTypes DEF TypeOK
  <2> QED BY <2>1, <1>6, <1>p, SpendTypes
          DEF Send, TypeOK, NodeTypeOK, PcStates, InTurn, FaultKinds
<1>7. CASE RecordFailure(k)
  <2>1. Settled(row[k], "failed") \in Rec
    BY <1>k, SettledTypes DEF TypeOK, Terminal
  <2>2. pc' \in [Keys -> PcStates]
    BY <1>7, <1>p DEF RecordFailure, PcStates, InTurn, Done
  <2> QED BY <2>1, <2>2, <1>7, <1>k, SpendTypes
          DEF RecordFailure, TypeOK, NodeTypeOK, PcStates, InTurn, Done, FaultKinds
<1>8. CASE Reseed(k)
  <2>1. alloc[k] + 1 \in Nat /\ \A c \in PendingCounts : c \in Nat
    BY <1>k, PendingCountTypes DEF TypeOK
  <2>2. cursor' \in Nat
    BY <2>1, <1>8, SeedTypes DEF Reseed, TypeOK
  <2> QED BY <2>2, <1>8, <1>p, SpendTypes
          DEF Reseed, TypeOK, NodeTypeOK, PcStates, Done, FaultKinds
<1>9. CASE RecordBroadcast(k)
  <2>1. Live(row[k]) \in Rec
    BY <1>k, LiveTypes DEF TypeOK
  <2> QED BY <2>1, <1>9, <1>p, <1>k, SpendTypes
          DEF RecordBroadcast, TypeOK, NodeTypeOK, PcStates, InTurn, Done, FaultKinds
<1>10. CASE FinishTurn(k)
  <2>1. inflight \in SUBSET Rec /\ row[k] \in Rec /\ alloc[k] \in Nat
    BY <1>k DEF TypeOK
  <2>2. PutTx(inflight, row[k]) \in SUBSET Rec
    BY <2>1, PutTxTypes
  <2> QED BY <2>1, <2>2, <1>10, <1>p DEF FinishTurn, TypeOK, NodeTypeOK, PcStates, Done
<1> QED
  BY <1>1, <1>2, <1>3, <1>4, <1>5, <1>6, <1>7, <1>8, <1>9, <1>10 DEF LaneStep

LEMMA ReattachStepTypes ==
    ASSUME TypeOK, NEW f \in Foreign, ForeignSend(f) \/ ReattachStore(f) \/ ReattachTrack(f)
    PROVE  TypeOK'
<1>k. f \in Keys
  BY DEF Foreign
<1>p. \A s \in PcStates : MovePc(f, s) => pc' \in [Keys -> PcStates]
  BY <1>k, MovePcTypes
<1>t. alloc[f] \in Nat /\ row[f] \in Rec /\ inflight \in SUBSET Rec /\ cursor \in Nat
  BY <1>k DEF TypeOK
<1> USE DEF nodeVars, cacheVars, callVars, tickVars, storeVars, bootVars
<1>1. CASE ForeignSend(f)
  <2>1. PICK c \in PendingCounts :
            /\ alloc' = [alloc EXCEPT ![f] = c]
            /\ network' = network \cup {SignedTx(NewRecord(f, c))}
    BY <1>1 DEF ForeignSend
  <2>2. c \in Nat
    BY PendingCountTypes DEF TypeOK
  <2>3. SignedTx(NewRecord(f, c)) \in Tx
    BY <2>2, <1>k, NewRecordTypes, SignedTypes
  <2> QED BY <2>1, <2>2, <2>3, <1>1, <1>p, <1>k DEF ForeignSend, TypeOK, NodeTypeOK, PcStates
<1>2. CASE ReattachStore(f)
  <2>1. ReattachRecord(f, alloc[f]) \in Rec
    BY <1>k, <1>t, ReattachTypes
  <2>2. row' \in [Keys -> Rec] /\ pc' \in [Keys -> PcStates]
    BY <2>1, <1>2, <1>p, <1>k DEF ReattachStore, TypeOK, PcStates, Done
  <2>3. faults' \in [FaultKinds -> Nat]
    BY <1>2, SpendTypes DEF ReattachStore, TypeOK, FaultKinds
  <2> QED BY <2>2, <2>3, <1>2 DEF ReattachStore, TypeOK, NodeTypeOK
<1>3. CASE ReattachTrack(f)
  <2>1. PutTx(inflight, row[f]) \in SUBSET Rec
    BY <1>t, PutTxTypes
  <2>2. SeedNonce(cursor, alloc[f] + 1) \in Nat
    <3>1. alloc[f] + 1 \in Nat
      BY <1>t
    <3> QED BY <3>1, <1>t, SeedTypes
  <2> QED BY <2>1, <2>2, <1>3, <1>p DEF ReattachTrack, TypeOK, NodeTypeOK, PcStates, Done
<1> QED BY <1>1, <1>2, <1>3

LEMMA PrimeTypes ==
    ASSUME TypeOK, PrimeNonce
    PROVE  TypeOK'
<1>1. \A c \in PendingCounts : SeedNonce(cursor, c) \in Nat
  BY PendingCountTypes, SeedTypes DEF TypeOK
<1> QED BY <1>1 DEF PrimeNonce, TypeOK, NodeTypeOK,
           nodeVars, cacheVars, callVars, tickVars, storeVars, bootVars

LEMMA PollTypes ==
    ASSUME TypeOK, NEW r \in todo, PollStep(r)
    PROVE  TypeOK'
<1>r. r \in Rec
  BY DEF TypeOK
<1>w. /\ Settled(r, "reverted") \in Rec /\ Settled(r, "confirmed") \in Rec
      /\ Settled(r, "failed") \in Rec /\ Mined(r) \in Rec /\ Replacement(r) \in Rec
  BY <1>r, SettledTypes, MinedTypes, ReplacementTypes DEF Terminal
<1>f. faults' \in [FaultKinds -> Nat]
  <2>1. UNCHANGED faults \/ Spend("rpc")
    BY DEF PollStep, PollReverted, PollSucceeded, PollConfirmed, PollMined, PollWaiting, PollGivesUp,
           PollReplaces, PollFails, Measures
  <2> QED BY <2>1, SpendTypes DEF TypeOK, FaultKinds
<1>h. height \in Nat /\ head \in Nat /\ seen \subseteq Receipt /\ mined \subseteq Receipt
      /\ slipped \subseteq Keys /\ r.job \in Keys
  BY <1>r DEF TypeOK, NodeTypeOK, Rec
<1>d. head' \in Nat /\ seen' \in SUBSET Receipt /\ slipped' \in SUBSET Keys
  BY <1>h DEF PollStep, PollReverted, PollSucceeded, PollConfirmed, PollMined, PollWaiting,
     PollGivesUp, PollReplaces, PollFails, NextRecord, Advance, Stuck, Polls, Measures,
     HeadRead, Receipts
<1>s. /\ step' \in {"poll", "head", "store", "send"}
      /\ todo' \in SUBSET Rec
      /\ work' \in SUBSET Rec
  BY <1>w DEF TypeOK, PollStep, PollReverted, PollSucceeded, PollConfirmed, PollMined, PollWaiting,
     PollGivesUp, PollReplaces, PollFails, NextRecord, Advance
<1>u. UNCHANGED <<nodeVars, cacheVars, callVars, storeVars, bootVars, told>>
  BY DEF PollStep, PollReverted, PollSucceeded, PollConfirmed, PollMined, PollWaiting, PollGivesUp,
         PollReplaces, PollFails, Stuck, Polls, Measures, Looks
<1> QED
  BY <1>f, <1>d, <1>s, <1>u DEF TypeOK, NodeTypeOK,
     nodeVars, cacheVars, callVars, storeVars, bootVars

LEMMA WorkTypes ==
    ASSUME TypeOK, NEW w \in work, WorkStep(w)
    PROVE  TypeOK'
<1>w. w \in Rec /\ w.job \in Keys
  BY DEF TypeOK, Rec
<1>i. inflight \in SUBSET Rec
  BY DEF TypeOK
<1> USE DEF nodeVars, cacheVars, callVars, tickVars, storeVars, bootVars
<1>1. CASE ReplaceSend(w)
  <2>1. SignedTx(w) \in Tx
    BY <1>w, SignedTypes
  <2>2. faults' \in [FaultKinds -> Nat]
    BY <1>1, SpendTypes DEF ReplaceSend, TypeOK, FaultKinds
  <2> QED BY <2>1, <2>2, <1>1 DEF ReplaceSend, TypeOK, NodeTypeOK
<1>2. CASE TickStores(w)
  <2>2. faults' \in [FaultKinds -> Nat]
    BY <1>2, SpendTypes DEF TickStores, TypeOK, FaultKinds
  <2> QED BY <2>2, <1>2, <1>w DEF TickStores, TypeOK, NodeTypeOK
<1>3. CASE TickDrops(w)
  <2>1. DropTx(inflight, w.nonce) \in SUBSET Rec
    BY <1>i, DropTxTypes
  <2>2. told' \in [Keys -> Seq(Terminal)]
    BY <1>3, <1>w DEF TickDrops, TypeOK
  <2> QED BY <2>1, <2>2, <1>3 DEF TickDrops, TypeOK, NodeTypeOK
<1>4. CASE TickPuts(w)
  <2>1. PutTx(inflight, w) \in SUBSET Rec
    BY <1>i, <1>w, PutTxTypes
  <2> QED BY <2>1, <1>4 DEF TickPuts, TypeOK, NodeTypeOK
<1> QED BY <1>1, <1>2, <1>3, <1>4 DEF WorkStep

LEMMA TickTypes ==
    ASSUME TypeOK, TickStep
    PROVE  TypeOK'
<1> USE DEF nodeVars, cacheVars, callVars, tickVars, storeVars, bootVars
<1>1. CASE TickStart
  BY <1>1 DEF TickStart, TypeOK, NodeTypeOK
<1>2. CASE TickEnd
  <2>1. faults' \in [FaultKinds -> Nat]
    BY <1>2, SpendTypes DEF TickEnd, RefreshState, TypeOK, FaultKinds
  <2> QED BY <2>1, <1>2 DEF TickEnd, RefreshState, TypeOK, NodeTypeOK
<1>3. CASE \E r \in todo : PollStep(r)
  BY <1>3, PollTypes
<1>4. CASE \E w \in work : WorkStep(w)
  BY <1>4, WorkTypes
<1> QED BY <1>1, <1>2, <1>3, <1>4 DEF TickStep

LEMMA CrashTypes ==
    ASSUME TypeOK, Crash
    PROVE  TypeOK'
<1>1. faults' \in [FaultKinds -> Nat]
  BY SpendTypes DEF Crash, TypeOK, FaultKinds
<1>2. pc' \in [Keys -> PcStates]
  BY DEF Crash, TypeOK, PcStates, Done
<1>3. /\ cursor' \in Nat /\ inflight' \in SUBSET Rec
      /\ step' = "idle" /\ todo' \in SUBSET Rec /\ work' \in SUBSET Rec
      /\ head' \in Nat /\ seen' \in SUBSET Receipt /\ slipped' \in SUBSET Keys
      /\ phase' = "down" /\ outbox' \in SUBSET Rec
  BY DEF Crash, TypeOK
<1>4. queue' \in Seq(Jobs)
  BY DEF Crash
<1>5. primed' \in BOOLEAN
  BY DEF Crash
<1>6. UNCHANGED <<nodeVars, alloc, storeVars, told>>
  BY DEF Crash
<1> QED BY <1>1, <1>2, <1>3, <1>4, <1>5, <1>6 DEF TypeOK, NodeTypeOK, nodeVars, storeVars

LEMMA ActiveRowTypes == TypeOK => ActiveRows \subseteq Rec
BY DEF TypeOK, ActiveRows

LEMMA BootTypes ==
    ASSUME TypeOK, BootStep
    PROVE  TypeOK'
<1> USE DEF nodeVars, cacheVars, callVars, tickVars, storeVars, bootVars
<1>1. CASE Restore
  <2>1. cursor' \in Nat
    <3>1. \A r \in ActiveRows : r.nonce + 1 \in Nat
      BY ActiveRowTypes DEF Rec
    <3> QED BY <1>1, <3>1 DEF Restore, SeededCursors, TypeOK
  <2>2. inflight' \in SUBSET Rec /\ outbox' \in SUBSET Rec
    BY <1>1, ActiveRowTypes DEF Restore
  <2> QED BY <2>1, <2>2, <1>1 DEF Restore, TypeOK, NodeTypeOK
<1>2. CASE BootDone
  BY <1>2 DEF BootDone, TypeOK, NodeTypeOK
<1>3. ASSUME NEW r \in outbox, Rebroadcast(r)
      PROVE  TypeOK'
  <2>1. r \in Rec
    BY DEF TypeOK
  <2>2. SignedTx(r) \in Tx /\ Live(r) \in Rec /\ [r EXCEPT !.status = "broadcast"] \in Rec
    BY <2>1, SignedTypes, LiveTypes, StatusTypes DEF Active
  <2>3. faults' \in [FaultKinds -> Nat]
    BY <1>3, SpendTypes DEF Rebroadcast, TypeOK, FaultKinds
  <2>4. outbox' \in SUBSET Rec /\ network' \in SUBSET Tx
    BY <1>3, <2>2 DEF Rebroadcast, DriftLanded, TypeOK, NodeTypeOK
  <2> QED BY <2>3, <2>4, <1>3 DEF Rebroadcast, DriftLanded, TypeOK, NodeTypeOK
<1>4. ASSUME NEW r \in outbox, RecordRebroadcast(r)
      PROVE  TypeOK'
  <2>1. r \in Rec /\ r.job \in Keys /\ inflight \in SUBSET Rec
    BY DEF TypeOK, Rec
  <2>2. PutTx(inflight, r) \in SUBSET Rec
    BY <2>1, PutTxTypes
  <2>3. faults' \in [FaultKinds -> Nat]
    BY <1>4, SpendTypes DEF RecordRebroadcast, TypeOK, FaultKinds
  <2> QED BY <2>1, <2>2, <2>3, <1>4 DEF RecordRebroadcast, TypeOK, NodeTypeOK
<1> QED BY <1>1, <1>2, <1>3, <1>4 DEF BootStep

LEMMA ChainTypes ==
    ASSUME TypeOK, ChainStep
    PROVE  TypeOK'
<1>1. faults' \in [FaultKinds -> Nat]
  BY SpendTypes DEF ChainStep, ChainMines, ChainReverts, ChainGrows, ChainReorgs, ChainEvicts,
     TypeOK, FaultKinds
<1>2. UNCHANGED accountVars
  BY DEF ChainStep, ChainMines, ChainReverts, ChainGrows, ChainReorgs, ChainEvicts
<1>3. NodeTypeOK'
  <2>n. /\ network \subseteq Tx /\ mined \subseteq Receipt /\ next \in Nat
        /\ height \in Nat /\ height > 0 /\ buried \in Nat \ {0}
    BY DEF TypeOK, NodeTypeOK
  <2>a. AppendBlock => height' \in Nat \ {0} /\ buried' \in Nat \ {0}
    BY <2>n, DepthAssumption DEF AppendBlock
  <2>1. ASSUME NEW u \in network, NEW ok \in BOOLEAN, Mine(u, ok)
        PROVE  NodeTypeOK'
    <3>1. [tx |-> u, ok |-> ok, block |-> height'] \in Receipt
      BY <2>1, <2>a, <2>n DEF Receipt, Mine
    <3> QED BY <2>1, <2>a, <2>n, <3>1 DEF Mine, NodeTypeOK
  <2>2. ASSUME EmptyBlock PROVE NodeTypeOK'
    BY <2>2, <2>a, <2>n DEF EmptyBlock, NodeTypeOK
  <2>3. ASSUME Reorg PROVE NodeTypeOK'
    <3>1. height' \in Nat \ {0} /\ buried' = buried
      <4>1. height > buried /\ height' = height - 1
        BY <2>3 DEF Reorg
      <4>2. height - 1 \in Nat \ {0}
        BY <4>1, <2>n
      <4> QED BY <2>3, <4>1, <4>2, <2>n DEF Reorg
    <3>2. \A m \in mined : m.tx \in Tx /\ m.tx.nonce \in Nat
      BY <2>n DEF Receipt, Tx
    <3> QED BY <2>3, <3>1, <3>2, <2>n DEF Reorg, NodeTypeOK
  <2>4. ASSUME NEW u \in network, Evict(u) PROVE NodeTypeOK'
    BY <2>4 DEF Evict, TypeOK, NodeTypeOK
  <2> QED BY <2>1, <2>2, <2>3, <2>4
          DEF ChainStep, ChainMines, ChainReverts, ChainGrows, ChainReorgs, ChainEvicts
<1> QED BY <1>1, <1>2, <1>3 DEF TypeOK, accountVars,
           cacheVars, callVars, tickVars, storeVars, bootVars

LEMMA TypeStep == TypeOK /\ [Next]_vars => TypeOK'
<1> SUFFICES ASSUME TypeOK, [Next]_vars PROVE TypeOK'
  OBVIOUS
<1>1. CASE \E k \in Jobs : Submit(k) \/ LaneStep(k)
  BY <1>1, LaneTypes
<1>2. CASE \E f \in Foreign : ForeignSend(f) \/ ReattachStore(f) \/ ReattachTrack(f)
  BY <1>2, ReattachStepTypes
<1>3. CASE UNCHANGED vars
  BY <1>3 DEF vars, TypeOK, NodeTypeOK,
     nodeVars, cacheVars, callVars, tickVars, storeVars, bootVars
<1> QED
  BY <1>1, <1>2, <1>3, PrimeTypes, TickTypes, CrashTypes, BootTypes, ChainTypes DEF Next

LEMMA TypeInit == Init => TypeOK
<1> SUFFICES ASSUME Init PROVE TypeOK
  OBVIOUS
<1>1. NodeTypeOK
  BY ChainBaseAssumption DEF Init, NodeInit, NodeTypeOK
<1>2. pc \in [Keys -> PcStates] /\ alloc \in [Keys -> Nat]
  BY DEF Init, PcStates
<1>3. row \in [Keys -> Rec] /\ told \in [Keys -> Seq(Terminal)]
  BY NewRecordTypes DEF Init
<1>4. faults \in [FaultKinds -> Nat]
  BY BudgetAssumption DEF Init
<1>5. queue \in Seq(Jobs)
  BY DEF Init
<1>6. primed \in BOOLEAN
  BY DEF Init
<1>7. /\ cursor \in Nat /\ inflight \in SUBSET Rec /\ savedCursor \in Nat
      /\ step = "idle" /\ todo \in SUBSET Rec /\ work \in SUBSET Rec
      /\ head \in Nat /\ seen \in SUBSET Receipt /\ slipped \in SUBSET Keys
      /\ phase = "up" /\ outbox \in SUBSET Rec
  BY DEF Init
<1> QED BY <1>1, <1>2, <1>3, <1>4, <1>5, <1>6, <1>7 DEF TypeOK

(* Every variable keeps its type: in particular a cached record always is  *)
(* a complete record and the cursor a nonce.                               *)
THEOREM TypeCorrect == Spec => []TypeOK
<1>1. Init => TypeOK
  BY TypeInit
<1>2. TypeOK /\ [Next]_vars => TypeOK'
  BY TypeStep
<1> QED BY <1>1, <1>2, PTL DEF Spec
=============================================================================
