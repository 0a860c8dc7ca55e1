------------------------ MODULE AccountSafetyProofs ------------------------
(***************************************************************************)
(* IInv is inductive, and what follows from it.                            *)
(***************************************************************************)
EXTENDS ManagedAccountProofs

----------------------------------------------------------------------------
(* What the record constructors keep and change.                           *)

LEMMA LiveFields ==
    \A r \in Rec : Live(r).job = r.job /\ Live(r).nonce = r.nonce /\ Live(r).status = "broadcast"
BY DEF Live, Rec

LEMMA StatusFields ==
    \A r \in Rec : \A s :
        LET x == [r EXCEPT !.status = s] IN x.job = r.job /\ x.nonce = r.nonce /\ x.status = s
BY DEF Rec

LEMMA SettledFields ==
    \A r \in Rec : \A s :
        Settled(r, s).job = r.job /\ Settled(r, s).nonce = r.nonce /\ Settled(r, s).status = s
BY StatusFields DEF Settled

LEMMA MinedFields ==
    \A r \in Rec : Mined(r).job = r.job /\ Mined(r).nonce = r.nonce /\ Mined(r).status = "mined"
BY DEF Mined, Rec

LEMMA ReplacementFields ==
    \A r \in Rec :
        /\ Replacement(r).job = r.job /\ Replacement(r).nonce = r.nonce
        /\ Replacement(r).status = "broadcast"
<1>1. \A r \in Rec : LET x == [r EXCEPT !.attempts = r.attempts + 1]
                     IN x \in Rec /\ x.job = r.job /\ x.nonce = r.nonce
  BY DEF Rec
<1> QED BY <1>1, LiveFields DEF Replacement

LEMMA NewFields ==
    \A k \in Keys, n \in Nat :
        /\ NewRecord(k, n).job = k /\ NewRecord(k, n).nonce = n
        /\ NewRecord(k, n).status = "pending"
        /\ ReattachRecord(k, n).job = k /\ ReattachRecord(k, n).nonce = n
        /\ ReattachRecord(k, n).status = "broadcast"
<1>1. \A k \in Keys, n \in Nat :
        /\ NewRecord(k, n).job = k /\ NewRecord(k, n).nonce = n
        /\ NewRecord(k, n).status = "pending"
  BY DEF NewRecord
<1> QED BY <1>1, NewRecordTypes, LiveFields DEF ReattachRecord

----------------------------------------------------------------------------
(* The conjuncts of IInv beyond the types.                                 *)

Rest == PhaseInv /\ StepInv /\ RowInv /\ HeldInv /\ WorkInv /\ OutboxInv
            /\ ToldInv /\ ChainInv /\ DepthInv /\ ConfirmedInv

\* The chain's conjunct survives a step of the process that moves no
\* transaction, changes no nonce in use and forgets no row.
LEMMA ChainKeep ==
    ASSUME TypeOK, ChainInv, UNCHANGED nodeVars,
           \A j \in Keys :
              \/ j \in Jobs /\ row[j].status = "absent"
              \/ /\ NonceOf(j)' = NonceOf(j)
                 /\ row[j].status # "absent" => row'[j].status # "absent"
                 /\ pc[j] # "idle" => pc'[j] # "idle"
    PROVE  ChainInv'
<1>1. \A u \in network \cup {m.tx : m \in mined} : u.job \in Keys
  BY DEF TypeOK, NodeTypeOK, Receipt, Tx
<1> QED BY <1>1 DEF ChainInv, nodeVars

\* A call moves on and may write the row of its own key: no record of that
\* key is cached, being looked at or being rebroadcast.
LEMMA OwnStep ==
    ASSUME TypeOK, Rest, phase = "up",
           NEW k \in Keys, pc[k] \notin Done, pc[k] # "reseed" \/ UNCHANGED row,
           NEW s \in PcStates, pc' = [pc EXCEPT ![k] = s],
           NEW x \in Rec, row' = [row EXCEPT ![k] = x], x.status # "confirmed",
           UNCHANGED <<inflight, tickVars, outbox, told, phase, mined, height, buried>>,
           RowInv', ChainInv'
    PROVE  Rest'
<1>1. /\ \A r \in inflight \cup todo \cup work : r \in Rec /\ r.job \in Keys /\ r.job # k
      /\ outbox = {}
  BY DEF TypeOK, Rec, Rest, HeldInv, WorkInv, PhaseInv
<1>2. /\ \A j \in Keys \ {k} : row'[j] = row[j] /\ pc'[j] = pc[j]
      /\ row'[k] = x
  BY DEF TypeOK
<1>3. PhaseInv' /\ StepInv' /\ OutboxInv'
  BY <1>1 DEF Rest, PhaseInv, StepInv, OutboxInv, tickVars
<1>4. HeldInv'
  BY <1>1, <1>2 DEF Rest, HeldInv, tickVars
<1>5. WorkInv'
  BY <1>1, <1>2 DEF Rest, WorkInv, tickVars
<1>6. ToldInv'
  <2>1. row' # row => told[k] = <<>>
    <3>1. pc[k] \in PcStates
      BY DEF TypeOK
    <3>2. pc[k] # "reseed" => row[k].status \notin Terminal
      BY <3>1 DEF Rest, RowInv, Terminal, PcStates, InTurn, Done
    <3> QED BY <3>2 DEF Rest, ToldInv
  <2>2. CASE row' = row
    BY <2>2 DEF Rest, ToldInv
  <2>3. CASE row' # row
    BY <2>1, <2>3, <1>2 DEF Rest, ToldInv
  <2> QED BY <2>2, <2>3
<1>7. DepthInv' /\ ConfirmedInv'
  BY <1>1, <1>2 DEF Rest, DepthInv, ConfirmedInv, BuriedSuccess, tickVars
<1> QED BY <1>3, <1>4, <1>5, <1>6, <1>7 DEF Rest

----------------------------------------------------------------------------
(* The lane.                                                               *)

LEMMA LaneKeeps ==
    ASSUME TypeOK, Rest, NEW k \in Jobs, Submit(k) \/ LaneStep(k)
    PROVE  Rest'
<1>k. k \in Keys
  BY JobsAssumption
<1>t. /\ row[k] \in Rec /\ alloc[k] \in Nat
      /\ pc \in [Keys -> PcStates] /\ row \in [Keys -> Rec] /\ alloc \in [Keys -> Nat]
  BY <1>k DEF TypeOK
<1>up. phase = "up"
  BY <1>k DEF Rest, PhaseInv, LaneStep, Submit, TurnRefused, TurnStart, NextTurn, EstimateFails,
     WriteAhead, Send, RecordFailure, Reseed, RecordBroadcast, FinishTurn, Done
<1>same. UNCHANGED row => row' = [row EXCEPT ![k] = row[k]]
  BY <1>k, <1>t
\* A step that only moves the call, and may give it a nonce.
<1>move. ASSUME pc[k] \notin Done, NEW s \in PcStates \ {"idle"}, pc' = [pc EXCEPT ![k] = s],
                \A j \in Keys \ {k} : alloc'[j] = alloc[j],
                UNCHANGED <<nodeVars, row, inflight, tickVars, outbox, told, phase>>,
                RowInv'
         PROVE  Rest'
  <2>1. ChainInv'
    BY <1>k, <1>t, <1>move, ChainKeep DEF Rest, NonceOf
  <2>2. row[k].status # "confirmed"
    BY <1>k, <1>t, <1>move DEF Rest, RowInv, PcStates, InTurn, Done
  <2> QED BY <1>k, <1>t, <1>up, <1>same, <1>move, <2>1, <2>2, OwnStep DEF nodeVars
<1>1. CASE Submit(k)
  <2>1. RowInv'
    BY <1>1, <1>k, <1>t DEF Submit, MovePc, Rest, RowInv, InTurn, storeVars
  <2> QED BY <2>1, <1>1, <1>move
          DEF Submit, MovePc, PcStates, Done, cacheVars, storeVars, bootVars
<1>2. CASE TurnRefused(k)
  <2>1. RowInv'
    BY <1>2, <1>k, <1>t DEF TurnRefused, NextTurn, MovePc, Rest, RowInv, InTurn, storeVars
  <2> QED BY <2>1, <1>2, <1>move
          DEF TurnRefused, NextTurn, MovePc, PcStates, Done, cacheVars, storeVars, bootVars
<1>3. CASE TurnStart(k)
  <2>1. RowInv'
    BY <1>3, <1>k, <1>t DEF TurnStart, NextTurn, MovePc, Rest, RowInv, InTurn, storeVars
  <2> QED BY <2>1, <1>3, <1>t, <1>move
          DEF TurnStart, NextTurn, MovePc, PcStates, InTurn, Done, cacheVars, storeVars, bootVars
<1>4. CASE EstimateFails(k)
  <2>1. RowInv'
    BY <1>4, <1>k, <1>t DEF EstimateFails, MovePc, Rest, RowInv, InTurn, storeVars
  <2> QED BY <2>1, <1>4, <1>move
          DEF EstimateFails, MovePc, PcStates, Done, cacheVars, storeVars, bootVars
<1>5. CASE WriteAhead(k)
  <2> DEFINE x == NewRecord(k, alloc[k])
  <2>1. CASE UNCHANGED row /\ MovePc(k, "rejected")
    <3>1. RowInv'
      BY <1>5, <2>1, <1>k, <1>t DEF WriteAhead, MovePc, Rest, RowInv, InTurn
    <3> QED BY <3>1, <2>1, <1>5, <1>move
            DEF WriteAhead, MovePc, PcStates, InTurn, Done, cacheVars, storeVars, bootVars
  <2>2. CASE row' = [row EXCEPT ![k] = x] /\ MovePc(k, "ahead")
    <3>1. x \in Rec /\ x.job = k /\ x.nonce = alloc[k] /\ x.status = "pending"
      BY <1>k, <1>t, NewRecordTypes, NewFields
    <3>2. pc' = [pc EXCEPT ![k] = "ahead"]
      BY <2>2 DEF MovePc
    <3>3. RowInv'
      BY <1>5, <2>2, <3>1, <3>2, <1>k, <1>t DEF WriteAhead, Rest, RowInv, InTurn
    <3>4. row[k].status = "absent"
      BY <1>5, <1>k DEF WriteAhead, Rest, RowInv
    <3>5. ChainInv'
      <4>1. \A j \in Keys \ {k} : NonceOf(j)' = NonceOf(j) /\ row'[j] = row[j] /\ pc'[j] = pc[j]
        BY <1>5, <2>2, <3>2, <1>t DEF NonceOf, WriteAhead
      <4> QED BY <4>1, <3>4, <1>5, ChainKeep DEF Rest, WriteAhead
    <3> HIDE DEF x
    <3> QED BY <1>5, <2>2, <3>1, <3>2, <3>3, <3>5, <1>k, <1>up, OwnStep
            DEF WriteAhead, PcStates, InTurn, Done, cacheVars, bootVars, nodeVars
  <2> QED BY <1>5, <2>1, <2>2 DEF WriteAhead

<1>6. CASE Send(k)
  <2> DEFINE t == SignedTx(row[k])
  <2>1. /\ pc[k] = "ahead" /\ row[k].status = "pending" /\ row[k].job = k
        /\ t.job = k /\ t.nonce = row[k].nonce
    BY <1>6, <1>k DEF Send, Rest, RowInv, SignedTx
  <2>2. UNCHANGED <<mined, next, height, buried, row, alloc, inflight, tickVars, outbox, told, phase>>
    BY <1>6 DEF Send, cacheVars, storeVars, bootVars
  <2>3. network' = network \/ network' = network \cup {t}
    BY <1>6 DEF Send
  <2>4. PICK s \in {"sent", "drift", "error"} : pc' = [pc EXCEPT ![k] = s]
    BY <1>6 DEF Send, MovePc
  <2>5. RowInv'
    BY <2>1, <2>2, <2>4, <1>k, <1>t DEF Rest, RowInv, InTurn
  <2>6. ChainInv'
    <3>1. \A j \in Keys : NonceOf(j)' = NonceOf(j) /\ (pc[j] # "idle" => pc'[j] # "idle")
      BY <2>2, <2>4, <1>t DEF NonceOf
    <3>2. \A u \in network \cup {m.tx : m \in mined} : u.job \in Keys
      BY DEF TypeOK, NodeTypeOK, Receipt, Tx
    <3>3. t.nonce = NonceOf(t.job) /\ t.job \in Jobs /\ row[t.job].status # "absent"
      BY <2>1 DEF NonceOf
    <3> HIDE DEF t
    <3> QED BY <3>1, <3>2, <3>3, <2>2, <2>3, JobsAssumption DEF Rest, ChainInv
  <2> QED BY <2>1, <2>2, <2>4, <2>5, <2>6, <1>k, <1>t, <1>up, <1>same, OwnStep
          DEF PcStates, InTurn, Done
<1>7. CASE RecordFailure(k)
  <2> DEFINE x == Settled(row[k], "failed")
  <2>1. pc[k] \in {"drift", "error"} /\ row[k].status = "pending" /\ row[k].job = k
    BY <1>7, <1>k DEF RecordFailure, Rest, RowInv
  <2>2. PICK s \in {"reseed", "rejected"} : pc' = [pc EXCEPT ![k] = s]
    BY <1>7 DEF RecordFailure, MovePc
  <2>3. CASE UNCHANGED row
    <3>1. RowInv'
      BY <1>7, <2>1, <2>2, <2>3, <1>k, <1>t DEF RecordFailure, Rest, RowInv, InTurn
    <3> QED BY <3>1, <2>1, <2>2, <2>3, <1>7, <1>move
            DEF RecordFailure, PcStates, InTurn, Done, cacheVars, bootVars
  <2>4. CASE row' = [row EXCEPT ![k] = x]
    <3>1. x \in Rec /\ x.job = k /\ x.nonce = row[k].nonce /\ x.status = "failed"
      BY <2>1, <1>t, SettledTypes, SettledFields DEF Terminal
    <3> HIDE DEF x
    <3>2. RowInv'
      BY <1>7, <2>1, <2>2, <2>4, <3>1, <1>k, <1>t DEF RecordFailure, Rest, RowInv, InTurn
    <3>3. ChainInv'
      <4>1. \A j \in Keys : NonceOf(j)' = NonceOf(j) /\ (pc[j] # "idle" => pc'[j] # "idle")
                /\ (row[j].status # "absent" => row'[j].status # "absent")
        BY <1>7, <2>2, <2>4, <3>1, <1>t DEF NonceOf, RecordFailure
      <4> QED BY <4>1, <1>7, ChainKeep DEF Rest, RecordFailure
    <3> QED BY <1>7, <2>1, <2>2, <2>4, <3>1, <3>2, <3>3, <1>k, <1>up, OwnStep
            DEF RecordFailure, PcStates, InTurn, Done, cacheVars, bootVars, nodeVars
  <2> QED BY <1>7, <2>3, <2>4 DEF RecordFailure
<1>8. CASE Reseed(k)
  <2>1. RowInv'
    BY <1>8, <1>k, <1>t DEF Reseed, MovePc, Rest, RowInv, InTurn, storeVars
  <2> QED BY <2>1, <1>8, <1>move
          DEF Reseed, MovePc, PcStates, Done, storeVars, bootVars
<1>9. CASE RecordBroadcast(k)
  <2> DEFINE x == Live(row[k])
  <2>1. pc[k] = "sent" /\ row[k].status = "pending" /\ row[k].job = k
    BY <1>9, <1>k DEF RecordBroadcast, Rest, RowInv
  <2>3. CASE UNCHANGED row /\ MovePc(k, "rejected")
    <3>1. RowInv'
      BY <1>9, <2>3, <1>k, <1>t DEF RecordBroadcast, MovePc, Rest, RowInv, InTurn
    <3> QED BY <3>1, <2>3, <1>9, <1>move
            DEF RecordBroadcast, MovePc, PcStates, InTurn, Done, cacheVars, bootVars
  <2>4. CASE row' = [row EXCEPT ![k] = x] /\ MovePc(k, "stored")
    <3>1. x \in Rec /\ x.job = k /\ x.nonce = row[k].nonce /\ x.status = "broadcast"
      BY <2>1, <1>t, LiveTypes, LiveFields
    <3>2. pc' = [pc EXCEPT ![k] = "stored"]
      BY <2>4 DEF MovePc
    <3> HIDE DEF x
    <3>3. RowInv'
      BY <1>9, <2>1, <2>4, <3>1, <3>2, <1>k, <1>t DEF RecordBroadcast, Rest, RowInv, InTurn
    <3>4. ChainInv'
      <4>1. \A j \in Keys : NonceOf(j)' = NonceOf(j) /\ (pc[j] # "idle" => pc'[j] # "idle")
                /\ (row[j].status # "absent" => row'[j].status # "absent")
        BY <1>9, <2>4, <3>1, <3>2, <1>t DEF NonceOf, RecordBroadcast
      <4> QED BY <4>1, <1>9, ChainKeep DEF Rest, RecordBroadcast
    <3> QED BY <1>9, <2>1, <2>4, <3>1, <3>2, <3>3, <3>4, <1>k, <1>up, OwnStep
            DEF RecordBroadcast, PcStates, InTurn, Done, cacheVars, bootVars, nodeVars
  <2> QED BY <1>9, <2>3, <2>4 DEF RecordBroadcast
<1>10. CASE FinishTurn(k)
  <2>1. /\ pc[k] = "stored" /\ row[k].status = "broadcast" /\ row[k].job = k
        /\ pc' = [pc EXCEPT ![k] = "resolved"]
        /\ inflight' = PutTx(inflight, row[k])
        /\ UNCHANGED <<nodeVars, row, alloc, tickVars, outbox, told, phase>>
    BY <1>10, <1>k DEF FinishTurn, MovePc, Rest, RowInv, storeVars, bootVars
  <2>2. RowInv'
    BY <2>1, <1>k, <1>t DEF Rest, RowInv, InTurn
  <2>3. PhaseInv' /\ StepInv' /\ OutboxInv' /\ ToldInv' /\ DepthInv' /\ ConfirmedInv'
    BY <2>1, <1>up, <1>t DEF Rest, PhaseInv, StepInv, OutboxInv, ToldInv, DepthInv, ConfirmedInv,
       BuriedSuccess, tickVars, nodeVars
  <2>4. HeldInv'
    BY <2>1, <1>k, <1>t DEF Rest, HeldInv, PutTx, tickVars, Active, Done
  <2>5. WorkInv'
    BY <2>1, <1>k, <1>t DEF Rest, WorkInv, tickVars, Done
  <2>6. ChainInv'
    BY <2>1, <1>t, ChainKeep DEF Rest, NonceOf
  <2> QED BY <2>2, <2>3, <2>4, <2>5, <2>6 DEF Rest
<1> QED
  BY <1>1, <1>2, <1>3, <1>4, <1>5, <1>6, <1>7, <1>8, <1>9, <1>10 DEF LaneStep

----------------------------------------------------------------------------
(* reattach() and primeNonce().                                            *)

LEMMA ReattachKeeps ==
    ASSUME TypeOK, Rest, NEW f \in Foreign,
           ForeignSend(f) \/ ReattachStore(f) \/ ReattachTrack(f)
    PROVE  Rest'
<1>k. f \in Keys /\ f \notin Jobs
  BY DEF Foreign
<1>t. /\ row[f] \in Rec /\ alloc[f] \in Nat
      /\ pc \in [Keys -> PcStates] /\ row \in [Keys -> Rec] /\ alloc \in [Keys -> Nat]
  BY <1>k DEF TypeOK
<1>1. CASE ForeignSend(f)
  <2>1. PICK c \in PendingCounts :
            /\ alloc' = [alloc EXCEPT ![f] = c]
            /\ network' = network \cup {SignedTx(NewRecord(f, c))}
    BY <1>1 DEF ForeignSend
  <2> DEFINE t == SignedTx(NewRecord(f, c))
  <2>2. t.job = f /\ t.nonce = c
    BY DEF SignedTx, NewRecord
  <2>3. /\ pc[f] = "idle" /\ row[f].status = "absent"
        /\ pc' = [pc EXCEPT ![f] = "abroad"]
        /\ alloc'[f] = c /\ \A j \in Keys \ {f} : alloc'[j] = alloc[j]
        /\ UNCHANGED <<mined, next, height, buried, row, inflight, tickVars, outbox, told, phase>>
    BY <1>1, <2>1, <1>k, <1>t
       DEF ForeignSend, MovePc, Rest, RowInv, cacheVars, storeVars, bootVars
  <2>4. RowInv'
    BY <2>3, <1>k, <1>t DEF Rest, RowInv, InTurn
  <2>5. PhaseInv' /\ StepInv' /\ ToldInv' /\ DepthInv' /\ ConfirmedInv'
    BY <2>3, <1>t DEF Rest, PhaseInv, StepInv, ToldInv, DepthInv, ConfirmedInv, BuriedSuccess,
       tickVars, Done
  <2>6. HeldInv' /\ WorkInv' /\ OutboxInv'
    <3>1. \A j : pc[j] \in Done => pc'[j] = pc[j]
      BY <2>3, <1>t DEF Done
    <3> QED BY <3>1, <2>3 DEF Rest, HeldInv, WorkInv, OutboxInv, tickVars
  <2>7. ChainInv'
    <3>1. \A u \in network \cup {m.tx : m \in mined} : u.job \in Keys /\ u.job # f
      BY <2>3, <1>k DEF TypeOK, NodeTypeOK, Receipt, Tx, Rest, ChainInv
    <3>2. \A j \in Keys \ {f} : NonceOf(j)' = NonceOf(j) /\ pc'[j] = pc[j]
      BY <2>3, <1>t DEF NonceOf
    <3>3. NonceOf(t.job)' = t.nonce /\ t.job \notin Jobs /\ pc'[t.job] # "idle"
      BY <2>2, <2>3, <1>k, <1>t DEF NonceOf
    <3>4. network' = network \cup {t}
      BY <2>1
    <3> HIDE DEF t
    <3>5. \A u \in network' \cup {m.tx : m \in mined'} :
            u \in network \cup {m.tx : m \in mined} \/ u = t
      BY <3>4, <2>3
    <3>6. \A u \in network \cup {m.tx : m \in mined} :
            /\ u.nonce = NonceOf(u.job)'
            /\ IF u.job \in Jobs THEN row'[u.job].status # "absent" ELSE pc'[u.job] # "idle"
      BY <3>1, <3>2, <2>3 DEF Rest, ChainInv
    <3> QED BY <3>3, <3>5, <3>6, <2>3 DEF Rest, ChainInv
  <2> QED BY <2>4, <2>5, <2>6, <2>7 DEF Rest
<1>2. CASE ReattachStore(f)
  <2>1. PICK x \in Rec, s \in {"recorded", "rejected"} :
          /\ row' = [row EXCEPT ![f] = x] /\ pc' = [pc EXCEPT ![f] = s]
          /\ IF s = "recorded" THEN x = ReattachRecord(f, alloc[f]) ELSE x = row[f]
    <3>1. ReattachRecord(f, alloc[f]) \in Rec
      BY <1>k, <1>t, ReattachTypes
    <3>2. row = [row EXCEPT ![f] = row[f]]
      BY <1>t
    <3> QED BY <1>2, <1>t, <3>1, <3>2 DEF ReattachStore, MovePc
  <2>2. /\ pc[f] = "abroad" /\ row[f].status = "absent" /\ phase = "up"
        /\ UNCHANGED <<nodeVars, alloc, inflight, tickVars, outbox, told, phase>>
    BY <1>2, <1>k DEF ReattachStore, Rest, RowInv, cacheVars, bootVars
  <2>3. /\ x.job = f
        /\ s = "recorded" => x.status = "broadcast" /\ x.nonce = alloc[f]
        /\ s = "rejected" => x.status = "absent"
    BY <2>1, <2>2, <1>k, <1>t, NewFields DEF Rest, RowInv
  <2>4. RowInv'
    BY <2>1, <2>2, <2>3, <1>k, <1>t DEF Rest, RowInv, InTurn
  <2>5. ChainInv'
    <3>1. \A j \in Keys : NonceOf(j)' = NonceOf(j) /\ (pc[j] # "idle" => pc'[j] # "idle")
                /\ (row[j].status # "absent" => row'[j].status # "absent")
      BY <2>1, <2>2, <2>3, <1>k, <1>t DEF NonceOf
    <3> QED BY <3>1, <2>2, ChainKeep DEF Rest
  <2> QED BY <2>1, <2>2, <2>3, <2>4, <2>5, <1>k, OwnStep DEF PcStates, Done, nodeVars
<1>3. CASE ReattachTrack(f)
  <2>1. /\ pc[f] = "recorded" /\ row[f].status = "broadcast" /\ row[f].job = f
        /\ pc' = [pc EXCEPT ![f] = "resolved"]
        /\ inflight' = PutTx(inflight, row[f])
        /\ UNCHANGED <<nodeVars, row, alloc, tickVars, outbox, told, phase>>
    BY <1>3, <1>k DEF ReattachTrack, MovePc, Rest, RowInv, storeVars, bootVars
  <2>2. RowInv'
    BY <2>1, <1>k, <1>t DEF Rest, RowInv, InTurn
  <2>3. phase = "up"
    BY <2>1, <1>k DEF Rest, PhaseInv, Done
  <2>4. PhaseInv' /\ StepInv' /\ OutboxInv' /\ ToldInv' /\ DepthInv' /\ ConfirmedInv'
    BY <2>1, <2>3, <1>t DEF Rest, PhaseInv, StepInv, OutboxInv, ToldInv, DepthInv, ConfirmedInv,
       BuriedSuccess, tickVars, nodeVars
  <2>5. HeldInv'
    BY <2>1, <1>k, <1>t DEF Rest, HeldInv, PutTx, tickVars, Active, Done
  <2>6. WorkInv'
    BY <2>1, <1>k, <1>t DEF Rest, WorkInv, tickVars, Done
  <2>7. ChainInv'
    BY <2>1, <1>t, ChainKeep DEF Rest, NonceOf
  <2> QED BY <2>2, <2>4, <2>5, <2>6, <2>7 DEF Rest
<1> QED BY <1>1, <1>2, <1>3

\* Nothing the conjuncts read changes.
LEMMA RestFrame ==
    ASSUME TypeOK, Rest,
           UNCHANGED <<nodeVars, inflight, pc, alloc, tickVars, row, phase, outbox, told>>
    PROVE  Rest'
BY DEF Rest, PhaseInv, StepInv, RowInv, HeldInv, WorkInv, OutboxInv, ToldInv, ChainInv,
       DepthInv, ConfirmedInv, BuriedSuccess, NonceOf, nodeVars, tickVars

----------------------------------------------------------------------------
(* The tick.                                                               *)

LEMMA PollKeeps ==
    ASSUME TypeOK, Rest, NEW r \in todo, PollStep(r)
    PROVE  Rest'
<1>r. r \in Rec /\ r.job \in Keys /\ todo \subseteq Rec
  BY DEF TypeOK, Rec
<1>h. /\ step \in {"poll", "head"} /\ work = {} /\ row[r.job] = r /\ r.status \in Active /\ pc[r.job] \in Done
      /\ \A x \in todo : x.nonce = r.nonce => x = r \/ x.job # r.job
      /\ \A x \in todo \ {r} : x.job # r.job
      /\ UNCHANGED <<nodeVars, cacheVars, callVars, storeVars, bootVars, told>>
      /\ phase = "up"
  BY DEF PollStep, PollReverted, PollSucceeded, PollConfirmed, PollMined, PollWaiting, PollGivesUp,
         PollReplaces, PollFails, Stuck, Polls, Measures, Looks, Rest, HeldInv, PhaseInv, StepInv
<1>w. /\ Settled(r, "reverted") \in Rec /\ Settled(r, "confirmed") \in Rec
      /\ Settled(r, "failed") \in Rec /\ Mined(r) \in Rec /\ Replacement(r) \in Rec
  BY <1>r, SettledTypes, MinedTypes, ReplacementTypes DEF Terminal
\* Whatever the poll finds, it goes on or hands one successor to the writer.
<1>s. \/ step' = "head" /\ work' = {} /\ PollSucceeded(r)
      \/ step' = "poll" /\ work' = {}
      \/ \E w \in Rec :
            /\ work' = {w}
            /\ w.job = r.job /\ w.nonce = r.nonce
            /\ \/ step' = "store" /\ w.status \in {"mined"} \cup Terminal
               \/ step' = "send" /\ w.status = "broadcast" /\ r.job \in Jobs
            /\ w.status = "confirmed" => PollConfirmed(r)
  BY <1>r, <1>w, <1>h, SettledFields, MinedFields, ReplacementFields
     DEF PollStep, PollReverted, PollSucceeded, PollConfirmed, PollMined, PollWaiting, PollGivesUp,
         PollReplaces, PollFails, Stuck, Polls, Measures, Looks, NextRecord, Advance, Terminal
<1>d. /\ PollSucceeded(r) => todo' = todo /\ step' = "head"
      /\ PollSucceeded(r) \/ todo' = todo \ {r}
  BY DEF PollStep, PollReverted, PollSucceeded, PollConfirmed, PollMined, PollWaiting, PollGivesUp,
         PollReplaces, PollFails, NextRecord, Advance
<1>n. /\ head' = head \/ head' = height
      /\ slipped \subseteq slipped'
  BY DEF PollStep, PollReverted, PollSucceeded, PollConfirmed, PollMined, PollWaiting, PollGivesUp,
         PollReplaces, PollFails, Stuck, Polls, Measures, HeadRead
<1>u. UNCHANGED <<nodeVars, inflight, pc, alloc, row, phase, outbox, told, mined, height, buried>>
  BY <1>h DEF cacheVars, callVars, storeVars, bootVars, nodeVars
<1>1. RowInv' /\ OutboxInv' /\ ToldInv' /\ ChainInv'
  BY <1>u DEF Rest, RowInv, OutboxInv, ToldInv, ChainInv, NonceOf, nodeVars
<1>2. PhaseInv' /\ StepInv'
  BY <1>u, <1>s, <1>h DEF Rest, PhaseInv, StepInv
<1>3. HeldInv'
  BY <1>u, <1>s, <1>h, <1>d, <1>r DEF Rest, HeldInv
<1>4. WorkInv'
  <2>1. told[r.job] = <<>>
    BY <1>h, <1>r DEF Rest, ToldInv, Active, Terminal
  <2> QED BY <2>1, <1>u, <1>s, <1>h, <1>d DEF Rest, WorkInv, Terminal, Active
<1>5. DepthInv'
  BY <1>n, <1>u DEF Rest, DepthInv
<1>6. ConfirmedInv'
  <2>1. ASSUME PollConfirmed(r), r.job \notin slipped' PROVE BuriedSuccess(r)
    <3>1. PICK m \in InHand(r) : DeepEnough(HeadRead, m) /\ m \in mined
      BY <2>1, <1>r DEF PollConfirmed
    <3>2. m.ok /\ m.tx = HashTx(r)
      BY <2>1, <3>1 DEF InHand, Reverted
    <3>3. /\ m.block \in Nat /\ height \in Nat /\ head \in Nat /\ buried \in Nat
          /\ Confirmations \in Nat
      BY <3>1, DepthAssumption DEF TypeOK, NodeTypeOK, Receipt
    <3>4. m.block <= buried
      BY <3>1, <3>3 DEF DeepEnough, HeadRead, Rest, DepthInv
    <3> QED BY <3>1, <3>2, <3>4 DEF BuriedSuccess, HashTx
  <2> QED BY <2>1, <1>n, <1>u, <1>s DEF Rest, ConfirmedInv, BuriedSuccess
<1> QED BY <1>1, <1>2, <1>3, <1>4, <1>5, <1>6 DEF Rest

LEMMA WorkKeeps ==
    ASSUME TypeOK, Rest, NEW w \in work, WorkStep(w)
    PROVE  Rest'
<1>w. w \in Rec /\ w.job \in Keys /\ work = {w} /\ inflight \subseteq Rec /\ todo \subseteq Rec
  BY DEF TypeOK, Rec, Rest, StepInv
<1>t. /\ pc \in [Keys -> PcStates] /\ row \in [Keys -> Rec] /\ told \in [Keys -> Seq(Terminal)]
      /\ phase = "up" /\ step \in {"send", "store", "cache"} /\ outbox = {}
  BY <1>w DEF TypeOK, Rest, PhaseInv, StepInv, WorkStep, ReplaceSend, TickStores, TickDrops, TickPuts
<1>i. /\ w.nonce = row[w.job].nonce /\ pc[w.job] \in Done /\ told[w.job] = <<>>
      /\ w.status \in {"broadcast", "mined"} \cup Terminal
      /\ \A r \in todo : r.job # w.job
      /\ row[w.job].job = w.job
  BY <1>w DEF Rest, WorkInv, RowInv
<1>1. CASE ReplaceSend(w)
  <2> DEFINE t == SignedTx(w)
  <2>1. /\ step = "send" /\ step' \in {"poll", "store"}
        /\ work' = {} \/ (step' = "store" /\ work' = work)
        /\ step' = "poll" => work' = {}
        /\ UNCHANGED <<mined, next, height, buried, inflight, pc, alloc, todo, head, slipped, row, phase, outbox, told>>
    BY <1>1 DEF ReplaceSend, cacheVars, callVars, storeVars, bootVars
  <2>2. /\ w.job \in Jobs /\ w.status = "broadcast" /\ row[w.job].status \in Active
        /\ t.job = w.job /\ t.nonce = w.nonce
    BY <2>1 DEF Rest, WorkInv, SignedTx
  <2>3. network' = network \/ network' = network \cup {t}
    BY <1>1 DEF ReplaceSend
  <2>4. PhaseInv' /\ StepInv' /\ RowInv' /\ OutboxInv' /\ ToldInv'
    BY <2>1, <1>t, <1>w DEF Rest, PhaseInv, StepInv, RowInv, OutboxInv, ToldInv
  <2>5. HeldInv'
    BY <2>1 DEF Rest, HeldInv
  <2>6. WorkInv'
    BY <2>1 DEF Rest, WorkInv
  <2>7. DepthInv' /\ ConfirmedInv'
    BY <2>1 DEF Rest, DepthInv, ConfirmedInv, BuriedSuccess
  <2>8. ChainInv'
    <3>1. \A j \in Keys : NonceOf(j)' = NonceOf(j)
      BY <2>1 DEF NonceOf
    <3>2. \A u \in network \cup {m.tx : m \in mined} : u.job \in Keys
      BY DEF TypeOK, NodeTypeOK, Receipt, Tx
    <3>3. t.nonce = NonceOf(t.job) /\ t.job \in Jobs /\ row[t.job].status # "absent"
      BY <2>2, <1>i DEF NonceOf, Active
    <3> HIDE DEF t
    <3> QED BY <3>1, <3>2, <3>3, <2>1, <2>3, JobsAssumption DEF Rest, ChainInv
  <2> QED BY <2>4, <2>5, <2>6, <2>7, <2>8 DEF Rest
<1>2. CASE TickStores(w)
  <2>1. /\ step = "store"
        /\ UNCHANGED <<nodeVars, inflight, pc, alloc, todo, head, slipped, phase, outbox, told>>
    BY <1>2 DEF TickStores, cacheVars, callVars, bootVars
  <2>2. row[w.job].status \in Active
    BY <2>1 DEF Rest, WorkInv
  <2>3. \A r \in inflight : row[r.job] = r
    BY <2>1 DEF Rest, HeldInv
  <2>4. CASE UNCHANGED row /\ step' = "poll" /\ work' = {}
    BY <2>1, <2>3, <2>4, <1>t DEF Rest, PhaseInv, StepInv, RowInv, HeldInv, WorkInv, OutboxInv,
       ToldInv, ChainInv, DepthInv, ConfirmedInv, BuriedSuccess, NonceOf, nodeVars
  <2>5. CASE row' = [row EXCEPT ![w.job] = w] /\ step' = "cache" /\ work' = work
    <3>1. row'[w.job] = w /\ \A j \in Keys \ {w.job} : row'[j] = row[j]
      BY <2>5, <1>w, <1>t
    <3>2. PhaseInv' /\ StepInv' /\ OutboxInv'
      BY <2>1, <2>5, <1>t DEF Rest, PhaseInv, StepInv, OutboxInv
    <3>3. RowInv'
      <4>1. w.job \notin Jobs /\ row[w.job].status # "absent" => w.nonce = alloc[w.job]
        BY <1>w, <1>i DEF Rest, RowInv
      <4> QED BY <4>1, <2>1, <2>2, <3>1, <1>i, <1>w
              DEF Rest, RowInv, Active, Terminal, Done, InTurn
    <3>4. HeldInv'
      <4>1. \A r \in inflight \cup todo : r.job \in Keys
        BY <1>w DEF Rec
      <4> QED BY <4>1, <2>1, <2>3, <2>5, <3>1, <1>i DEF Rest, HeldInv
    <3>5. WorkInv'
      BY <2>1, <2>5, <3>1, <1>w, <1>i DEF WorkInv
    <3>6. ToldInv'
      BY <2>1, <3>1, <1>i DEF Rest, ToldInv
    <3>7. ChainInv'
      <4>1. \A j \in Keys : NonceOf(j)' = NonceOf(j) /\ (pc[j] # "idle" => pc'[j] # "idle")
                /\ (row[j].status # "absent" => row'[j].status # "absent")
        BY <2>1, <3>1, <1>i DEF NonceOf, Terminal
      <4> QED BY <4>1, <2>1, ChainKeep DEF Rest
    <3>8. DepthInv' /\ ConfirmedInv'
      BY <2>1, <2>5, <3>1, <1>w DEF Rest, DepthInv, ConfirmedInv, BuriedSuccess, nodeVars
    <3> QED BY <3>2, <3>3, <3>4, <3>5, <3>6, <3>7, <3>8 DEF Rest
  <2> QED BY <1>2, <2>4, <2>5 DEF TickStores
<1>3. CASE TickDrops(w)
  <2>1. /\ step = "cache" /\ step' = "poll" /\ work' = {} /\ w.status \in Terminal
        /\ inflight' = DropTx(inflight, w.nonce)
        /\ told' = [told EXCEPT ![w.job] = Append(@, w.status)]
        /\ UNCHANGED <<nodeVars, pc, alloc, todo, head, slipped, row, phase, outbox>>
    BY <1>3 DEF TickDrops, callVars, storeVars, bootVars
  <2>2. row[w.job] = w
    BY <2>1 DEF Rest, WorkInv
  <2>3. told'[w.job] = <<w.status>> /\ \A j \in Keys \ {w.job} : told'[j] = told[j]
    BY <2>1, <1>i, <1>t, <1>w
  <2>4. PhaseInv' /\ StepInv' /\ RowInv' /\ WorkInv' /\ OutboxInv'
    BY <2>1, <1>t DEF Rest, PhaseInv, StepInv, RowInv, WorkInv, OutboxInv
  <2>5. HeldInv'
    <3>1. \A r \in inflight' : r \in inflight /\ r.nonce # w.nonce /\ r.job # w.job
      BY <2>1, <1>i DEF DropTx, Rest, HeldInv
    <3>2. \A r \in inflight' : row[r.job] = r
      BY <3>1, <1>w, <2>2 DEF Rest, HeldInv, RowInv, Rec
    <3> QED BY <3>1, <3>2, <2>1 DEF Rest, HeldInv
  <2>6. ToldInv'
    BY <2>1, <2>2, <2>3 DEF Rest, ToldInv
  <2>7. ChainInv'
    BY <2>1, ChainKeep DEF Rest, NonceOf
  <2>8. DepthInv' /\ ConfirmedInv'
    BY <2>1 DEF Rest, DepthInv, ConfirmedInv, BuriedSuccess, nodeVars
  <2> QED BY <2>4, <2>5, <2>6, <2>7, <2>8 DEF Rest
<1>4. CASE TickPuts(w)
  <2>1. /\ step = "cache" /\ step' = "poll" /\ work' = {} /\ w.status \in Active
        /\ inflight' = PutTx(inflight, w)
        /\ UNCHANGED <<nodeVars, pc, alloc, todo, head, slipped, row, phase, outbox, told>>
    BY <1>4 DEF TickPuts, callVars, storeVars, bootVars
  <2>2. row[w.job] = w
    BY <2>1 DEF Rest, WorkInv
  <2>3. PhaseInv' /\ StepInv' /\ RowInv' /\ WorkInv' /\ OutboxInv' /\ ToldInv'
    BY <2>1, <1>t DEF Rest, PhaseInv, StepInv, RowInv, WorkInv, OutboxInv, ToldInv
  <2>4. HeldInv'
    <3>1. \A r \in inflight' \ {w} : r \in inflight /\ r.nonce # w.nonce /\ r.job # w.job
      BY <2>1, <1>i DEF PutTx, Rest, HeldInv
    <3>2. \A r \in inflight' : row[r.job] = r
      BY <3>1, <1>w, <2>2 DEF Rest, HeldInv, RowInv, Rec
    <3> QED BY <3>1, <3>2, <2>1, <2>2, <1>i DEF Rest, HeldInv
  <2>5. ChainInv'
    BY <2>1, ChainKeep DEF Rest, NonceOf
  <2>6. DepthInv' /\ ConfirmedInv'
    BY <2>1 DEF Rest, DepthInv, ConfirmedInv, BuriedSuccess, nodeVars
  <2> QED BY <2>3, <2>4, <2>5, <2>6 DEF Rest
<1> QED BY <1>1, <1>2, <1>3, <1>4 DEF WorkStep

LEMMA TickKeeps ==
    ASSUME TypeOK, Rest, TickStep
    PROVE  Rest'
<1>1. CASE TickStart
  <2>1. /\ phase = "up" /\ step = "idle" /\ step' = "poll" /\ todo' = inflight
        /\ UNCHANGED <<nodeVars, inflight, pc, alloc, work, head, slipped, row, phase, outbox, told>>
    BY <1>1 DEF TickStart, cacheVars, callVars, storeVars, bootVars
  <2>2. work = {}
    BY <2>1 DEF Rest, StepInv
  <2>3. \A r \in inflight : row[r.job] = r
    BY <2>1 DEF Rest, HeldInv
  <2> QED BY <2>1, <2>2, <2>3 DEF Rest, PhaseInv, StepInv, RowInv, HeldInv, WorkInv, OutboxInv,
          ToldInv, ChainInv, DepthInv, ConfirmedInv, BuriedSuccess, NonceOf, nodeVars
<1>2. CASE TickEnd
  <2>1. /\ step = "poll" /\ step' = "idle" /\ todo = {}
        /\ head' = 0
        /\ UNCHANGED <<nodeVars, inflight, pc, alloc, todo, work, slipped, row, phase, outbox, told>>
    BY <1>2 DEF TickEnd, cacheVars, callVars, bootVars
  <2>2. work = {}
    BY <2>1 DEF Rest, StepInv
  <2>3. buried \in Nat \ {0} /\ Confirmations \in Nat \ {0}
    BY DepthAssumption DEF TypeOK, NodeTypeOK
  <2> QED BY <2>1, <2>2, <2>3 DEF Rest, PhaseInv, StepInv, RowInv, HeldInv, WorkInv, OutboxInv,
          ToldInv, ChainInv, DepthInv, ConfirmedInv, BuriedSuccess, NonceOf, nodeVars
<1>3. CASE \E r \in todo : PollStep(r)
  BY <1>3, PollKeeps
<1>4. CASE \E w \in work : WorkStep(w)
  BY <1>4, WorkKeeps
<1> QED BY <1>1, <1>2, <1>3, <1>4 DEF TickStep

----------------------------------------------------------------------------
(* Crash, boot and the chain.                                              *)

LEMMA CrashKeeps ==
    ASSUME TypeOK, Rest, Crash
    PROVE  Rest'
<1>t. pc \in [Keys -> PcStates]
  BY DEF TypeOK
<1>1. /\ phase' = "down" /\ step' = "idle"
      /\ inflight' = {} /\ todo' = {} /\ work' = {} /\ outbox' = {} /\ head' = 0
      /\ UNCHANGED <<nodeVars, alloc, slipped, row, told>>
  BY DEF Crash, storeVars
<1>2. \A k \in Keys : pc'[k] = IF pc[k] \in {"queued", "recorded"} \cup InTurn THEN "lost" ELSE pc[k]
  BY DEF Crash
<1>3. \A k \in Keys : pc'[k] \in {"idle", "abroad"} \cup Done
  BY <1>2, <1>t DEF PcStates, InTurn, Done
<1>4. PhaseInv' /\ StepInv' /\ HeldInv' /\ WorkInv' /\ OutboxInv' /\ ToldInv' /\ ConfirmedInv'
  BY <1>1, <1>3 DEF Rest, PhaseInv, StepInv, HeldInv, WorkInv, OutboxInv, ToldInv,
     DepthInv, ConfirmedInv, BuriedSuccess, nodeVars
<1>7. DepthInv'
  <2>1. buried \in Nat \ {0} /\ Confirmations \in Nat \ {0}
    BY DepthAssumption DEF TypeOK, NodeTypeOK
  <2> QED BY <1>1, <2>1 DEF Rest, DepthInv, nodeVars
<1>5. RowInv'
  BY <1>1, <1>2 DEF Rest, RowInv, InTurn
<1>6. ChainInv'
  BY <1>1, <1>2, ChainKeep DEF Rest, NonceOf, InTurn
<1> QED BY <1>4, <1>5, <1>6, <1>7 DEF Rest

LEMMA BootKeeps ==
    ASSUME TypeOK, Rest, BootStep
    PROVE  Rest'
<1>t. /\ pc \in [Keys -> PcStates] /\ row \in [Keys -> Rec]
      /\ inflight \subseteq Rec /\ outbox \subseteq Rec
  BY DEF TypeOK
<1>1. CASE Restore
  <2>1. /\ phase = "down" /\ phase' = "restoring"
        /\ inflight' \subseteq ActiveRows
        /\ outbox' = {r \in ActiveRows : r.status = "pending"}
        /\ UNCHANGED <<nodeVars, pc, alloc, tickVars, row, told>>
    BY <1>1 DEF Restore, callVars, storeVars
  <2>2. /\ step = "idle" /\ todo = {} /\ work = {}
        /\ \A k \in Keys : pc[k] \in {"idle", "abroad"} \cup Done
    BY <2>1 DEF Rest, PhaseInv, StepInv
  <2>3. \A r \in ActiveRows :
            row[r.job] = r /\ r.status \in Active /\ r.job \in Keys /\ pc[r.job] \in Done
    BY <2>2 DEF ActiveRows, Rest, RowInv, Active
  <2>4. PhaseInv' /\ StepInv' /\ RowInv' /\ WorkInv' /\ ToldInv' /\ DepthInv' /\ ConfirmedInv' /\ ChainInv'
    BY <2>1, <2>2 DEF Rest, PhaseInv, StepInv, RowInv, WorkInv, ToldInv, DepthInv, ConfirmedInv,
       BuriedSuccess, ChainInv, NonceOf, nodeVars, tickVars
  <2>5. HeldInv'
    BY <2>1, <2>2, <2>3 DEF HeldInv, tickVars
  <2>6. OutboxInv'
    BY <2>1, <2>3 DEF OutboxInv
  <2> QED BY <2>4, <2>5, <2>6 DEF Rest
<1>2. CASE BootDone
  <2>1. /\ phase = "restoring" /\ phase' = "up" /\ outbox = {}
        /\ UNCHANGED <<nodeVars, inflight, pc, alloc, tickVars, row, outbox, told>>
    BY <1>2 DEF BootDone, cacheVars, callVars, storeVars
  <2> QED BY <2>1 DEF Rest, PhaseInv, StepInv, RowInv, HeldInv, WorkInv, OutboxInv, ToldInv,
          ChainInv, DepthInv, ConfirmedInv, BuriedSuccess, NonceOf, nodeVars, tickVars
<1>h. ASSUME NEW r \in outbox
      PROVE  /\ r \in Rec /\ r.job \in Keys /\ r.job \in Jobs
             /\ row[r.job].status = "pending" /\ row[r.job].job = r.job
             /\ r.nonce = row[r.job].nonce /\ pc[r.job] \in Done /\ told[r.job] = <<>>
             /\ \A s \in outbox : s.job = r.job => s = r
             /\ phase = "restoring" /\ step = "idle" /\ todo = {} /\ work = {}
  <2>1. r \in Rec /\ r.job \in Keys
    BY <1>t DEF Rec
  <2> QED BY <2>1 DEF Rest, OutboxInv, RowInv, ToldInv, PhaseInv, StepInv, Terminal
<1>3. ASSUME NEW r \in outbox, Rebroadcast(r)
      PROVE  Rest'
  <2> DEFINE t == SignedTx(r)
  <2>1. UNCHANGED <<mined, next, height, buried, inflight, pc, alloc, tickVars, row, phase, told>>
    BY <1>3 DEF Rebroadcast, cacheVars, callVars, storeVars
  <2>2. t.job = r.job /\ t.nonce = r.nonce
    BY DEF SignedTx
  <2>3. network' = network \/ network' = network \cup {t}
    BY <1>3 DEF Rebroadcast
  <2>4. \/ outbox' = outbox \ {r}
        \/ \E x \in Rec : /\ outbox' = (outbox \ {r}) \cup {x}
                          /\ x.job = r.job /\ x.nonce = r.nonce /\ x.status = "broadcast"
    <3>1. /\ Live(r) \in Rec /\ [r EXCEPT !.status = "broadcast"] \in Rec
          /\ Live(r).job = r.job /\ Live(r).nonce = r.nonce /\ Live(r).status = "broadcast"
      BY <1>h, LiveTypes, StatusTypes, LiveFields DEF Active
    <3>2. LET x == [r EXCEPT !.status = "broadcast"]
          IN x.job = r.job /\ x.nonce = r.nonce /\ x.status = "broadcast"
      BY <1>h, StatusFields
    <3> QED BY <3>1, <3>2, <1>3 DEF Rebroadcast, DriftLanded
  <2>5. PhaseInv' /\ StepInv' /\ RowInv' /\ HeldInv' /\ WorkInv' /\ ToldInv' /\ DepthInv' /\ ConfirmedInv'
    BY <2>1, <1>h DEF Rest, PhaseInv, StepInv, RowInv, HeldInv, WorkInv, ToldInv, DepthInv, ConfirmedInv,
       BuriedSuccess, tickVars
  <2>6. OutboxInv'
    BY <2>1, <2>4, <1>h DEF Rest, OutboxInv
  <2>7. ChainInv'
    <3>1. \A j \in Keys : NonceOf(j)' = NonceOf(j)
      BY <2>1 DEF NonceOf
    <3>2. \A u \in network \cup {m.tx : m \in mined} : u.job \in Keys
      BY DEF TypeOK, NodeTypeOK, Receipt, Tx
    <3>3. t.nonce = NonceOf(t.job) /\ t.job \in Jobs /\ row[t.job].status # "absent"
      BY <2>2, <1>h DEF NonceOf
    <3> HIDE DEF t
    <3> QED BY <3>1, <3>2, <3>3, <2>1, <2>3, JobsAssumption DEF Rest, ChainInv
  <2> QED BY <2>5, <2>6, <2>7 DEF Rest
<1>4. ASSUME NEW r \in outbox, RecordRebroadcast(r)
      PROVE  Rest'
  <2>1. /\ r.status = "broadcast" /\ outbox' = outbox \ {r}
        /\ UNCHANGED <<nodeVars, pc, alloc, tickVars, phase, told>>
    BY <1>4 DEF RecordRebroadcast, callVars
  <2>2. CASE UNCHANGED <<row, inflight>>
    BY <2>1, <2>2, <1>h DEF Rest, PhaseInv, StepInv, RowInv, HeldInv, WorkInv, OutboxInv,
       ToldInv, ChainInv, DepthInv, ConfirmedInv, BuriedSuccess, NonceOf, nodeVars, tickVars
  <2>3. CASE row' = [row EXCEPT ![r.job] = r] /\ inflight' = PutTx(inflight, r)
    <3>1. row'[r.job] = r /\ \A j \in Keys \ {r.job} : row'[j] = row[j]
      BY <2>3, <1>t, <1>h
    <3>2. PhaseInv' /\ StepInv'
      BY <2>1, <1>h DEF Rest, PhaseInv, StepInv, tickVars
    <3>3. RowInv'
      BY <2>1, <3>1, <1>h DEF Rest, RowInv, Done, InTurn
    <3>4. HeldInv'
      <4>1. \A x \in inflight' : x = r \/ (x \in inflight /\ x.job # r.job /\ x.job \in Keys)
        BY <2>3, <1>h, <1>t DEF PutTx, Rest, HeldInv, Rec
      <4> QED BY <4>1, <2>1, <3>1, <1>h DEF Rest, HeldInv, Active, tickVars
    <3>5. WorkInv' /\ DepthInv' /\ ConfirmedInv'
      BY <2>1, <3>1, <1>h DEF Rest, WorkInv, DepthInv, ConfirmedInv, BuriedSuccess, tickVars, nodeVars
    <3>6. OutboxInv'
      <4>1. \A s \in outbox' : s \in outbox /\ s.job # r.job /\ s.job \in Keys
        BY <2>1, <1>h
      <4> QED BY <4>1, <2>1, <3>1 DEF Rest, OutboxInv
    <3>7. ToldInv'
      BY <2>1, <3>1, <1>h DEF Rest, ToldInv
    <3>8. ChainInv'
      <4>1. \A j \in Keys : NonceOf(j)' = NonceOf(j) /\ (pc[j] # "idle" => pc'[j] # "idle")
                /\ (row[j].status # "absent" => row'[j].status # "absent")
        BY <2>1, <3>1, <1>h DEF NonceOf
      <4> QED BY <4>1, <2>1, ChainKeep DEF Rest
    <3> QED BY <3>2, <3>3, <3>4, <3>5, <3>6, <3>7, <3>8 DEF Rest
  <2> QED BY <1>4, <2>2, <2>3 DEF RecordRebroadcast
<1> QED BY <1>1, <1>2, <1>3, <1>4 DEF BootStep

LEMMA ChainStepKeeps ==
    ASSUME TypeOK, Rest, ChainStep
    PROVE  Rest'
<1>1. UNCHANGED accountVars
  BY DEF ChainStep, ChainMines, ChainReverts, ChainGrows, ChainReorgs, ChainEvicts
<1>2. PhaseInv' /\ StepInv' /\ RowInv' /\ HeldInv' /\ WorkInv' /\ OutboxInv' /\ ToldInv'
  BY <1>1 DEF accountVars, cacheVars, callVars, tickVars, storeVars, bootVars,
     Rest, PhaseInv, StepInv, RowInv, HeldInv, WorkInv, OutboxInv, ToldInv
<1>3. /\ \A j : NonceOf(j)' = NonceOf(j)
      /\ UNCHANGED <<row, pc, work, head, slipped>>
  BY <1>1 DEF accountVars, callVars, tickVars, storeVars, NonceOf
<1>n. /\ mined \subseteq Receipt /\ network \subseteq Tx /\ next \in Nat
      /\ height \in Nat /\ buried \in Nat /\ head \in Nat /\ Confirmations \in Nat
  BY DepthAssumption DEF TypeOK, NodeTypeOK
<1>m. \A m \in mined : m.tx \in Tx /\ m.tx.nonce \in Nat /\ m.block \in Nat
  BY <1>n DEF Receipt, Tx
\* A buried block stays buried, so what was confirmed stays confirmed.
<1>b. ASSUME buried' \in Nat, buried' >= buried,
             \A m \in mined : m.block <= buried => m \in mined'
      PROVE  ConfirmedInv'
  <2>1. \A r : BuriedSuccess(r) => BuriedSuccess(r)'
    <3> SUFFICES ASSUME NEW r, BuriedSuccess(r) PROVE BuriedSuccess(r)'
      OBVIOUS
    <3>1. PICK m \in mined : m.ok /\ m.tx.job = r.job /\ m.tx.nonce = r.nonce /\ m.block <= buried
      BY DEF BuriedSuccess
    <3>2. m \in mined' /\ m.block <= buried'
      BY <3>1, <1>b, <1>n, <1>m
    <3> QED BY <3>1, <3>2 DEF BuriedSuccess
  <2> QED BY <2>1, <1>3 DEF Rest, ConfirmedInv
<1>a. AppendBlock => DepthInv' /\ buried' \in Nat /\ buried' >= buried
  BY <1>3, <1>n DEF AppendBlock, Rest, DepthInv
<1>4. ChainInv' /\ DepthInv' /\ ConfirmedInv'
  <2>1. ASSUME NEW u \in network, NEW ok \in BOOLEAN, Mine(u, ok)
        PROVE  ChainInv' /\ DepthInv' /\ ConfirmedInv'
    <3>1. /\ u.nonce = next /\ mined' = mined \cup {[tx |-> u, ok |-> ok, block |-> height']}
          /\ network' \subseteq network /\ next' = next + 1
      BY <2>1 DEF Mine
    <3>2. \A v \in network' \cup {m.tx : m \in mined'} : v \in network \cup {m.tx : m \in mined}
      BY <3>1
    <3>3. \A m \in mined' :
            m \in mined \/ (m = [tx |-> u, ok |-> ok, block |-> height'] /\ m.tx = u)
      BY <3>1
    <3>4. \A m \in mined : m.tx.nonce < next /\ m.tx.nonce \in Nat
      BY <1>m DEF Rest, ChainInv
    <3>5. ChainInv'
      BY <3>1, <3>2, <3>3, <3>4, <1>3, <1>n DEF Rest, ChainInv
    <3>6. DepthInv' /\ ConfirmedInv'
      BY <2>1, <3>1, <1>a, <1>b DEF Mine
    <3> QED BY <3>5, <3>6
  <2>2. ASSUME EmptyBlock PROVE ChainInv' /\ DepthInv' /\ ConfirmedInv'
    <3>1. AppendBlock /\ UNCHANGED <<network, mined, next>>
      BY <2>2 DEF EmptyBlock
    <3> QED BY <3>1, <1>3, <1>a, <1>b DEF Rest, ChainInv
  <2>3. ASSUME Reorg PROVE ChainInv' /\ DepthInv' /\ ConfirmedInv'
    <3>1. height > buried /\ height' = height - 1 /\ buried' = buried
      BY <2>3 DEF Reorg
    <3>2. DepthInv'
      BY <3>1, <1>3, <1>n DEF Rest, DepthInv
    <3>3. CASE UNCHANGED <<network, mined, next>>
      <4>1. ChainInv'
        BY <3>3, <1>3 DEF Rest, ChainInv
      <4>2. ConfirmedInv'
        BY <3>1, <3>3, <1>n, <1>b
      <4> QED BY <3>2, <4>1, <4>2
    <3>4. ASSUME NEW o \in mined,
                 o.block = height, o.tx.nonce + 1 = next, next' = o.tx.nonce,
                 mined' = mined \ {o}, network' = network \cup {o.tx}
          PROVE  ChainInv' /\ ConfirmedInv'
      <4>1. \A v \in network' \cup {m.tx : m \in mined'} :
              v \in network \cup {m.tx : m \in mined}
        BY <3>4
      <4>2. \A m \in mined' : m.tx.nonce < next'
        BY <3>4, <1>m, <1>n DEF Rest, ChainInv
      <4>3. ChainInv'
        BY <3>4, <4>1, <4>2, <1>3 DEF Rest, ChainInv
      <4>4. \A m \in mined : m.block <= buried => m \in mined'
        BY <3>1, <3>4, <1>m, <1>n
      <4>5. ConfirmedInv'
        BY <3>1, <4>4, <1>n, <1>b
      <4> QED BY <4>3, <4>5
    <3> QED BY <2>3, <3>2, <3>3, <3>4 DEF Reorg
  <2>4. ASSUME NEW u \in network, Evict(u) PROVE ChainInv' /\ DepthInv' /\ ConfirmedInv'
    BY <2>4, <1>3 DEF Evict, Rest, ChainInv, DepthInv, ConfirmedInv, BuriedSuccess
  <2> QED BY <2>1, <2>2, <2>3, <2>4
          DEF ChainStep, ChainMines, ChainReverts, ChainGrows, ChainReorgs, ChainEvicts
<1> QED BY <1>2, <1>4 DEF Rest

LEMMA PrimeKeeps ==
    ASSUME TypeOK, Rest, PrimeNonce
    PROVE  Rest'
BY RestFrame DEF PrimeNonce, callVars, storeVars

LEMMA IInvStep == IInv /\ [Next]_vars => IInv'
<1> SUFFICES ASSUME TypeOK, Rest, [Next]_vars PROVE TypeOK' /\ Rest'
  BY DEF IInv, Rest
<1>1. TypeOK'
  BY TypeStep
<1>2. CASE \E k \in Jobs : Submit(k) \/ LaneStep(k)
  BY <1>1, <1>2, LaneKeeps
<1>3. CASE \E f \in Foreign : ForeignSend(f) \/ ReattachStore(f) \/ ReattachTrack(f)
  BY <1>1, <1>3, ReattachKeeps
<1>4. CASE UNCHANGED vars
  BY <1>1, <1>4, RestFrame DEF vars, cacheVars, callVars, storeVars, bootVars
<1> QED
  BY <1>1, <1>2, <1>3, <1>4, PrimeKeeps, TickKeeps, CrashKeeps, BootKeeps, ChainStepKeeps
     DEF Next

LEMMA IInvInit == Init => IInv
<1> SUFFICES ASSUME Init PROVE IInv
  OBVIOUS
<1>1. TypeOK
  BY TypeInit
<1>2. \A k \in Keys : row[k].status = "absent" /\ row[k].job = k /\ pc[k] = "idle" /\ told[k] = <<>>
  BY DEF Init, NoRow
<1>3. PhaseInv /\ StepInv /\ HeldInv /\ WorkInv /\ OutboxInv
  BY DEF Init, PhaseInv, StepInv, HeldInv, WorkInv, OutboxInv
<1>4. RowInv /\ ToldInv
  BY <1>2 DEF RowInv, ToldInv, InTurn
<1>5. ChainInv /\ DepthInv /\ ConfirmedInv
  BY <1>2, DepthAssumption DEF Init, NodeInit, ChainInv, DepthInv, ConfirmedInv
<1> QED BY <1>1, <1>3, <1>4, <1>5 DEF IInv

(* The inductive invariant holds of every reachable state.                 *)
THEOREM Inductive == Spec => []IInv
BY IInvInit, IInvStep, PTL DEF Spec

----------------------------------------------------------------------------
(* The safety properties.                                                  *)

(* "Store and cache never disagree": a cached record is the stored row, or *)
(* the tick is between its store write and its cache write of that row.    *)
THEOREM CacheFollows == Spec => []CacheFollowsStore
<1>1. IInv => CacheFollowsStore
  BY DEF IInv, HeldInv, CacheFollowsStore
<1> QED BY <1>1, Inductive, PTL

(* Whatever of a submitted job is on the wire or the chain is backed by a  *)
(* durable row with its nonce, whichever call failed and whenever the      *)
(* process died.                                                           *)
THEOREM WriteAhead1st == Spec => []WriteAheadFirst
<1>1. IInv => WriteAheadFirst
  BY DEF IInv, ChainInv, NonceOf, WriteAheadFirst
<1> QED BY <1>1, Inductive, PTL

(* No job executes twice, however often it is replaced or rebroadcast.     *)
THEOREM ExecutesOnce == Spec => []SingleExecution
<1>1. IInv => SingleExecution
  BY DEF IInv, ChainInv, SingleExecution
<1> QED BY <1>1, Inductive, PTL

(* A confirmation is never recorded for a transaction that is not in the   *)
(* chain, did not succeed, or could still be orphaned, whatever the chain  *)
(* does between the reads of a pass: except for a transaction whose block  *)
(* a reorg took away between its receipt (managed-account.ts:133) and the  *)
(* pass's head (line 140).                                                 *)
THEOREM ConfirmedTruly == Spec => []ConfirmedOnChain
<1>1. IInv => ConfirmedOnChain
  <2> SUFFICES ASSUME IInv, NEW k \in Keys \ slipped, row[k].status = "confirmed"
               PROVE  \E m \in OnChain(k) :
                        m.ok /\ m.tx.nonce = row[k].nonce /\ m.block <= buried
    BY DEF ConfirmedOnChain
  <2>1. BuriedSuccess(row[k]) /\ row[k].job = k
    BY DEF IInv, ConfirmedInv, RowInv
  <2> QED BY <2>1 DEF BuriedSuccess, OnChain
<1> QED BY <1>1, Inductive, PTL

----------------------------------------------------------------------------
(* The account implements the lifecycle it promises.                       *)

StatusOf == [k \in Keys |-> row[k].status]

LEMMA SameStatus ==
    ASSUME UNCHANGED <<row, told>>
    PROVE  UNCHANGED <<StatusOf, told>>
BY DEF StatusOf

\* A step that writes one row's status is a step of the lifecycle.
LEMMA StatusWrite ==
    ASSUME TypeOK, NEW k \in Keys, NEW x \in Rec, row' = [row EXCEPT ![k] = x]
    PROVE  StatusOf' = [StatusOf EXCEPT ![k] = x.status]
BY DEF TypeOK, StatusOf

LEMMA LifecycleStep == IInv /\ [Next]_vars => [Lifecycle!LifecycleNext]_<<StatusOf, told>>
<1> SUFFICES ASSUME IInv, [Next]_vars, ~UNCHANGED <<row, told>>
             PROVE  Lifecycle!LifecycleNext
  BY SameStatus
<1> USE DEF Lifecycle!ActiveStatus, Lifecycle!TerminalStatus
<1>t. /\ TypeOK /\ row \in [Keys -> Rec] /\ told \in [Keys -> Seq(Terminal)]
      /\ work \subseteq Rec /\ outbox \subseteq Rec /\ alloc \in [Keys -> Nat]
  BY DEF IInv, TypeOK
<1>s. \A k \in Keys : StatusOf[k] = row[k].status
  BY DEF StatusOf
<1>w. \A k \in Keys, x \in Rec :
        row' = [row EXCEPT ![k] = x] => StatusOf' = [StatusOf EXCEPT ![k] = x.status]
  BY <1>t, StatusWrite
<1>record. ASSUME NEW k \in Keys, row[k].status = "absent", UNCHANGED told,
                  NEW x \in Rec, x.status \in {"pending", "broadcast"},
                  row' = [row EXCEPT ![k] = x]
           PROVE  Lifecycle!LifecycleNext
  BY <1>record, <1>s, <1>w DEF Lifecycle!LifecycleNext, Lifecycle!Record, StatusOf
<1>move. ASSUME NEW k \in Keys, row[k].status \in Active, UNCHANGED told,
                NEW x \in Rec, x.status \in {"broadcast", "mined"} \cup Terminal,
                row' = [row EXCEPT ![k] = x]
         PROVE  Lifecycle!LifecycleNext
  <2>1. StatusOf' = [StatusOf EXCEPT ![k] = x.status] /\ StatusOf[k] \in Active
    BY <1>move, <1>s, <1>w
  <2>2. CASE x.status \in {"broadcast", "mined"}
    <3>1. Lifecycle!Progress(k)
      BY <2>1, <2>2, <1>move DEF Lifecycle!Progress, StatusOf, Active
    <3> QED BY <3>1 DEF Lifecycle!LifecycleNext
  <2>3. CASE x.status \in Terminal
    <3>1. Lifecycle!Settle(k)
      BY <2>1, <2>3, <1>move DEF Lifecycle!Settle, StatusOf, Active, Terminal
    <3> QED BY <3>1 DEF Lifecycle!LifecycleNext
  <2> QED BY <2>2, <2>3, <1>move
<1>1. ASSUME NEW k \in Jobs, Submit(k) \/ LaneStep(k)
      PROVE  Lifecycle!LifecycleNext
  <2>k. k \in Keys /\ row[k] \in Rec /\ alloc[k] \in Nat
    BY <1>t, JobsAssumption
  <2>1. CASE WriteAhead(k)
    <3>1. NewRecord(k, alloc[k]) \in Rec /\ NewRecord(k, alloc[k]).status = "pending"
      BY <2>k, NewRecordTypes, NewFields
    <3>2. row[k].status = "absent"
      BY <2>1, <2>k DEF WriteAhead, IInv, RowInv
    <3>3. UNCHANGED told /\ row' = [row EXCEPT ![k] = NewRecord(k, alloc[k])]
      BY <2>1 DEF WriteAhead
    <3> QED BY <3>1, <3>2, <3>3, <2>k, <1>record
  <2>2. CASE RecordFailure(k)
    <3>1. Settled(row[k], "failed") \in Rec /\ Settled(row[k], "failed").status = "failed"
      BY <2>k, SettledTypes, SettledFields DEF Terminal
    <3>2. row[k].status = "pending"
      BY <2>2, <2>k DEF RecordFailure, IInv, RowInv
    <3>3. UNCHANGED told /\ row' = [row EXCEPT ![k] = Settled(row[k], "failed")]
      BY <2>2 DEF RecordFailure
    <3> QED BY <3>1, <3>2, <3>3, <2>k, <1>move DEF Active, Terminal
  <2>3. CASE RecordBroadcast(k)
    <3>1. Live(row[k]) \in Rec /\ Live(row[k]).status = "broadcast"
      BY <2>k, LiveTypes, LiveFields
    <3>2. row[k].status = "pending"
      BY <2>3, <2>k DEF RecordBroadcast, IInv, RowInv
    <3>3. UNCHANGED told /\ row' = [row EXCEPT ![k] = Live(row[k])]
      BY <2>3 DEF RecordBroadcast
    <3> QED BY <3>1, <3>2, <3>3, <2>k, <1>move DEF Active
  <2>4. CASE UNCHANGED <<row, told>>
    BY <2>4
  <2> QED BY <1>1, <2>1, <2>2, <2>3, <2>4 DEF LaneStep, Submit, TurnRefused, TurnStart, NextTurn,
          EstimateFails, Send, Reseed, FinishTurn, storeVars
<1>2. ASSUME NEW f \in Foreign, ForeignSend(f) \/ ReattachStore(f) \/ ReattachTrack(f)
      PROVE  Lifecycle!LifecycleNext
  <2>1. ReattachStore(f) /\ f \in Keys /\ alloc[f] \in Nat
    BY <1>2, <1>t DEF ForeignSend, ReattachTrack, storeVars, Foreign
  <2>2. /\ ReattachRecord(f, alloc[f]) \in Rec
        /\ ReattachRecord(f, alloc[f]).status = "broadcast"
    BY <2>1, ReattachTypes, NewFields
  <2>3. row[f].status = "absent"
    BY <2>1 DEF ReattachStore, IInv, RowInv
  <2>4. UNCHANGED told /\ row' = [row EXCEPT ![f] = ReattachRecord(f, alloc[f])]
    BY <2>1 DEF ReattachStore
  <2> QED BY <2>1, <2>2, <2>3, <2>4, <1>record
<1>3. ASSUME TickStep PROVE Lifecycle!LifecycleNext
  <2>1. PICK w \in work : TickStores(w) \/ TickDrops(w)
    BY <1>3 DEF TickStep, TickStart, TickEnd, PollStep, PollReverted, PollSucceeded, PollConfirmed, PollMined,
       PollWaiting, PollGivesUp, PollReplaces, PollFails, Stuck, Polls, Measures, Looks, WorkStep, ReplaceSend,
       TickPuts, storeVars
  <2>2. w \in Rec /\ w.job \in Keys
    BY <1>t DEF Rec
  <2>3. CASE TickStores(w)
    <3>1. /\ row' = [row EXCEPT ![w.job] = w] /\ UNCHANGED told
          /\ row[w.job].status \in Active
          /\ w.status \in {"broadcast", "mined"} \cup Terminal
      BY <2>3 DEF TickStores, IInv, WorkInv
    <3> QED BY <3>1, <2>2, <1>move
  <2>4. CASE TickDrops(w)
    <3>1. /\ UNCHANGED row /\ told' = [told EXCEPT ![w.job] = Append(@, w.status)]
          /\ row[w.job] = w /\ w.status \in Terminal /\ told[w.job] = <<>>
      BY <2>4 DEF TickDrops, IInv, WorkInv, storeVars
    <3>2. told' = [told EXCEPT ![w.job] = <<w.status>>]
      BY <3>1, <2>2, <1>t
    <3>3. UNCHANGED StatusOf
      BY <3>1 DEF StatusOf
    <3> QED BY <3>1, <3>2, <3>3, <2>2, <1>s
            DEF Lifecycle!LifecycleNext, Lifecycle!Announce, StatusOf, Terminal
  <2> QED BY <2>1, <2>3, <2>4
<1>4. ASSUME BootStep PROVE Lifecycle!LifecycleNext
  <2>1. PICK r \in outbox : RecordRebroadcast(r)
    BY <1>4 DEF BootStep, Restore, BootDone, Rebroadcast, storeVars
  <2>2. r \in Rec /\ r.job \in Keys
    BY <1>t DEF Rec
  <2>3. /\ row' = [row EXCEPT ![r.job] = r] /\ UNCHANGED told
        /\ row[r.job].status = "pending" /\ r.status = "broadcast"
    BY <2>1 DEF RecordRebroadcast, IInv, OutboxInv
  <2> QED BY <2>2, <2>3, <1>move DEF Active
<1> QED
  BY <1>1, <1>2, <1>3, <1>4
     DEF Next, vars, storeVars, PrimeNonce, Crash, ChainStep, ChainMines, ChainReverts,
         ChainGrows, ChainReorgs, ChainEvicts, accountVars

(* The account refines TxLifecycle: a job is recorded once, a terminal     *)
(* status is final, and its one event says what was recorded.              *)
THEOREM Refinement == Spec => RefinesLifecycle
<1>1. Init => Lifecycle!LifecycleInit
  BY DEF Init, NoRow, Lifecycle!LifecycleInit
<1>2. IInv /\ [Next]_vars => [Lifecycle!LifecycleNext]_<<StatusOf, told>>
  BY LifecycleStep
<1>3. IInv /\ [Next]_vars => [Lifecycle!LifecycleNext]_(Lifecycle!lifecycleVars)
  BY <1>2 DEF Lifecycle!lifecycleVars, StatusOf
<1> QED BY <1>1, <1>3, Inductive, PTL DEF Spec, RefinesLifecycle, Lifecycle!LifecycleSpec
=============================================================================
