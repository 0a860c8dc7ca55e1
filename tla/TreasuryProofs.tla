--------------------------- MODULE TreasuryProofs ---------------------------
(***************************************************************************)
(* What TLAPS proves of TreasuryFunder, for any recipients, amounts and    *)
(* number of faults.                                                       *)
(***************************************************************************)
EXTENDS TreasuryFunder, FiniteSetTheorems, TLAPS

\* One turn at a time; whoever waits for a turn waits once.
LaneInv ==
    /\ \A r, s \in Recipients : pc[r] \in InTurn /\ pc[s] \in InTurn => r = s
    /\ \A i \in 1 .. Len(queue) : pc[queue[i]] = "queued"
    /\ \A i, j \in 1 .. Len(queue) : queue[i] = queue[j] => i = j

\* The wire holds one transfer for each nonce from the mined count up to
\* the pending count.
WireInv ==
    /\ IsFiniteSet(wire)
    /\ \A t, u \in wire : t.nonce = u.nonce => t = u
    /\ \A t \in wire : mined <= t.nonce /\ t.nonce < PendingCount
    /\ \A n \in Nat : mined <= n /\ n < PendingCount => Held(n) # {}

\* The cursor is the pending count, or one behind it after a lost reply.
NonceInv ==
    /\ cursor # Undefined => PendingCount <= cursor + 1 /\ cursor <= PendingCount
    /\ \A r \in Recipients :
          /\ pc[r] = "counting" => cursor = Undefined
          /\ pc[r] = "sending" =>
                nonce[r] = IF cursor = Undefined THEN PendingCount ELSE cursor
          /\ pc[r] = "drift" => cursor = nonce[r] /\ PendingCount = nonce[r] + 1

\* A transfer whose call succeeded is behind the cursor.
SentInv == \A t \in wire : Marked(t.to) => cursor # Undefined /\ t.nonce < cursor

\* The only transfer on the wire to a recipient none of whose transfers
\* was forgotten keeps it marked and below target until it is mined.
FundInv ==
    /\ \A t \in wire : t.to \notin forgotten =>
          t.to \in pending /\ bal[t.to] < Target /\ pc[t.to] \notin Committed
    /\ \A t, u \in wire : t.to = u.to /\ t.to \notin forgotten => t = u
    /\ \A r \in Recipients \ forgotten :
          /\ pc[r] \in {"queued"} \cup InTurn => r \in pending
          /\ pc[r] \in Committed => bal[r] < Target

TreasuryInv == TypeOK /\ LaneInv /\ WireInv /\ NonceInv /\ SentInv /\ FundInv

----------------------------------------------------------------------------
(* The wire.                                                               *)

LEMMA PendingCountIsNat ==
    ASSUME TypeOK, WireInv
    PROVE  PendingCount \in Nat /\ mined <= PendingCount /\ PendingCount = mined + Cardinality(wire)
BY FS_CardinalityType DEF TypeOK, WireInv, PendingCount

LEMMA WireRests ==
    ASSUME WireInv, wire' = wire, mined' = mined
    PROVE  WireInv' /\ PendingCount' = PendingCount
BY DEF WireInv, PendingCount, Held

\* A transfer with the next free nonce extends the wire.
LEMMA GossipExtends ==
    ASSUME TypeOK, WireInv, NEW t \in Transfer, t.nonce = PendingCount, Gossip(t), mined' = mined
    PROVE  WireInv' /\ PendingCount' = PendingCount + 1 /\ wire' = wire \cup {t}
<1>1. /\ PendingCount \in Nat /\ mined \in Nat /\ mined <= PendingCount
      /\ PendingCount = mined + Cardinality(wire)
  BY PendingCountIsNat DEF TypeOK
<1>2. \A u \in wire : u.nonce \in Nat /\ mined <= u.nonce /\ u.nonce < PendingCount
  BY DEF TypeOK, WireInv, Transfer
<1>3. Held(t.nonce) = {}  BY <1>1, <1>2 DEF Held
<1>4. wire' = wire \cup {t}  BY <1>3 DEF Gossip
<1>5. t \notin wire  BY <1>3 DEF Held
<1>6. IsFiniteSet(wire') /\ Cardinality(wire') = Cardinality(wire) + 1
  BY <1>4, <1>5, FS_AddElement DEF WireInv
<1>7. Cardinality(wire) \in Nat  BY FS_CardinalityType DEF WireInv
<1>8. PendingCount' = PendingCount + 1  BY <1>1, <1>6, <1>7 DEF PendingCount
<1>9. \A u, v \in wire' : u.nonce = v.nonce => u = v
  BY <1>1, <1>2, <1>4 DEF WireInv
<1>10. \A u \in wire' : mined' <= u.nonce /\ u.nonce < PendingCount'
  BY <1>1, <1>2, <1>4, <1>8
<1>11. ASSUME NEW n \in Nat, mined' <= n, n < PendingCount' PROVE Held(n)' # {}
  <2>1. CASE n = PendingCount  BY <1>4, <2>1 DEF Held
  <2>2. CASE n < PendingCount
    <3>1. PICK u \in wire : u.nonce = n  BY <1>11, <2>2 DEF WireInv, Held
    <3> QED  BY <1>4, <3>1 DEF Held
  <2> QED  BY <1>1, <1>8, <1>11, <2>1, <2>2
<1> QED  BY <1>4, <1>6, <1>8, <1>9, <1>10, <1>11 DEF WireInv

\* One with the nonce before that takes the last one's place.
LEMMA GossipReplaces ==
    ASSUME TypeOK, WireInv, NEW t \in Transfer, t.nonce + 1 = PendingCount, mined <= t.nonce,
           Gossip(t), mined' = mined
    PROVE  /\ WireInv' /\ PendingCount' = PendingCount
           /\ wire' = {u \in wire : u.nonce # t.nonce} \cup {t}
<1>1. PendingCount \in Nat /\ mined \in Nat /\ t.nonce \in Nat /\ PendingCount = mined + Cardinality(wire)
  BY PendingCountIsNat DEF TypeOK, Transfer
<1>2. \A u \in wire : u.nonce \in Nat /\ mined <= u.nonce /\ u.nonce < PendingCount
  BY DEF TypeOK, WireInv, Transfer
<1>3. PICK old \in wire : old.nonce = t.nonce
  BY <1>1 DEF WireInv, Held
<1>4. Held(t.nonce) = {old}  BY <1>3 DEF Held, WireInv
<1>5. wire' = (wire \ {old}) \cup {t}  BY <1>4 DEF Gossip
<1>6. t \notin wire \ {old}  BY <1>3 DEF WireInv
<1>7. IsFiniteSet(wire \ {old}) /\ Cardinality(wire \ {old}) = Cardinality(wire) - 1
  BY <1>3, FS_RemoveElement DEF WireInv
<1>8. /\ IsFiniteSet(wire')
      /\ Cardinality(wire') = Cardinality(wire \ {old}) + 1
  BY <1>5, <1>6, <1>7, FS_AddElement
<1>9. Cardinality(wire) \in Nat  BY FS_CardinalityType DEF WireInv
<1>10. PendingCount' = PendingCount  BY <1>7, <1>8, <1>9 DEF PendingCount
<1>11. wire' = {u \in wire : u.nonce # t.nonce} \cup {t}
  BY <1>3, <1>5 DEF WireInv
<1>12. \A u, v \in wire' : u.nonce = v.nonce => u = v
  BY <1>11 DEF WireInv
<1>13. \A u \in wire' : mined' <= u.nonce /\ u.nonce < PendingCount'
  BY <1>1, <1>2, <1>10, <1>11
<1>14. ASSUME NEW n \in Nat, mined' <= n, n < PendingCount' PROVE Held(n)' # {}
  <2>1. CASE n = t.nonce  BY <1>11, <2>1 DEF Held
  <2>2. CASE n # t.nonce
    <3>1. PICK u \in wire : u.nonce = n  BY <1>10, <1>14 DEF WireInv, Held
    <3> QED  BY <1>11, <2>2, <3>1 DEF Held
  <2> QED  BY <2>1, <2>2
<1> QED  BY <1>8, <1>10, <1>11, <1>12, <1>13, <1>14 DEF WireInv

----------------------------------------------------------------------------
(* Steps of a call outside its turn.                                       *)

LEMMA LaneMoves ==
    ASSUME TypeOK, LaneInv, NEW r \in Recipients, NEW to, MovePc(r, to), queue' = queue,
           pc[r] # "queued", to \in InTurn => pc[r] \in InTurn
    PROVE  LaneInv'
<1>1. \A x \in Recipients : pc'[x] = IF x = r THEN to ELSE pc[x]
  BY DEF TypeOK, MovePc
<1>2. \A i \in 1 .. Len(queue) : queue[i] \in Recipients /\ queue[i] # r
  BY DEF TypeOK, LaneInv
<1> QED  BY <1>1, <1>2 DEF LaneInv

\* Before it commits itself a call only moves on or settles.
LEMMA EarlyStepKeeps ==
    ASSUME TreasuryInv, TypeOK', NEW r \in Recipients, NEW to \in {"settled", "called", "pricing"},
           pc[r] \in {"due", "called", "pricing"}, MovePc(r, to),
           UNCHANGED <<chainVars, laneVars, nonce, forgotten>>,
           to = "pricing" => bal[r] < Target /\ r \notin pending,
           pending' = pending \/ (pending' = pending \ {r} /\ bal[r] >= Target)
    PROVE  TreasuryInv'
<1>1. /\ wire' = wire /\ mined' = mined /\ bal' = bal /\ cursor' = cursor /\ queue' = queue
      /\ nonce' = nonce /\ forgotten' = forgotten /\ pending' \subseteq pending
  BY DEF chainVars, laneVars
<1>2. \A x \in Recipients : pc'[x] = IF x = r THEN to ELSE pc[x]
  BY DEF TreasuryInv, TypeOK, MovePc
<1>3. LaneInv'
  BY <1>1, LaneMoves DEF TreasuryInv, InTurn
<1>4. WireInv' /\ PendingCount' = PendingCount
  BY <1>1, WireRests DEF TreasuryInv
<1>5. NonceInv'
  BY <1>1, <1>2, <1>4 DEF TreasuryInv, NonceInv
<1>6. \A t \in wire : t.to \in Recipients
  BY DEF TreasuryInv, TypeOK, Transfer
<1>7. SentInv'
  BY <1>1, <1>2, <1>6 DEF TreasuryInv, SentInv, Marked, InTurn
<1>8. FundInv'
  <2>1. ASSUME NEW t \in wire, t.to \notin forgotten
        PROVE  t.to \in pending' /\ bal[t.to] < Target /\ pc'[t.to] \notin Committed
    <3>1. t.to \in pending /\ bal[t.to] < Target /\ pc[t.to] \notin Committed
      BY <2>1 DEF TreasuryInv, FundInv
    <3>2. bal[t.to] \in Nat /\ Target \in Nat
      BY <1>6, AmountsAssumption DEF TreasuryInv, TypeOK
    <3>3. t.to \in pending'  BY <3>1, <3>2
    <3>4. pc'[t.to] \notin Committed
      BY <1>2, <1>6, <3>1 DEF Committed, InTurn
    <3> QED  BY <3>1, <3>3, <3>4
  <2>2. ASSUME NEW x \in Recipients \ forgotten
        PROVE  /\ pc'[x] \in {"queued"} \cup InTurn => x \in pending'
               /\ pc'[x] \in Committed => bal[x] < Target
    BY <1>2, <2>2 DEF TreasuryInv, FundInv, Committed, InTurn
  <2> QED  BY <1>1, <2>1, <2>2 DEF TreasuryInv, FundInv
<1> QED  BY <1>3, <1>4, <1>5, <1>7, <1>8 DEF TreasuryInv

LEMMA PassStartKeeps ==
    ASSUME TreasuryInv, PassStart PROVE TreasuryInv'
<1>1. TypeOK'
  BY DEF TreasuryInv, TypeOK, PassStart, chainVars, laneVars, Committed, InTurn
<1>2. /\ wire' = wire /\ mined' = mined /\ bal' = bal /\ cursor' = cursor /\ queue' = queue
      /\ nonce' = nonce /\ pending' = pending /\ forgotten' = forgotten
      /\ \A r \in Recipients : pc[r] = "settled" /\ pc'[r] = "due"
  BY DEF PassStart, chainVars, laneVars
<1>3. \A t \in wire : t.to \in Recipients
  BY DEF TreasuryInv, TypeOK, Transfer
<1>4. ASSUME NEW i \in 1 .. Len(queue) PROVE FALSE
  <2>1. queue[i] \in Recipients  BY DEF TreasuryInv, TypeOK
  <2>2. pc[queue[i]] = "queued"  BY DEF TreasuryInv, LaneInv
  <2> QED  BY <1>2, <2>1, <2>2
<1>5. LaneInv'  BY <1>2, <1>4 DEF LaneInv, InTurn
<1>6. WireInv' /\ PendingCount' = PendingCount
  BY <1>2, WireRests DEF TreasuryInv
<1>7. NonceInv'  BY <1>2, <1>6 DEF TreasuryInv, NonceInv
<1>8. SentInv'  BY <1>2, <1>3 DEF TreasuryInv, SentInv, Marked, InTurn
<1>9. FundInv'
  BY <1>2, <1>3 DEF TreasuryInv, FundInv, Committed, InTurn
<1> QED  BY <1>1, <1>5, <1>6, <1>7, <1>8, <1>9 DEF TreasuryInv

LEMMA EarlyKeeps ==
    ASSUME TreasuryInv, NEW r \in Recipients,
           \/ CheckBalance(r) \/ CallFails(r) \/ AlreadyRecovered(r)
           \/ AwaitsTopUp(r) \/ WantsTopUp(r) \/ Refuse(r)
    PROVE  TreasuryInv'
<1>1. CASE CheckBalance(r)
  <2>1. TypeOK'
    BY <1>1 DEF TreasuryInv, TypeOK, CheckBalance, MovePc, chainVars, laneVars, Committed, InTurn
  <2> DEFINE to == IF bal[r] < MinBalance THEN "called" ELSE "settled"
  <2>2. to \in {"settled", "called", "pricing"} /\ to # "pricing" /\ MovePc(r, to)
    BY <1>1 DEF CheckBalance
  <2> HIDE DEF to
  <2> QED  BY <1>1, <2>1, <2>2, EarlyStepKeeps DEF CheckBalance
<1>2. CASE CallFails(r)
  <2>1. faults' \in [FaultKinds -> Nat]
    BY <1>2 DEF TreasuryInv, TypeOK, CallFails, Spend, FaultKinds
  <2>2. TypeOK'
    BY <1>2, <2>1 DEF TreasuryInv, TypeOK, CallFails, MovePc, chainVars, laneVars, Committed, InTurn
  <2> QED  BY <1>2, <2>1, <2>2, EarlyStepKeeps DEF CallFails
<1>3. CASE AlreadyRecovered(r)
  <2>1. TypeOK'
    BY <1>3 DEF TreasuryInv, TypeOK, AlreadyRecovered, MovePc, chainVars, laneVars, Committed, InTurn
  <2> QED  BY <1>3, <2>1, EarlyStepKeeps DEF AlreadyRecovered, Recovered
<1>4. CASE AwaitsTopUp(r)
  <2>1. TypeOK'
    BY <1>4 DEF TreasuryInv, TypeOK, AwaitsTopUp, MovePc, chainVars, laneVars, Committed, InTurn
  <2> QED  BY <1>4, <2>1, EarlyStepKeeps DEF AwaitsTopUp
<1>5. CASE WantsTopUp(r)
  <2>1. /\ bal[r] \in Nat /\ Target \in Nat /\ bal[r] < Target /\ r \notin pending
        /\ Target - bal[r] \in 0 .. Target /\ Target - bal[r] > 0
    BY <1>5, AmountsAssumption DEF TreasuryInv, TypeOK, WantsTopUp, Recovered, AlreadyPending
  <2>2. TypeOK'
    BY <1>5, <2>1 DEF TreasuryInv, TypeOK, WantsTopUp, MovePc, chainVars, laneVars, Committed, InTurn
  <2> QED  BY <1>5, <2>1, <2>2, EarlyStepKeeps DEF WantsTopUp
<1>6. CASE Refuse(r)
  <2>1. TypeOK'
    BY <1>6 DEF TreasuryInv, TypeOK, Refuse, MovePc, chainVars, laneVars, Committed, InTurn
  <2> QED  BY <1>6, <2>1, EarlyStepKeeps DEF Refuse
<1> QED  BY <1>1, <1>2, <1>3, <1>4, <1>5, <1>6

LEMMA CommitKeeps ==
    ASSUME TreasuryInv, NEW r \in Recipients, Commit(r) PROVE TreasuryInv'
<1>1. /\ wire' = wire /\ mined' = mined /\ bal' = bal /\ cursor' = cursor /\ nonce' = nonce
      /\ forgotten' = forgotten /\ queue' = Append(queue, r) /\ pending' = pending \cup {r}
      /\ pc[r] = "pricing"
  BY DEF Commit, chainVars
<1>2. \A x \in Recipients : pc'[x] = IF x = r THEN "queued" ELSE pc[x]
  BY DEF TreasuryInv, TypeOK, Commit, MovePc
<1>3. TypeOK'
  BY DEF TreasuryInv, TypeOK, Commit, MovePc, chainVars, Committed, InTurn
<1>4. queue \in Seq(Recipients)  BY DEF TreasuryInv, TypeOK
<1>5. \A i \in 1 .. Len(queue) : queue[i] \in Recipients /\ queue[i] # r
  BY <1>1, <1>4 DEF TreasuryInv, LaneInv
<1>6. /\ Len(queue') = Len(queue) + 1 /\ Len(queue) \in Nat /\ queue'[Len(queue) + 1] = r
      /\ \A i \in 1 .. Len(queue) : queue'[i] = queue[i]
  BY <1>1, <1>4
<1>7. LaneInv'
  <2>1. \A x, y \in Recipients : pc'[x] \in InTurn /\ pc'[y] \in InTurn => x = y
    BY <1>2 DEF TreasuryInv, LaneInv, InTurn
  <2>2. \A i \in 1 .. Len(queue') : pc'[queue'[i]] = "queued"
    BY <1>2, <1>5, <1>6 DEF TreasuryInv, LaneInv
  <2>3. \A i, j \in 1 .. Len(queue') : queue'[i] = queue'[j] => i = j
    BY <1>5, <1>6 DEF TreasuryInv, LaneInv
  <2> QED  BY <2>1, <2>2, <2>3 DEF LaneInv
<1>8. WireInv' /\ PendingCount' = PendingCount
  BY <1>1, WireRests DEF TreasuryInv
<1>9. NonceInv'  BY <1>1, <1>2, <1>8 DEF TreasuryInv, NonceInv
<1>10. \A t \in wire : t.to \in Recipients  BY DEF TreasuryInv, TypeOK, Transfer
<1>11. SentInv'  BY <1>1, <1>2, <1>10 DEF TreasuryInv, SentInv, Marked, InTurn
<1>12. FundInv'
  BY <1>1, <1>2, <1>10 DEF TreasuryInv, FundInv, Committed, InTurn
<1> QED  BY <1>3, <1>7, <1>8, <1>9, <1>11, <1>12 DEF TreasuryInv

----------------------------------------------------------------------------
(* A turn.                                                                 *)

LEMMA TakeTurnKeeps ==
    ASSUME TreasuryInv, NEW r \in Recipients, TakeTurn(r) PROVE TreasuryInv'
<1>1. /\ wire' = wire /\ mined' = mined /\ bal' = bal /\ cursor' = cursor /\ pending' = pending
      /\ forgotten' = forgotten /\ amount' = amount /\ treasury' = treasury /\ faults' = faults
      /\ queue' = Tail(queue) /\ queue # <<>> /\ r = Head(queue)
      /\ \A x \in Recipients : pc[x] \notin InTurn
  BY DEF TakeTurn, LaneFree, chainVars
<1>2. queue \in Seq(Recipients)  BY DEF TreasuryInv, TypeOK
<1>3. /\ Len(queue) \in Nat /\ Len(queue) >= 1 /\ r = queue[1]
      /\ queue' \in Seq(Recipients) /\ Len(queue') = Len(queue) - 1
      /\ \A i \in 1 .. Len(queue') : queue'[i] = queue[i + 1] /\ i + 1 \in 1 .. Len(queue)
  BY <1>1, <1>2
<1>4. pc[r] = "queued"  BY <1>3 DEF TreasuryInv, LaneInv
<1>5. PICK to \in {"counting", "sending"} :
        /\ MovePc(r, to)
        /\ to = "counting" => cursor = Undefined /\ nonce' = nonce
        /\ to = "sending" => cursor # Undefined /\ nonce' = [nonce EXCEPT ![r] = cursor]
  BY DEF TakeTurn
<1>6. \A x \in Recipients : pc'[x] = IF x = r THEN to ELSE pc[x]
  BY <1>5 DEF TreasuryInv, TypeOK, MovePc
<1>7. TypeOK'
  <2>1. nonce' \in [Recipients -> Nat]
    BY <1>5 DEF TreasuryInv, TypeOK
  <2>2. pc' \in [Recipients -> {"settled", "due", "called"} \cup Committed]
    BY <1>5 DEF TreasuryInv, TypeOK, MovePc, Committed, InTurn
  <2>3. \A x \in Recipients : pc'[x] \in Committed => amount[x] > 0
    BY <1>4, <1>6 DEF TreasuryInv, TypeOK, Committed, InTurn
  <2> QED  BY <1>1, <1>3, <2>1, <2>2, <2>3 DEF TreasuryInv, TypeOK
<1>8. LaneInv'
  <2>1. \A x, y \in Recipients : pc'[x] \in InTurn /\ pc'[y] \in InTurn => x = y
    BY <1>1, <1>6
  <2>2. \A i \in 1 .. Len(queue') : pc'[queue'[i]] = "queued"
    <3>1. ASSUME NEW i \in 1 .. Len(queue') PROVE pc'[queue'[i]] = "queued"
      <4>1. queue[i + 1] # queue[1] /\ pc[queue[i + 1]] = "queued"
        BY <1>3 DEF TreasuryInv, LaneInv
      <4>2. queue[i + 1] \in Recipients  BY <1>2, <1>3
      <4> QED  BY <1>3, <1>6, <4>1, <4>2
    <3> QED  BY <3>1
  <2>3. \A i, j \in 1 .. Len(queue') : queue'[i] = queue'[j] => i = j
    <3>1. ASSUME NEW i \in 1 .. Len(queue'), NEW j \in 1 .. Len(queue'), queue'[i] = queue'[j]
          PROVE  i = j
      <4>1. i + 1 = j + 1  BY <1>3, <3>1 DEF TreasuryInv, LaneInv
      <4> QED  BY <4>1
    <3> QED  BY <3>1
  <2> QED  BY <2>1, <2>2, <2>3 DEF LaneInv
<1>9. WireInv' /\ PendingCount' = PendingCount
  BY <1>1, WireRests DEF TreasuryInv
<1>10. NonceInv'
  <2>1. /\ to = "counting" => cursor = Undefined
        /\ to = "sending" => cursor # Undefined /\ nonce'[r] = cursor
    BY <1>5 DEF TreasuryInv, TypeOK
  <2> QED  BY <1>1, <1>6, <1>9, <2>1 DEF TreasuryInv, NonceInv, InTurn
<1>11. \A t \in wire : t.to \in Recipients  BY DEF TreasuryInv, TypeOK, Transfer
<1>12. SentInv'  BY <1>1, <1>4, <1>6, <1>11 DEF TreasuryInv, SentInv, Marked, InTurn
<1>13. FundInv'
  BY <1>1, <1>4, <1>6, <1>11 DEF TreasuryInv, FundInv, Committed, InTurn
<1> QED  BY <1>7, <1>8, <1>9, <1>10, <1>12, <1>13 DEF TreasuryInv

\* While a turn is on its way nobody else has one, and its nonce is the
\* next free one or the one before.
LEMMA TurnNonce ==
    ASSUME TreasuryInv, NEW r \in Recipients, pc[r] \in {"sending", "drift"}
    PROVE  /\ PendingCount \in Nat /\ nonce[r] \in Nat /\ mined \in Nat
           /\ \/ nonce[r] = PendingCount
              \/ nonce[r] + 1 = PendingCount /\ cursor = nonce[r] /\ cursor # Undefined
           /\ cursor = Undefined \/ cursor = nonce[r]
           /\ mined <= PendingCount
<1>1. PendingCount \in Nat /\ mined <= PendingCount
  BY PendingCountIsNat DEF TreasuryInv
<1>2. nonce[r] \in Nat /\ mined \in Nat /\ cursor \in {Undefined} \cup Nat
  BY DEF TreasuryInv, TypeOK
<1> QED  BY <1>1, <1>2 DEF TreasuryInv, NonceInv, Undefined

\* A turn that ends in an error: the mark is cleared, and the cursor is the
\* pending count or where it was.
LEMMA FailedTurnKeeps ==
    ASSUME TreasuryInv, TypeOK', NEW r \in Recipients, pc[r] \in InTurn, MovePc(r, "settled"),
           pending' = pending \ {r}, UNCHANGED <<wire, mined, bal, queue, forgotten>>,
           cursor' = cursor \/ cursor' = PendingCount
    PROVE  TreasuryInv'
<1>1. \A x \in Recipients : pc'[x] = IF x = r THEN "settled" ELSE pc[x]
  BY DEF TreasuryInv, TypeOK, MovePc
<1>2. LaneInv'  BY LaneMoves DEF TreasuryInv, InTurn
<1>3. WireInv' /\ PendingCount' = PendingCount  BY WireRests DEF TreasuryInv
<1>4. PendingCount \in Nat  BY PendingCountIsNat DEF TreasuryInv
<1>5. \A x \in Recipients : pc'[x] \notin InTurn
  BY <1>1 DEF TreasuryInv, LaneInv, InTurn
<1>6. NonceInv'
  BY <1>3, <1>4, <1>5 DEF TreasuryInv, NonceInv, InTurn
<1>7. \A t \in wire : t.to \in Recipients /\ t.nonce < PendingCount
  BY DEF TreasuryInv, TypeOK, WireInv, Transfer
<1>8. SentInv'
  <2>1. \A t \in wire : Marked(t.to)' => Marked(t.to)
    BY <1>1, <1>7 DEF Marked, InTurn
  <2> QED  BY <1>4, <1>7, <2>1 DEF TreasuryInv, SentInv, Undefined
<1>9. FundInv'
  <2>1. r \notin forgotten => \A t \in wire : t.to # r
    BY DEF TreasuryInv, FundInv, Committed
  <2> QED  BY <1>1, <1>7, <2>1 DEF TreasuryInv, FundInv, Committed, InTurn
<1> QED  BY <1>2, <1>3, <1>6, <1>8, <1>9 DEF TreasuryInv

LEMMA CountNonceKeeps ==
    ASSUME TreasuryInv, NEW r \in Recipients, CountNonce(r) PROVE TreasuryInv'
<1>1. PendingCount \in Nat  BY PendingCountIsNat DEF TreasuryInv
<1>2. CASE Spend("rpc") /\ TurnFails(r) /\ nonce' = nonce
  <2>1. faults' \in [FaultKinds -> Nat]
    BY <1>2 DEF TreasuryInv, TypeOK, Spend, FaultKinds
  <2>2. TypeOK'
    BY <1>2, <2>1
       DEF TreasuryInv, TypeOK, CountNonce, TurnFails, Unmarked, MovePc, chainVars, Committed, InTurn
  <2> QED  BY <1>2, <2>1, <2>2, FailedTurnKeeps
           DEF CountNonce, TurnFails, Unmarked, chainVars, InTurn
<1>3. CASE /\ nonce' = [nonce EXCEPT ![r] = PendingCount] /\ MovePc(r, "sending")
           /\ UNCHANGED <<pending, cursor, faults>>
  <2>1. \A x \in Recipients : pc'[x] = IF x = r THEN "sending" ELSE pc[x]
    BY <1>3 DEF TreasuryInv, TypeOK, MovePc
  <2>2. TypeOK'
    BY <1>1, <1>3 DEF TreasuryInv, TypeOK, CountNonce, MovePc, chainVars, Committed, InTurn
  <2>3. LaneInv'  BY <1>3, LaneMoves DEF TreasuryInv, CountNonce, InTurn
  <2>4. WireInv' /\ PendingCount' = PendingCount
    BY WireRests DEF TreasuryInv, CountNonce, chainVars
  <2>5. nonce'[r] = PendingCount /\ cursor' = Undefined /\ cursor = Undefined
    BY <1>3 DEF TreasuryInv, TypeOK, NonceInv, CountNonce
  <2>6. \A x \in Recipients : x # r => pc'[x] \notin InTurn
    BY <2>1 DEF TreasuryInv, LaneInv, CountNonce, InTurn
  <2>7. NonceInv'
    BY <2>1, <2>4, <2>5, <2>6 DEF NonceInv, InTurn
  <2>8. \A t \in wire : t.to \in Recipients  BY DEF TreasuryInv, TypeOK, Transfer
  <2>9. SentInv'
    BY <1>3, <2>1, <2>8 DEF TreasuryInv, SentInv, Marked, CountNonce, chainVars, InTurn
  <2>10. FundInv'
    BY <1>3, <2>1, <2>8
       DEF TreasuryInv, FundInv, CountNonce, chainVars, Committed, InTurn
  <2> QED  BY <2>2, <2>3, <2>4, <2>7, <2>9, <2>10 DEF TreasuryInv
<1> QED  BY <1>2, <1>3 DEF CountNonce

\* What a send that the node took leaves: everything on the wire is below
\* the new pending count, and nothing is new but the transfer.
LEMMA Gossiped ==
    ASSUME TreasuryInv, NEW r \in Recipients, pc[r] = "sending", Accepts(nonce[r]),
           Gossip([to |-> r, value |-> amount[r], nonce |-> nonce[r]]), mined' = mined
    PROVE  /\ WireInv' /\ PendingCount' = nonce[r] + 1
           /\ wire' \subseteq wire \cup {[to |-> r, value |-> amount[r], nonce |-> nonce[r]]}
<1> DEFINE t == [to |-> r, value |-> amount[r], nonce |-> nonce[r]]
<1>1. t \in Transfer /\ t.nonce = nonce[r]
  BY DEF TreasuryInv, TypeOK, Transfer
<1>2. nonce[r] = PendingCount \/ nonce[r] + 1 = PendingCount
  BY TurnNonce
<1>3. mined <= nonce[r] /\ PendingCount \in Nat
  BY TurnNonce DEF Accepts
<1> HIDE DEF t
<1>4. Gossip(t)  BY DEF t
<1>5. CASE nonce[r] = PendingCount
  <2>1. WireInv' /\ PendingCount' = PendingCount + 1 /\ wire' = wire \cup {t}
    BY <1>1, <1>4, <1>5, GossipExtends DEF TreasuryInv
  <2> QED  BY <1>5, <2>1 DEF t
<1>6. CASE nonce[r] + 1 = PendingCount
  <2>1. /\ WireInv' /\ PendingCount' = PendingCount
        /\ wire' = {u \in wire : u.nonce # t.nonce} \cup {t}
    BY <1>1, <1>3, <1>4, <1>6, GossipReplaces DEF TreasuryInv
  <2> QED  BY <1>6, <2>1 DEF t
<1> QED  BY <1>2, <1>5, <1>6

LEMMA SendSucceeds ==
    ASSUME TreasuryInv, TypeOK', NEW r \in Recipients, pc[r] = "sending", Accepts(nonce[r]),
           Gossip([to |-> r, value |-> amount[r], nonce |-> nonce[r]]),
           cursor' = nonce[r] + 1, MovePc(r, "settled"),
           UNCHANGED <<pending, forgotten, bal, mined, queue>>
    PROVE  TreasuryInv'
<1> DEFINE t == [to |-> r, value |-> amount[r], nonce |-> nonce[r]]
<1>1. WireInv' /\ PendingCount' = nonce[r] + 1 /\ wire' \subseteq wire \cup {t}
  BY Gossiped
<1>2. t.to = r /\ nonce[r] \in Nat  BY TurnNonce
<1> HIDE DEF t
<1>3. \A x \in Recipients : pc'[x] = IF x = r THEN "settled" ELSE pc[x]
  BY DEF TreasuryInv, TypeOK, MovePc
<1>4. LaneInv'  BY LaneMoves DEF TreasuryInv, InTurn
<1>5. \A x \in Recipients : pc'[x] \notin InTurn
  BY <1>3 DEF TreasuryInv, LaneInv, InTurn
<1>6. NonceInv'  BY <1>1, <1>2, <1>5 DEF NonceInv, InTurn
<1>7. \A u \in wire' : u.nonce \in Nat /\ u.nonce < PendingCount'
  BY <1>1 DEF TypeOK, WireInv, Transfer
<1>8. SentInv'  BY <1>1, <1>2, <1>7 DEF SentInv, Undefined
<1>9. FundInv'
  <2>1. ASSUME r \notin forgotten
        PROVE  r \in pending /\ bal[r] < Target /\ \A u \in wire : u.to # r
    BY <2>1 DEF TreasuryInv, FundInv, Committed, InTurn
  <2>2. \A u \in wire : u.to \in Recipients  BY DEF TreasuryInv, TypeOK, Transfer
  <2>3. ASSUME NEW u \in wire', u.to \notin forgotten
        PROVE  u.to \in pending /\ bal[u.to] < Target /\ pc'[u.to] \notin Committed
    <3>1. CASE u = t  BY <1>2, <1>3, <2>1, <2>3, <3>1 DEF Committed, InTurn
    <3>2. CASE u \in wire  BY <1>3, <2>1, <2>2, <2>3, <3>2 DEF TreasuryInv, FundInv
    <3> QED  BY <1>1, <3>1, <3>2
  <2>4. \A u, v \in wire' : u.to = v.to /\ u.to \notin forgotten => u = v
    BY <1>1, <1>2, <2>1 DEF TreasuryInv, FundInv
  <2>5. ASSUME NEW x \in Recipients \ forgotten
        PROVE  /\ pc'[x] \in {"queued"} \cup InTurn => x \in pending
               /\ pc'[x] \in Committed => bal[x] < Target
    BY <1>3, <2>5 DEF TreasuryInv, FundInv, Committed, InTurn
  <2> QED  BY <2>3, <2>4, <2>5 DEF FundInv
<1> QED  BY <1>1, <1>4, <1>6, <1>8, <1>9 DEF TreasuryInv

LEMMA ReplyIsLost ==
    ASSUME TreasuryInv, TypeOK', NEW r \in Recipients, pc[r] = "sending", Accepts(nonce[r]),
           Gossip([to |-> r, value |-> amount[r], nonce |-> nonce[r]]),
           TurnFails(r), forgotten' = forgotten \cup {r}, UNCHANGED <<bal, mined, queue>>
    PROVE  TreasuryInv'
<1> DEFINE t == [to |-> r, value |-> amount[r], nonce |-> nonce[r]]
<1>1. WireInv' /\ PendingCount' = nonce[r] + 1 /\ wire' \subseteq wire \cup {t}
  BY Gossiped
<1>2. t.to = r /\ nonce[r] \in Nat  BY TurnNonce
<1> HIDE DEF t
<1>3. /\ pending' = pending \ {r} /\ cursor' = cursor
      /\ \A x \in Recipients : pc'[x] = IF x = r THEN "settled" ELSE pc[x]
  BY DEF TreasuryInv, TypeOK, MovePc, TurnFails, Unmarked
<1>4. LaneInv'  BY LaneMoves DEF TreasuryInv, InTurn, TurnFails
<1>5. \A x \in Recipients : pc'[x] \notin InTurn
  BY <1>3 DEF TreasuryInv, LaneInv, InTurn
<1>6. NonceInv'
  <2>1. cursor = Undefined \/ cursor = nonce[r]  BY TurnNonce
  <2> QED  BY <1>1, <1>2, <1>3, <1>5, <2>1 DEF NonceInv, InTurn
<1>7. SentInv'
  <2>1. \A u \in wire : u.to \in Recipients  BY DEF TreasuryInv, TypeOK, Transfer
  <2>2. ASSUME NEW u \in wire', Marked(u.to)'
        PROVE  cursor' # Undefined /\ u.nonce < cursor'
    <3>1. u.to # r  BY <1>3, <2>2 DEF Marked
    <3>2. u \in wire  BY <1>1, <1>2, <3>1
    <3>3. Marked(u.to)  BY <1>3, <2>1, <2>2, <3>1, <3>2 DEF Marked
    <3> QED  BY <1>3, <3>2, <3>3 DEF TreasuryInv, SentInv
  <2> QED  BY <2>2 DEF SentInv
<1>8. FundInv'
  <2>1. \A u \in wire : u.to \in Recipients  BY DEF TreasuryInv, TypeOK, Transfer
  <2>2. \A u \in wire' : u.to \notin forgotten' => u \in wire /\ u.to # r /\ u.to \notin forgotten
    BY <1>1, <1>2
  <2> QED  BY <1>3, <2>1, <2>2 DEF TreasuryInv, FundInv
<1> QED  BY <1>1, <1>4, <1>6, <1>7, <1>8 DEF TreasuryInv

LEMMA SendKeeps ==
    ASSUME TreasuryInv, NEW r \in Recipients, Send(r) PROVE TreasuryInv'
<1> DEFINE t == [to |-> r, value |-> amount[r], nonce |-> nonce[r]]
<1>1. /\ pc[r] = "sending" /\ nonce[r] + 1 \in Nat /\ t \in Transfer
      /\ UNCHANGED <<bal, treasury, mined, queue, amount, nonce>>
  BY TurnNonce DEF Send, TreasuryInv, TypeOK, Transfer
<1>2. Gossip(t) => wire' \in SUBSET Transfer
  BY <1>1 DEF Gossip, TreasuryInv, TypeOK
<1>3. ASSUME NEW kind \in {"rpc", "lost"}, Spend(kind)
      PROVE  faults' \in [FaultKinds -> Nat]
  BY <1>3 DEF TreasuryInv, TypeOK, Spend, FaultKinds
<1> HIDE DEF t
<1>4. CASE /\ Accepts(nonce[r]) /\ CanPay(amount[r]) /\ Gossip(t)
           /\ cursor' = nonce[r] + 1 /\ MovePc(r, "settled") /\ UNCHANGED <<pending, forgotten, faults>>
  <2>1. TypeOK'
    BY <1>1, <1>2, <1>4 DEF TreasuryInv, TypeOK, MovePc, Committed, InTurn
  <2> QED  BY <1>1, <1>4, <2>1, SendSucceeds DEF t
<1>5. CASE /\ Drifts(nonce[r]) /\ MovePc(r, "drift")
           /\ UNCHANGED <<wire, pending, cursor, forgotten, faults>>
  <2>1. TypeOK'
    BY <1>1, <1>5 DEF TreasuryInv, TypeOK, MovePc, Committed, InTurn
  <2>2. \A x \in Recipients : pc'[x] = IF x = r THEN "drift" ELSE pc[x]
    BY <1>5 DEF TreasuryInv, TypeOK, MovePc
  <2>3. LaneInv'  BY <1>1, <1>5, LaneMoves DEF TreasuryInv, InTurn
  <2>4. WireInv' /\ PendingCount' = PendingCount
    BY <1>1, <1>5, WireRests DEF TreasuryInv
  <2>5. \A u \in wire : u.to \in Recipients /\ u.nonce \in Nat /\ u.nonce < PendingCount
    BY DEF TreasuryInv, TypeOK, WireInv, Transfer
  <2>6. nonce[r] # PendingCount
    <3>1. PendingCount \in Nat /\ mined <= PendingCount /\ mined \in Nat
      BY <1>1, TurnNonce
    <3>2. Held(PendingCount) = {}  BY <2>5, <3>1 DEF Held
    <3> QED  BY <1>5, <3>1, <3>2 DEF Drifts
  <2>7. cursor = nonce[r] /\ PendingCount = nonce[r] + 1
    BY <1>1, <2>6, TurnNonce
  <2>8. \A x \in Recipients : x # r => pc[x] \notin InTurn
    BY <1>1 DEF TreasuryInv, LaneInv, InTurn
  <2>9. NonceInv'
    BY <1>1, <1>5, <2>2, <2>4, <2>7, <2>8 DEF TreasuryInv, NonceInv, InTurn
  <2>10. SentInv'
    BY <1>1, <1>5, <2>2, <2>5 DEF TreasuryInv, SentInv, Marked, InTurn
  <2>11. FundInv'
    BY <1>1, <1>5, <2>2, <2>5 DEF TreasuryInv, FundInv, Committed, InTurn
  <2> QED  BY <2>1, <2>3, <2>4, <2>9, <2>10, <2>11 DEF TreasuryInv
<1>6. CASE TurnFails(r) /\ UNCHANGED <<wire, forgotten, faults>>
  <2>1. TypeOK'
    BY <1>1, <1>6 DEF TreasuryInv, TypeOK, TurnFails, Unmarked, MovePc, Committed, InTurn
  <2> QED  BY <1>1, <1>6, <2>1, FailedTurnKeeps DEF TurnFails, Unmarked, InTurn
<1>7. CASE Spend("rpc") /\ TurnFails(r) /\ UNCHANGED <<wire, forgotten>>
  <2>1. TypeOK'
    BY <1>1, <1>3, <1>7 DEF TreasuryInv, TypeOK, TurnFails, Unmarked, MovePc, Committed, InTurn
  <2> QED  BY <1>1, <1>3, <1>7, <2>1, FailedTurnKeeps DEF TurnFails, Unmarked, InTurn
<1>8. CASE /\ Spend("lost") /\ Accepts(nonce[r]) /\ Gossip(t) /\ TurnFails(r)
           /\ forgotten' = forgotten \cup {r}
  <2>1. TypeOK'
    BY <1>1, <1>2, <1>3, <1>8 DEF TreasuryInv, TypeOK, TurnFails, Unmarked, MovePc, Committed, InTurn
  <2> QED  BY <1>1, <1>8, <2>1, ReplyIsLost DEF t
<1> QED  BY <1>4, <1>5, <1>6, <1>7, <1>8 DEF Send, t

LEMMA PassNonceKeeps ==
    ASSUME TreasuryInv, NEW r \in Recipients, PassNonce(r) PROVE TreasuryInv'
<1>1. pc[r] = "drift" /\ PendingCount \in Nat /\ PendingCount = nonce[r] + 1
  BY TurnNonce DEF TreasuryInv, NonceInv, PassNonce
<1>2. Max({PendingCount, nonce[r] + 1}) = PendingCount
  <2>1. {PendingCount, nonce[r] + 1} = {PendingCount}  BY <1>1
  <2> QED  BY <1>1, <2>1 DEF Max
<1>3. cursor' = PendingCount  BY <1>1, <1>2 DEF PassNonce
<1>4. faults' \in [FaultKinds -> Nat]
  BY DEF TreasuryInv, TypeOK, PassNonce, Spend, FaultKinds
<1>5. /\ pending' = pending \ {r} /\ MovePc(r, "settled")
      /\ UNCHANGED <<bal, treasury, wire, mined, queue, amount, nonce, forgotten>>
  BY DEF PassNonce, Unmarked, chainVars
<1>6. TypeOK'
  BY <1>1, <1>3, <1>4, <1>5 DEF TreasuryInv, TypeOK, MovePc, Committed, InTurn
<1> QED  BY <1>1, <1>3, <1>4, <1>5, <1>6, FailedTurnKeeps DEF InTurn

----------------------------------------------------------------------------
(* The chain.                                                              *)

LEMMA MineKeeps ==
    ASSUME TreasuryInv, NEW t \in wire, MineTransfer(t) PROVE TreasuryInv'
<1>1. /\ wire' = wire \ {t} /\ mined' = mined + 1 /\ t.nonce = mined
      /\ bal' = [bal EXCEPT ![t.to] = @ + t.value] /\ treasury' = treasury - t.value - GasCost
      /\ treasury >= t.value + GasCost
      /\ UNCHANGED <<pending, cursor, queue, pc, amount, nonce, forgotten, faults>>
  BY DEF MineTransfer, CanPay, laneVars, callVars
<1>2. t.to \in Recipients /\ t.value \in Nat /\ t.nonce \in Nat /\ mined \in Nat /\ GasCost \in Nat
  BY AmountsAssumption DEF TreasuryInv, TypeOK, Transfer
<1>3. treasury' \in Nat  BY <1>1, <1>2 DEF TreasuryInv, TypeOK
<1>4. TypeOK'
  <2>1. bal' \in [Recipients -> Nat]  BY <1>1, <1>2 DEF TreasuryInv, TypeOK
  <2>2. mined' \in Nat /\ wire' \in SUBSET Transfer  BY <1>1, <1>2 DEF TreasuryInv, TypeOK
  <2> QED  BY <1>1, <1>3, <2>1, <2>2 DEF TreasuryInv, TypeOK
<1>5. IsFiniteSet(wire') /\ Cardinality(wire') = Cardinality(wire) - 1 /\ Cardinality(wire) \in Nat
  BY <1>1, FS_RemoveElement, FS_CardinalityType DEF TreasuryInv, WireInv
<1>6. PendingCount' = PendingCount /\ PendingCount \in Nat
  BY <1>1, <1>2, <1>5, PendingCountIsNat DEF TreasuryInv, PendingCount
<1>7. \A u \in wire : u.to \in Recipients /\ u.nonce \in Nat /\ mined <= u.nonce /\ u.nonce < PendingCount
  BY DEF TreasuryInv, TypeOK, WireInv, Transfer
<1>8. WireInv'
  <2>1. \A u, v \in wire' : u.nonce = v.nonce => u = v
    BY <1>1 DEF TreasuryInv, WireInv
  <2>2. ASSUME NEW u \in wire' PROVE mined' <= u.nonce /\ u.nonce < PendingCount'
    <3>1. u \in wire /\ u # t  BY <1>1
    <3>2. u.nonce # t.nonce  BY <3>1 DEF TreasuryInv, WireInv
    <3>3. /\ u.nonce \in Nat /\ mined <= u.nonce /\ u.nonce < PendingCount
          /\ u.nonce # mined
      BY <1>1, <1>7, <3>1, <3>2
    <3>4. mined + 1 <= u.nonce  BY <1>2, <3>3
    <3> QED  BY <1>1, <1>6, <3>3, <3>4
  <2>3. ASSUME NEW n \in Nat, mined' <= n, n < PendingCount' PROVE Held(n)' # {}
    <3>1. mined <= n /\ n # mined  BY <1>1, <1>2, <2>3
    <3>2. PICK u \in wire : u.nonce = n  BY <1>6, <2>3, <3>1 DEF TreasuryInv, WireInv, Held
    <3>3. u \in wire'  BY <1>1, <3>1, <3>2
    <3> QED  BY <3>2, <3>3 DEF Held
  <2> QED  BY <1>5, <2>1, <2>2, <2>3 DEF WireInv
<1>9. LaneInv'  BY <1>1 DEF TreasuryInv, LaneInv
<1>10. NonceInv'  BY <1>1, <1>6 DEF TreasuryInv, NonceInv
<1>11. SentInv'  BY <1>1 DEF TreasuryInv, SentInv, Marked
<1>12. FundInv'
  <2>1. ASSUME t.to \notin forgotten
        PROVE  (\A u \in wire' : u.to # t.to) /\ pc[t.to] \notin Committed
    BY <1>1, <2>1 DEF TreasuryInv, FundInv
  <2>2. \A x \in Recipients : x # t.to => bal'[x] = bal[x]
    BY <1>1 DEF TreasuryInv, TypeOK
  <2> QED  BY <1>1, <1>7, <2>1, <2>2 DEF TreasuryInv, FundInv
<1> QED  BY <1>4, <1>8, <1>9, <1>10, <1>11, <1>12 DEF TreasuryInv

LEMMA DrainKeeps ==
    ASSUME TreasuryInv, NEW r \in Recipients, Drain(r) PROVE TreasuryInv'
<1>1. /\ UNCHANGED <<treasury, wire, mined, pending, cursor, queue, pc, amount, nonce, forgotten>>
      /\ bal[r] > 0 /\ bal' = [bal EXCEPT ![r] = @ - 1]
  BY DEF Drain, laneVars, callVars
<1>2. faults' \in [FaultKinds -> Nat]
  BY DEF TreasuryInv, TypeOK, Drain, Spend, FaultKinds
<1>3. bal' \in [Recipients -> Nat] /\ bal \in [Recipients -> Nat] /\ Target \in Nat
  BY <1>1, AmountsAssumption DEF TreasuryInv, TypeOK
<1>4. \A x \in Recipients : bal'[x] <= bal[x]  BY <1>1, <1>3
<1>5. TypeOK'  BY <1>1, <1>2, <1>3 DEF TreasuryInv, TypeOK
<1>6. WireInv' /\ PendingCount' = PendingCount  BY <1>1, WireRests DEF TreasuryInv
<1>7. LaneInv' /\ NonceInv' /\ SentInv'
  BY <1>1, <1>6 DEF TreasuryInv, LaneInv, NonceInv, SentInv, Marked
<1>8. \A x \in Recipients : bal[x] < Target => bal'[x] < Target  BY <1>3, <1>4
<1>9. \A t \in wire : t.to \in Recipients  BY DEF TreasuryInv, TypeOK, Transfer
<1>10. FundInv'
  BY <1>1, <1>8, <1>9 DEF TreasuryInv, FundInv
<1> QED  BY <1>5, <1>6, <1>7, <1>10 DEF TreasuryInv

----------------------------------------------------------------------------
(* A new process: it marks nobody, and every transfer on the wire is one   *)
(* it has forgotten.                                                       *)
LEMMA RestartKeeps ==
    ASSUME TreasuryInv, Restart PROVE TreasuryInv'
<1>1. /\ wire' = wire /\ mined' = mined /\ bal' = bal
      /\ pending' = {} /\ cursor' = Undefined /\ queue' = <<>>
      /\ forgotten' = forgotten \cup {t.to : t \in wire}
      /\ \A r \in Recipients : pc'[r] = "settled"
  BY DEF Restart, chainVars
<1>2. faults' \in [FaultKinds -> Nat]
  BY DEF TreasuryInv, TypeOK, Restart, Spend, FaultKinds
<1>3. \A t \in wire : t.to \in Recipients  BY DEF TreasuryInv, TypeOK, Transfer
<1>4. TypeOK'
  BY <1>1, <1>2, <1>3 DEF TreasuryInv, TypeOK, Restart, chainVars, Committed, InTurn
<1>5. LaneInv'  BY <1>1 DEF LaneInv, InTurn
<1>6. WireInv'  BY <1>1, WireRests DEF TreasuryInv
<1>7. NonceInv'  BY <1>1 DEF NonceInv
<1>8. SentInv'  BY <1>1 DEF SentInv, Marked
<1>9. FundInv'  BY <1>1 DEF FundInv, Committed, InTurn
<1> QED  BY <1>4, <1>5, <1>6, <1>7, <1>8, <1>9 DEF TreasuryInv

----------------------------------------------------------------------------
LEMMA TreasuryInit == Init => TreasuryInv
<1> SUFFICES ASSUME Init PROVE TreasuryInv
  OBVIOUS
<1>1. TypeOK
  BY AmountsAssumption, BudgetAssumption DEF Init, TypeOK, Committed, InTurn, Undefined
<1>2. LaneInv  BY DEF Init, LaneInv, InTurn
<1>3. WireInv
  <2>1. IsFiniteSet(wire) /\ PendingCount = 0
    BY FS_EmptySet DEF Init, PendingCount
  <2> QED  BY <2>1 DEF Init, WireInv
<1>4. NonceInv  BY DEF Init, NonceInv
<1>5. SentInv  BY DEF Init, SentInv
<1>6. FundInv
  BY DEF Init, FundInv, Committed, InTurn
<1> QED  BY <1>1, <1>2, <1>3, <1>4, <1>5, <1>6 DEF TreasuryInv

LEMMA TreasuryStep == TreasuryInv /\ [Next]_vars => TreasuryInv'
<1> SUFFICES ASSUME TreasuryInv, [Next]_vars PROVE TreasuryInv'
  OBVIOUS
<1>1. CASE PassStart  BY <1>1, PassStartKeeps
<1>2. ASSUME NEW r \in Recipients, CallStep(r) PROVE TreasuryInv'
  BY <1>2, EarlyKeeps, CommitKeeps, TakeTurnKeeps, CountNonceKeeps, SendKeeps, PassNonceKeeps
     DEF CallStep
<1>3. ASSUME NEW r \in Recipients, Drain(r) PROVE TreasuryInv'  BY <1>3, DrainKeeps
<1>4. CASE ChainMines  BY <1>4, MineKeeps DEF ChainMines
<1>5. CASE UNCHANGED vars
  <2>1. WireInv' /\ PendingCount' = PendingCount
    BY <1>5, WireRests DEF TreasuryInv, vars, chainVars
  <2>2. TypeOK' /\ LaneInv' /\ NonceInv' /\ SentInv' /\ FundInv'
    BY <1>5, <2>1 DEF TreasuryInv, TypeOK, LaneInv, NonceInv, SentInv, Marked, FundInv,
                      vars, chainVars, laneVars, callVars
  <2> QED  BY <2>1, <2>2 DEF TreasuryInv
<1>6. CASE Restart  BY <1>6, RestartKeeps
<1> QED  BY <1>1, <1>2, <1>3, <1>4, <1>5, <1>6 DEF Next

THEOREM TreasuryInductive == Spec => []TreasuryInv
BY TreasuryInit, TreasuryStep, PTL DEF Spec

(* Balances, nonces and amounts are well typed: in particular the treasury *)
(* never mines more than it has, and every committed amount is positive.   *)
THEOREM TreasuryTypes == Spec => []TypeOK
<1>1. TreasuryInv => TypeOK  BY DEF TreasuryInv
<1> QED  BY <1>1, TreasuryInductive, PTL

(* nonce-lane.ts: "a failed send reuses the nonce -- no gap": a treasury   *)
(* transfer never waits behind a nonce that nothing holds, whatever calls  *)
(* fail and replies get lost.                                              *)
THEOREM NothingBlocked == Spec => []NoTransferBlocked
<1>1. TreasuryInv => NoTransferBlocked
  <2> SUFFICES ASSUME TreasuryInv, NEW t \in wire, NEW n \in mined .. t.nonce
               PROVE  Held(n) # {}
    BY DEF NoTransferBlocked
  <2>1. mined \in Nat /\ PendingCount \in Nat /\ t.nonce \in Nat /\ t.nonce < PendingCount
    BY PendingCountIsNat DEF TreasuryInv, TypeOK, WireInv, Transfer
  <2> QED  BY <2>1 DEF TreasuryInv, WireInv
<1> QED  BY <1>1, TreasuryInductive, PTL

(* treasury-funder.ts: "we never double-fund while the first top-up is     *)
(* still in the mempool", whatever calls fail, whenever the process dies   *)
(* and however many replies get lost: a recipient is funded twice only     *)
(* after one of its own top-ups was out while the process died, or its     *)
(* reply was lost.                                                         *)
THEOREM NoDoubleFunding == Spec => []OneTopUpInFlight
<1>1. TreasuryInv => OneTopUpInFlight
  <2> SUFFICES ASSUME TreasuryInv, NEW r \in Recipients \ forgotten
               PROVE  Cardinality({t \in wire : t.to = r}) <= 1
    BY DEF OneTopUpInFlight
  <2>1. \A t, u \in wire : t.to = u.to /\ t.to \notin forgotten => t = u
    BY DEF TreasuryInv, FundInv
  <2>2. CASE {t \in wire : t.to = r} = {}
    BY <2>2, FS_EmptySet
  <2>3. CASE {t \in wire : t.to = r} # {}
    <3>1. PICK t \in wire : t.to = r  BY <2>3
    <3>2. {u \in wire : u.to = r} = {t}  BY <2>1, <3>1
    <3>3. Cardinality({t}) = 1  BY FS_Singleton
    <3> QED  BY <3>2, <3>3
  <2> QED  BY <2>2, <2>3
<1> QED  BY <1>1, TreasuryInductive, PTL

(* A transfer whose call succeeded leaves the wire only by being mined,    *)
(* whatever is lost, for any number of recipients.                         *)
THEOREM SentIsMinedOrWaits == Spec => SentStaysSent
<1>1. ASSUME TreasuryInv, [Next]_vars, NEW t \in wire, Marked(t.to)
      PROVE  t \in wire' \/ mined' > t.nonce
  <2>1. cursor # Undefined /\ t.nonce < cursor /\ t.nonce \in Nat /\ cursor \in Nat
    BY <1>1 DEF TreasuryInv, TypeOK, SentInv, Transfer
  <2>2. CASE wire' = wire  BY <2>2
  <2>3. ASSUME NEW r \in Recipients, Send(r), wire' # wire
        PROVE  t \in wire'
    <3>1. /\ pc[r] = "sending"
          /\ Gossip([to |-> r, value |-> amount[r], nonce |-> nonce[r]])
      BY <2>3 DEF Send, TurnFails
    <3>2. nonce[r] = cursor
      BY <1>1, <2>1, <3>1 DEF TreasuryInv, NonceInv
    <3> QED  BY <2>1, <3>1, <3>2 DEF Gossip, Held
  <2>4. ASSUME NEW u \in wire, MineTransfer(u)
        PROVE  t \in wire' \/ mined' > t.nonce
    <3>1. wire' = wire \ {u} /\ mined' = mined + 1 /\ u.nonce = mined /\ mined \in Nat
      BY <1>1, <2>4 DEF MineTransfer, TreasuryInv, TypeOK
    <3> QED  BY <2>1, <3>1
  <2>5. \/ wire' = wire
        \/ \E r \in Recipients : Send(r)
        \/ \E u \in wire : MineTransfer(u)
    BY <1>1 DEF Next, CallStep, PassStart, CheckBalance, CallFails, AlreadyRecovered, AwaitsTopUp,
                WantsTopUp, Refuse, Commit, TakeTurn, CountNonce, PassNonce, Drain, ChainMines,
                Restart, chainVars, vars
  <2> QED  BY <2>2, <2>3, <2>4, <2>5
<1>2. TreasuryInv /\ [Next]_vars =>
        [\A t \in wire : Marked(t.to) => t \in wire' \/ mined' > t.nonce]_vars
  BY <1>1
<1> QED  BY <1>2, TreasuryInductive, PTL DEF Spec, SentStaysSent

----------------------------------------------------------------------------
(* The floor.                                                              *)

\* Who the treasury owes a transfer that was compared with its balance.
Owed == {r \in Recipients :
            pc[r] \in {"queued"} \cup InTurn \/ \E t \in wire : t.to = r}

\* One full transfer for every recipient that is owed none.
Room == (Cardinality(Recipients) - Cardinality(Owed)) * (Target + GasCost)

\* Of those who are owed, somebody's own comparison still stands, however
\* many of the others have been paid since; at rest one transfer is to spare.
FloorInv ==
    forgotten = {} =>
        /\ \A t \in wire : t.value = amount[t.to]
        /\ IF Owed = {}
           THEN treasury < Funds => treasury + Room >= Floor + Target + GasCost
           ELSE \E r \in Owed : treasury + Room >= Floor + GasCost + amount[r]

LEMMA Times ==
    /\ \A n, c \in Nat : n * c \in Nat
    /\ \A n \in Int, c \in Nat : (n - 1) * c = n * c - c
    /\ \A m, n, c \in Nat : m <= n => m * c <= n * c
    /\ \A m, n, c \in Nat : m < n => m * c + c <= n * c
<1>1. \A n, c \in Nat : n * c \in Nat
  OBVIOUS
<1>2. \A n \in Int, c \in Nat : (n - 1) * c = n * c - c
  OBVIOUS
<1>3. \A m, n, c \in Nat : m <= n => m * c <= n * c
  <2> SUFFICES ASSUME NEW m \in Nat, NEW n \in Nat, NEW c \in Nat, m <= n
               PROVE  m * c <= n * c
    OBVIOUS
  <2>1. n - m \in Nat /\ (n - m) * c = n * c - m * c
    OBVIOUS
  <2>2. (n - m) * c \in Nat
    BY <2>1, <1>1
  <2> QED BY <2>1, <2>2
<1>4. \A m, n, c \in Nat : m < n => m * c + c <= n * c
  <2> SUFFICES ASSUME NEW m \in Nat, NEW n \in Nat, NEW c \in Nat, m < n
               PROVE  m * c + c <= n * c
    OBVIOUS
  <2>1. (m + 1) * c = m * c + c
    OBVIOUS
  <2>2. m + 1 \in Nat /\ m + 1 <= n
    OBVIOUS
  <2> QED BY <2>1, <2>2, <1>3
<1> QED BY <1>1, <1>2, <1>3, <1>4

LEMMA RoomFacts ==
    /\ Room \in Nat /\ Target + GasCost \in Nat
    /\ IsFiniteSet(Owed)
    /\ Cardinality(Owed) \in Nat /\ Cardinality(Recipients) \in Nat
    /\ Cardinality(Owed) <= Cardinality(Recipients)
    /\ Room = (Cardinality(Recipients) - Cardinality(Owed)) * (Target + GasCost)
<1>1. Owed \in SUBSET Recipients
  BY DEF Owed
<1>2. /\ IsFiniteSet(Owed) /\ Cardinality(Owed) <= Cardinality(Recipients)
      /\ Cardinality(Owed) \in Nat /\ Cardinality(Recipients) \in Nat
  BY <1>1, FiniteAssumption, FS_Subset, FS_CardinalityType
<1>3. Target + GasCost \in Nat /\ Cardinality(Recipients) - Cardinality(Owed) \in Nat
  BY <1>2, AmountsAssumption
<1> QED BY <1>2, <1>3, Times DEF Room


\* Nobody new is owed anything, nothing is spent: whoever's comparison stood
\* is still owed, or the room of a full transfer is left instead.
LEMMA FloorShrinks ==
    ASSUME TreasuryInv, FloorInv, forgotten = {}, Owed' \subseteq Owed,
           treasury' = treasury, \A r \in Owed : amount'[r] = amount[r],
           \A t \in wire' : t.value = amount'[t.to]
    PROVE  FloorInv'
<1> DEFINE C == Target + GasCost
<1>1. /\ Room \in Nat /\ C \in Nat /\ IsFiniteSet(Owed)
      /\ Cardinality(Owed) \in Nat /\ Cardinality(Recipients) \in Nat
      /\ Cardinality(Owed) <= Cardinality(Recipients)
      /\ Room = (Cardinality(Recipients) - Cardinality(Owed)) * C
  BY RoomFacts
<1>2. Owed' \in SUBSET Owed
  OBVIOUS
<1>3. /\ Cardinality(Owed') \in Nat /\ Cardinality(Owed') <= Cardinality(Owed)
      /\ Cardinality(Owed') = Cardinality(Owed) => Owed' = Owed
  BY <1>1, <1>2, FS_Subset, FS_CardinalityType
<1>4. Room' = (Cardinality(Recipients) - Cardinality(Owed')) * C
  BY DEF Room
<1>5. \A r \in Recipients : amount[r] \in Nat /\ amount[r] <= Target
  BY AmountsAssumption DEF TreasuryInv, TypeOK
<1>6. treasury \in Nat /\ Floor \in Nat /\ GasCost \in Nat /\ Target \in Nat /\ Owed \subseteq Recipients
  BY AmountsAssumption DEF TreasuryInv, TypeOK, Owed
<1>7. Room' \in Nat /\ Room' >= Room
  <2>1. Cardinality(Recipients) - Cardinality(Owed') \in Nat
    BY <1>1, <1>3
  <2>2. Cardinality(Recipients) - Cardinality(Owed) \in Nat
    BY <1>1
  <2>3. Cardinality(Recipients) - Cardinality(Owed) <= Cardinality(Recipients) - Cardinality(Owed')
    BY <1>1, <1>3
  <2> HIDE DEF C
  <2> QED BY <1>1, <1>4, <2>1, <2>2, <2>3, Times
<1>8. CASE Owed = {}
  <2>1. Owed' = {}
    BY <1>8
  <2>2. Room' = Room
    BY <1>1, <1>4, <1>8, <2>1
  <2> QED BY <1>8, <2>1, <2>2 DEF FloorInv
<1>9. ASSUME NEW r \in Owed, treasury + Room >= Floor + GasCost + amount[r]
      PROVE  FloorInv'
  <2>1. CASE r \in Owed'
    <3>1. treasury' + Room' >= Floor + GasCost + amount'[r]
      BY <1>5, <1>6, <1>7, <1>9, <1>1
    <3> QED BY <2>1, <3>1 DEF FloorInv
  <2>2. CASE r \notin Owed'
    <3>1. Cardinality(Owed') < Cardinality(Owed)
      BY <1>1, <1>3, <2>2
    <3>2. Room' >= Room + C
      <4>1. /\ Cardinality(Recipients) - Cardinality(Owed') \in Nat
            /\ Cardinality(Recipients) - Cardinality(Owed) \in Nat
            /\ Cardinality(Recipients) - Cardinality(Owed) < Cardinality(Recipients) - Cardinality(Owed')
        BY <1>1, <1>3, <3>1
      <4> HIDE DEF C
      <4> QED BY <1>1, <1>4, <4>1, Times
    <3>3. treasury' + Room' >= Floor + Target + GasCost
      <4>1. \A a, x, y, f, g, t \in Nat : \A b \in Nat :
                b + x >= f + g + a /\ y >= x + (t + g) => b + y >= f + t + g
        OBVIOUS
      <4>2. amount[r] \in Nat
        BY <1>5, <1>6
      <4>3. Room' >= Room + (Target + GasCost)
        BY <3>2 DEF C
      <4>4. /\ treasury \in Nat /\ Room \in Nat /\ Room' \in Nat
            /\ Floor \in Nat /\ GasCost \in Nat /\ Target \in Nat
        BY <1>1, <1>6, <1>7
      <4>5. treasury + Room' >= Floor + Target + GasCost
        BY <4>1, <4>2, <4>3, <4>4, <1>9
      <4> QED BY <4>5
    <3>s. treasury' \in Nat /\ Room' \in Nat
      BY <1>6, <1>7
    <3>4. CASE Owed' = {}
      BY <3>3, <3>4, <3>s, <1>6 DEF FloorInv
    <3>5. ASSUME NEW s \in Owed' PROVE treasury' + Room' >= Floor + GasCost + amount'[s]
      <4>1. amount'[s] \in Nat /\ amount'[s] <= Target
        BY <1>5, <1>6
      <4>2. treasury' + Room' \in Int
        BY <3>s
      <4>3. \A x \in Int : x >= Floor + Target + GasCost => x >= Floor + GasCost + amount'[s]
        BY <4>1, <1>6
      <4> QED BY <3>3, <4>2, <4>3
    <3> QED BY <3>4, <3>5 DEF FloorInv
  <2> QED BY <2>1, <2>2
<1> QED BY <1>8, <1>9 DEF FloorInv

\* A recipient's own comparison makes it the one that stands.
LEMMA FloorCommits ==
    ASSUME TreasuryInv, FloorInv, forgotten = {}, NEW r \in Recipients, Commit(r)
    PROVE  FloorInv'
<1>1. /\ treasury' = treasury /\ wire' = wire /\ amount' = amount
      /\ treasury >= amount[r] + GasCost + Floor
  BY DEF Commit, Affordable, chainVars
<1>2. r \in Owed'
  BY DEF TreasuryInv, TypeOK, Commit, MovePc, Owed
<1>3. Room' \in Nat
  <2>1. Owed' \in SUBSET Recipients
    BY DEF Owed
  <2>2. Cardinality(Owed') \in Nat /\ Cardinality(Owed') <= Cardinality(Recipients)
    BY <2>1, FiniteAssumption, FS_Subset, FS_CardinalityType
  <2>3. Cardinality(Recipients) - Cardinality(Owed') \in Nat
    BY <2>2, RoomFacts
  <2> QED BY <2>3, RoomFacts, Times DEF Room
<1>4. treasury \in Nat /\ Floor \in Nat /\ GasCost \in Nat /\ amount[r] \in Nat
  BY AmountsAssumption DEF TreasuryInv, TypeOK
<1>5. treasury' + Room' >= Floor + GasCost + amount'[r]
  BY <1>1, <1>3, <1>4
<1>6. \A t \in wire' : t.value = amount'[t.to]
  BY <1>1 DEF FloorInv
<1> QED BY <1>2, <1>5, <1>6 DEF FloorInv

\* What is spent on another leaves the one that stands its room.
LEMMA FloorSpends ==
    ASSUME TreasuryInv, FloorInv, forgotten = {}, NEW t \in wire, MineTransfer(t)
    PROVE  FloorInv'
<1> DEFINE C == Target + GasCost
<1>1. /\ wire' = wire \ {t} /\ pc' = pc /\ amount' = amount
      /\ treasury' = treasury - amount[t.to] - GasCost
  BY DEF MineTransfer, callVars, FloorInv
<1>2. /\ t.to \in Recipients /\ pc[t.to] \notin Committed
      /\ \A u \in wire : u.to = t.to => u = t
  BY DEF TreasuryInv, TypeOK, FundInv, Transfer
<1>3. t.to \in Owed /\ Owed' = Owed \ {t.to}
  BY <1>1, <1>2 DEF Owed, Committed
<1>4. /\ Room \in Nat /\ C \in Nat /\ IsFiniteSet(Owed)
      /\ Cardinality(Owed) \in Nat /\ Cardinality(Recipients) \in Nat
      /\ Cardinality(Owed) <= Cardinality(Recipients)
      /\ Room = (Cardinality(Recipients) - Cardinality(Owed)) * C
  BY RoomFacts
<1>5. Cardinality(Owed') = Cardinality(Owed) - 1
  BY <1>3, <1>4, FS_RemoveElement
<1>6. Room' = (Cardinality(Recipients) - Cardinality(Owed')) * C
  BY DEF Room
<1>7. Room' = Room + C
  <2>1. /\ Cardinality(Recipients) - Cardinality(Owed') \in Int
        /\ Cardinality(Recipients) - Cardinality(Owed) = (Cardinality(Recipients) - Cardinality(Owed')) - 1
    BY <1>4, <1>5
  <2> DEFINE k == Cardinality(Recipients) - Cardinality(Owed')
  <2>2. k \in Int /\ Room = (k - 1) * C /\ Room' = k * C
    BY <1>4, <1>6, <2>1
  <2> HIDE DEF k, C
  <2>3. (k - 1) * C = k * C - C
    BY <1>4, <2>2, Times
  <2>4. k * C \in Int
    BY <1>4, <2>2
  <2> QED BY <1>4, <2>2, <2>3, <2>4
<1>8. \A r \in Recipients : amount[r] \in Nat /\ amount[r] <= Target
  BY AmountsAssumption DEF TreasuryInv, TypeOK
<1>9. treasury \in Nat /\ Floor \in Nat /\ GasCost \in Nat /\ Target \in Nat /\ Owed \subseteq Recipients
  BY AmountsAssumption DEF TreasuryInv, TypeOK, Owed
<1>10. \A u \in wire' : u.value = amount'[u.to]
  BY <1>1 DEF FloorInv
<1>11. PICK r \in Owed : treasury + Room >= Floor + GasCost + amount[r]
  BY <1>3 DEF FloorInv
<1>12. CASE r # t.to
  <2>1. r \in Owed'
    BY <1>3, <1>12
  <2>2. treasury' + Room' >= Floor + GasCost + amount'[r]
    BY <1>1, <1>2, <1>4, <1>7, <1>8, <1>9, <1>11
  <2> QED BY <2>1, <2>2, <1>10 DEF FloorInv
<1>13. CASE r = t.to
  <2>1. treasury' + Room' >= Floor + C
    BY <1>1, <1>2, <1>4, <1>7, <1>8, <1>9, <1>11, <1>13
  <2>2. CASE Owed' = {}
    BY <2>1, <2>2, <1>1, <1>2, <1>4, <1>7, <1>8, <1>9, <1>10 DEF FloorInv
  <2>3. ASSUME NEW s \in Owed' PROVE treasury' + Room' >= Floor + GasCost + amount'[s]
    <3>1. amount'[s] \in Nat /\ amount'[s] <= Target
      BY <1>1, <1>3, <1>8, <1>9
    <3>2. treasury' + Room' \in Int
      BY <1>1, <1>2, <1>4, <1>7, <1>8, <1>9
    <3> QED BY <2>1, <3>1, <3>2, <1>9
  <2> QED BY <2>2, <2>3, <1>10 DEF FloorInv
<1> QED BY <1>12, <1>13


\* A call that is owed nothing new moves on.
LEMMA FloorMoves ==
    ASSUME TreasuryInv, FloorInv, forgotten = {}, NEW r \in Recipients, NEW to, MovePc(r, to),
           to \in {"queued"} \cup InTurn => r \in Owed,
           treasury' = treasury, wire' = wire,
           amount' = amount \/ (r \notin pending /\ pc[r] = "called"
                                /\ \E a \in Nat : amount' = [amount EXCEPT ![r] = a])
    PROVE  FloorInv'
<1>1. \A x \in Recipients : pc'[x] = IF x = r THEN to ELSE pc[x]
  BY DEF TreasuryInv, TypeOK, MovePc
<1>2. Owed' \subseteq Owed
  BY <1>1 DEF Owed
<1>3. /\ \A x \in Owed : amount'[x] = amount[x]
      /\ \A t \in wire : amount'[t.to] = amount[t.to]
  <2>1. CASE amount' = amount  BY <2>1
  <2>2. ASSUME r \notin pending, pc[r] = "called", NEW a \in Nat, amount' = [amount EXCEPT ![r] = a]
        PROVE  <1>3
    <3>1. \A x \in Recipients : x # r => amount'[x] = amount[x]
      BY <2>2 DEF TreasuryInv, TypeOK
    <3>2. \A t \in wire : t.to \in Recipients /\ t.to # r
      BY <2>2 DEF TreasuryInv, FundInv, TypeOK, Transfer
    <3>3. \A x \in Owed : x \in Recipients /\ x # r
      BY <2>2, <3>2 DEF Owed, InTurn
    <3> QED  BY <3>1, <3>2, <3>3
  <2> QED  BY <2>1, <2>2
<1>4. \A t \in wire' : t.value = amount'[t.to]
  BY <1>3 DEF FloorInv
<1> QED  BY <1>2, <1>3, <1>4, FloorShrinks

LEMMA FloorSends ==
    ASSUME TreasuryInv, FloorInv, forgotten = {}, forgotten' = {}, NEW r \in Recipients, Send(r)
    PROVE  FloorInv'
<1>1. /\ treasury' = treasury /\ amount' = amount /\ pc[r] = "sending"
      /\ \E to \in {"settled", "drift"} : MovePc(r, to)
  BY DEF Send, TurnFails
<1>2. PICK to \in {"settled", "drift"} : MovePc(r, to)
  BY <1>1
<1>3. \A x \in Recipients : pc'[x] = IF x = r THEN to ELSE pc[x]
  BY <1>2 DEF TreasuryInv, TypeOK, MovePc
<1>4. r \in Owed
  BY <1>1 DEF Owed, InTurn
<1> DEFINE t == [to |-> r, value |-> amount[r], nonce |-> nonce[r]]
<1>5. wire' \subseteq wire \cup {t}
  BY DEF Send, Gossip
<1>6. t.to = r /\ t.value = amount[r]
  OBVIOUS
<1> HIDE DEF t
<1>7. Owed' \subseteq Owed
  BY <1>3, <1>4, <1>5, <1>6 DEF Owed
<1>8. \A u \in wire' : u.value = amount'[u.to]
  BY <1>1, <1>5, <1>6 DEF FloorInv
<1> QED  BY <1>1, <1>7, <1>8, FloorShrinks

LEMMA FloorCalls ==
    ASSUME TreasuryInv, FloorInv, forgotten = {}, forgotten' = {}, NEW r \in Recipients, CallStep(r)
    PROVE  FloorInv'
<1>1. CASE CheckBalance(r) \/ CallFails(r) \/ AlreadyRecovered(r) \/ AwaitsTopUp(r) \/ Refuse(r)
  <2>1. /\ treasury' = treasury /\ wire' = wire /\ amount' = amount
        /\ \E to \in {"settled", "called"} : MovePc(r, to)
    BY <1>1 DEF CheckBalance, CallFails, AlreadyRecovered, AwaitsTopUp, Refuse, chainVars
  <2> QED  BY <2>1, FloorMoves DEF InTurn
<1>2. CASE WantsTopUp(r)
  <2>1. Target - bal[r] \in Nat
    BY <1>2, AmountsAssumption DEF TreasuryInv, TypeOK, WantsTopUp, Recovered
  <2>2. /\ treasury' = treasury /\ wire' = wire /\ MovePc(r, "pricing") /\ r \notin pending
        /\ pc[r] = "called" /\ amount' = [amount EXCEPT ![r] = Target - bal[r]]
    BY <1>2 DEF WantsTopUp, AlreadyPending, chainVars
  <2> QED  BY <2>1, <2>2, FloorMoves DEF InTurn
<1>3. CASE Commit(r)  BY <1>3, FloorCommits
<1>4. CASE TakeTurn(r)
  <2>1. pc[r] = "queued"
    BY <1>4 DEF TakeTurn, TreasuryInv, TypeOK, LaneInv
  <2>2. /\ treasury' = treasury /\ wire' = wire /\ amount' = amount
        /\ \E to \in InTurn : MovePc(r, to)
    BY <1>4 DEF TakeTurn, chainVars, InTurn
  <2>3. r \in Owed  BY <2>1 DEF Owed
  <2> QED  BY <2>2, <2>3, FloorMoves
<1>5. CASE CountNonce(r) \/ PassNonce(r)
  <2>1. /\ treasury' = treasury /\ wire' = wire /\ amount' = amount /\ pc[r] \in InTurn
        /\ \E to \in {"sending", "settled"} : MovePc(r, to)
    BY <1>5 DEF CountNonce, PassNonce, TurnFails, chainVars, InTurn
  <2>2. r \in Owed  BY <2>1 DEF Owed
  <2> QED  BY <2>1, <2>2, FloorMoves
<1>6. CASE Send(r)  BY <1>6, FloorSends
<1> QED  BY <1>1, <1>2, <1>3, <1>4, <1>5, <1>6 DEF CallStep

\* What was forgotten stays so.
LEMMA ForgottenGrows ==
    ASSUME [Next]_vars PROVE forgotten \subseteq forgotten'
<1>1. CASE PassStart  BY <1>1 DEF PassStart
<1>2. ASSUME NEW r \in Recipients, CallStep(r) \/ Drain(r) PROVE forgotten \subseteq forgotten'
  BY <1>2 DEF CallStep, CheckBalance, CallFails, AlreadyRecovered, AwaitsTopUp, WantsTopUp, Refuse,
              Commit, TakeTurn, CountNonce, Send, PassNonce, Drain
<1>3. CASE ChainMines  BY <1>3 DEF ChainMines, MineTransfer
<1>4. CASE Restart  BY <1>4 DEF Restart
<1>5. CASE UNCHANGED vars  BY <1>5 DEF vars
<1> QED  BY <1>1, <1>2, <1>3, <1>4, <1>5 DEF Next

LEMMA FloorStep == TreasuryInv /\ FloorInv /\ [Next]_vars => FloorInv'
<1> SUFFICES ASSUME TreasuryInv, FloorInv, [Next]_vars, forgotten' = {} PROVE FloorInv'
  BY DEF FloorInv
<1>1. forgotten = {}  BY ForgottenGrows
<1>2. CASE PassStart
  <2>1. /\ treasury' = treasury /\ wire' = wire /\ amount' = amount
        /\ \A r \in Recipients : pc'[r] = "due"
    BY <1>2 DEF PassStart, chainVars
  <2>2. Owed' \subseteq Owed  BY <2>1 DEF Owed, InTurn
  <2> QED  BY <1>1, <2>1, <2>2, FloorShrinks DEF FloorInv
<1>3. ASSUME NEW r \in Recipients, CallStep(r) PROVE FloorInv'
  BY <1>1, <1>3, FloorCalls
<1>4. ASSUME NEW r \in Recipients, Drain(r) PROVE FloorInv'
  <2>1. treasury' = treasury /\ wire' = wire /\ amount' = amount /\ pc' = pc
    BY <1>4 DEF Drain, callVars
  <2>2. Owed' \subseteq Owed  BY <2>1 DEF Owed
  <2> QED  BY <1>1, <2>1, <2>2, FloorShrinks DEF FloorInv
<1>5. CASE ChainMines  BY <1>1, <1>5, FloorSpends DEF ChainMines
<1>6. CASE UNCHANGED vars
  <2>1. treasury' = treasury /\ wire' = wire /\ amount' = amount /\ pc' = pc
    BY <1>6 DEF vars, chainVars, callVars
  <2>2. Owed' \subseteq Owed  BY <2>1 DEF Owed
  <2> QED  BY <1>1, <2>1, <2>2, FloorShrinks DEF FloorInv
<1>7. CASE Restart
  <2>1. /\ treasury' = treasury /\ wire' = wire /\ amount' = amount
        /\ \A r \in Recipients : pc'[r] = "settled"
    BY <1>7 DEF Restart, chainVars
  <2>2. Owed' \subseteq Owed  BY <2>1 DEF Owed, InTurn
  <2> QED  BY <1>1, <2>1, <2>2, FloorShrinks DEF FloorInv
<1> QED  BY <1>2, <1>3, <1>4, <1>5, <1>6, <1>7 DEF Next

THEOREM FloorInductive == Spec => [](TreasuryInv /\ FloorInv)
<1>1. Init => FloorInv
  <2> SUFFICES ASSUME Init PROVE FloorInv
    OBVIOUS
  <2>1. Owed = {}  BY DEF Init, Owed, InTurn
  <2>2. treasury = Funds /\ wire = {} /\ Funds \in Nat
    BY AmountsAssumption DEF Init
  <2> QED  BY <2>1, <2>2 DEF FloorInv
<1> QED  BY <1>1, TreasuryInit, TreasuryStep, FloorStep, PTL DEF Spec

(* treasury-funder.ts: "we never spend the treasury below" the floor.      *)
(* Calls that compare the same mined balance share it, so it holds up to   *)
(* one full transfer for every recipient but the first, however many       *)
(* passes are made, calls fail and restarts find nothing on the wire: until*)
(* a top-up is out without its mark.                                       *)
THEOREM FloorHolds == Spec => []FloorAllButShared
<1>1. TreasuryInv /\ FloorInv => FloorAllButShared
  <2> SUFFICES ASSUME TreasuryInv, FloorInv, forgotten = {}, treasury < Funds
               PROVE  treasury + (Cardinality(Recipients) - 1) * (Target + GasCost) >= Floor
    BY DEF FloorAllButShared
  <2> DEFINE N == Cardinality(Recipients)
             K == Cardinality(Owed)
             C == Target + GasCost
  <2>1. /\ Room \in Nat /\ C \in Nat /\ IsFiniteSet(Owed) /\ K \in Nat /\ N \in Nat
        /\ K <= N /\ Room = (N - K) * C
    BY RoomFacts
  <2>2. /\ treasury \in Nat /\ Floor \in Nat /\ GasCost \in Nat /\ Target \in Nat
        /\ \A r \in Owed : amount[r] \in Nat
    BY AmountsAssumption DEF TreasuryInv, TypeOK, Owed
  <2>3. CASE Owed = {}
    <3>1. K = 0  BY <2>3, FS_EmptySet
    <3>2. treasury + Room >= Floor + C
      BY <2>1, <2>2, <2>3 DEF FloorInv
    <3> HIDE DEF N, K, C
    <3>3. Room = N * C  BY <2>1, <3>1
    <3>4. (N - 1) * C = Room - C  BY <2>1, <3>3, Times
    <3>5. treasury + (N - 1) * C >= Floor  BY <2>1, <2>2, <3>2, <3>4
    <3> QED  BY <3>5 DEF N, C
  <2>4. CASE Owed # {}
    <3>1. treasury + Room >= Floor
      <4>1. PICK r \in Owed : treasury + Room >= Floor + GasCost + amount[r]
        BY <2>4 DEF FloorInv
      <4> QED  BY <2>1, <2>2, <4>1
    <3>2. K >= 1
      <4>1. K # 0  BY <2>1, <2>4, FS_EmptySet
      <4> HIDE DEF K
      <4> QED  BY <2>1, <4>1
    <3>3. Room <= (N - 1) * C /\ (N - 1) * C \in Nat
      <4> HIDE DEF N, K, C
      <4>1. N - K \in Nat /\ N - 1 \in Nat /\ N - K <= N - 1
        BY <2>1, <3>2
      <4> QED  BY <2>1, <4>1, Times
    <3> HIDE DEF N, K, C
    <3>4. treasury + (N - 1) * C >= Floor  BY <2>1, <2>2, <3>1, <3>3
    <3> QED  BY <3>4 DEF N, C
  <2> QED  BY <2>3, <2>4
<1> QED  BY <1>1, FloorInductive, PTL
=============================================================================
