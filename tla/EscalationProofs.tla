-------------------------- MODULE EscalationProofs --------------------------
(***************************************************************************)
(* What holds of fees, stores and restarts for any pools, keys, prices and *)
(* number of crashes.                                                      *)
(***************************************************************************)
EXTENDS FeeEscalation, TLAPS

----------------------------------------------------------------------------
(* The oracles.                                                            *)

\* A quotient of natural numbers is one.
LEMMA QuotientIsNat ==
    ASSUME NEW p \in Nat, NEW n \in Nat, NEW d \in Nat \ {0}
    PROVE  (p * n) \div d \in Nat
<1>1. p * n \in Nat  OBVIOUS
<1> QED  BY <1>1

\* Every fee an oracle makes is made of natural numbers.
LEMMA FeesAreTyped ==
    /\ \A o \in Oracles, base \in BaseFees : Estimate(o, base) \in FeeFields
    /\ \A fees \in FeeFields : Bump(fees) \in FeeFields
<1>1. \A p \in Nat : Raised(p) \in Nat
  BY QuotientIsNat, PricesAssumption, RatiosAssumption DEF Raised
<1>2. \A base \in Nat : (base * HeadroomNum) \div HeadroomDen \in Nat
  BY QuotientIsNat, PricesAssumption, RatiosAssumption
<1>3. MinGasPrice \in Nat /\ Tip \in Nat /\ BaseFees \subseteq Nat
  BY PricesAssumption, LimitsAssumption
<1>4. ASSUME NEW o \in Oracles, NEW base \in BaseFees
      PROVE  Estimate(o, base) \in FeeFields
  <2>1. (base * HeadroomNum) \div HeadroomDen + Tip \in Nat  BY <1>2, <1>3
  <2> QED  BY <2>1, <1>3
           DEF Estimate, LegacyEstimate, Eip1559Estimate, Legacy, Eip1559, FeeFields
<1>5. ASSUME NEW fees \in FeeFields
      PROVE  Bump(fees) \in FeeFields
  BY <1>1, <1>3 DEF Bump, LegacyBump, Eip1559Bump, Legacy, Eip1559, FeeFields
<1> QED  BY <1>4, <1>5

\* With the default bump of 1125/1000 the node takes the raised price for any
\* price from 8 wei on; a price below is not raised at all.
LEMMA PriceIsRaised ==
    ASSUME NEW p \in Nat, BumpNum = 1125, BumpDen = 1000
    PROVE  IF p >= 8 THEN PriceOutbids(Raised(p), p) ELSE Raised(p) = p
BY DEF PriceOutbids, Raised, NodeBumpPercent

(* README.md: "A stuck tx is replaced by re-signing the *same nonce* with  *)
(* bumped fees".  With the default bump of either oracle (fee/index.ts:    *)
(* "geth's 10% min, with margin") the node takes the replacement, if every *)
(* price in it is at least 8 wei.                                          *)
THEOREM BumpOutbids ==
    ASSUME NEW fees \in FeeFields, BumpNum = 1125, BumpDen = 1000,
           Cap(fees) >= 8, TipOf(fees) >= 8
    PROVE  Outbids(Bump(fees), fees)
<1>1. CASE fees.type = "legacy"
  <2>1. fees.gasPrice \in Nat /\ fees.gasPrice >= 8
    BY <1>1 DEF FeeFields, Cap
  <2>2. PriceOutbids(Raised(fees.gasPrice), fees.gasPrice)
    BY <2>1, PriceIsRaised
  <2>3. MinGasPrice \in Nat  BY PricesAssumption
  <2>4. Raised(fees.gasPrice) \in Nat
    BY <2>1, QuotientIsNat, PricesAssumption, RatiosAssumption DEF Raised
  <2>5. \A n \in Nat : n >= Raised(fees.gasPrice) => PriceOutbids(n, fees.gasPrice)
    <3>1. (fees.gasPrice * (100 + NodeBumpPercent)) \div 100 \in Nat
      BY <2>1, QuotientIsNat DEF NodeBumpPercent
    <3> QED  BY <2>1, <2>2, <2>4, <3>1 DEF PriceOutbids
  <2>6. PriceOutbids(LegacyBump(fees).gasPrice, fees.gasPrice)
    BY <2>3, <2>4, <2>5 DEF LegacyBump, Legacy
  <2> QED  BY <1>1, <2>6 DEF Outbids, Bump, LegacyBump, Legacy, Cap, TipOf
<1>2. CASE fees.type # "legacy"
  <2>1. /\ fees.maxFeePerGas \in Nat /\ fees.maxFeePerGas >= 8
        /\ fees.maxPriorityFeePerGas \in Nat /\ fees.maxPriorityFeePerGas >= 8
    BY <1>2 DEF FeeFields, Cap, TipOf
  <2>2. /\ PriceOutbids(Raised(fees.maxFeePerGas), fees.maxFeePerGas)
        /\ PriceOutbids(Raised(fees.maxPriorityFeePerGas), fees.maxPriorityFeePerGas)
    BY <2>1, PriceIsRaised
  <2> QED  BY <1>2, <2>2 DEF Outbids, Bump, Eip1559Bump, Eip1559, Cap, TipOf
<1> QED  BY <1>1, <1>2

----------------------------------------------------------------------------
(* The columns of the SQLite store.                                        *)

LEMMA FeesRoundTrip ==
    ASSUME NEW fees \in FeeFields
    PROVE  feesToRow(fees) \in FeeColumns /\ rowToFees(feesToRow(fees)) = fees
BY DEF feesToRow, rowToFees, FeeColumns, FeeFields, Legacy, Eip1559, Null

LEMMA FlagRoundTrip ==
    ASSUME NEW flag \in BOOLEAN
    PROVE  flagToRow(flag) \in {Null, 0, 1} /\ rowToFlag(flagToRow(flag)) = flag
<1>1. flag # Unset  BY ValuesAssumption
<1>2. 1 # Null /\ 0 # Null /\ 1 # 0  BY DEF Null
<1>3. CASE flag = TRUE
  <2>1. flagToRow(flag) = 1  BY <1>1, <1>3 DEF flagToRow
  <2>2. rowToFlag(1) = (1 = 1)  BY <1>2, Zenon DEF rowToFlag
  <2> QED  BY <2>1, <2>2, <1>3, Zenon
<1>4. CASE flag = FALSE
  <2>1. flagToRow(flag) = 0  BY <1>1, <1>4 DEF flagToRow
  <2>2. rowToFlag(0) = (0 = 1)  BY <1>2, Zenon DEF rowToFlag
  <2> QED  BY <2>1, <2>2, <1>2, <1>4, Zenon
<1> QED  BY <1>3, <1>4

(* models.ts: "optional fields to NULL, and `fees` is flattened into       *)
(* fee_type + gas_price / max_fee_* cols".  A record comes back from its   *)
(* row as it was written, whatever its fees, its hash and its flag.        *)
THEOREM RecordRoundTrip ==
    ASSUME NEW rec \in Record
    PROVE  Encode(rec) \in Row /\ Decode(Encode(rec)) = rec
<1>1. /\ rec = [ownerId |-> rec.ownerId, status |-> rec.status,
                attempts |-> rec.attempts, fees |-> rec.fees,
                hash |-> rec.hash, replaceable |-> rec.replaceable]
      /\ rec.ownerId \in Accounts /\ rec.status \in Statuses
      /\ rec.attempts \in 1 .. MaxAttempts
      /\ rec.fees \in FeeFields /\ rec.hash \in Hash /\ rec.replaceable \in BOOLEAN
  BY DEF Record
<1>2. /\ feesToRow(rec.fees) \in FeeColumns
      /\ rowToFees(feesToRow(rec.fees)) = rec.fees
  BY <1>1, FeesRoundTrip
<1>3. /\ flagToRow(rec.replaceable) \in {Null, 0, 1}
      /\ rowToFlag(flagToRow(rec.replaceable)) = rec.replaceable
  BY <1>1, FlagRoundTrip
<1>4. Encode(rec) \in Row  BY <1>1, <1>2, <1>3 DEF Encode, Row
<1>5. Decode(Encode(rec)) = [ownerId |-> rec.ownerId, status |-> rec.status,
                attempts |-> rec.attempts, fees |-> rec.fees,
                hash |-> rec.hash, replaceable |-> rec.replaceable]
  BY <1>2, <1>3 DEF Encode, Decode
<1> QED  BY <1>1, <1>4, <1>5

LEMMA AccountRoundTrip ==
    ASSUME NEW rec \in AccountRecord
    PROVE  EncodeAccount(rec) \in AccountRow /\ DecodeAccount(EncodeAccount(rec)) = rec
<1>1. /\ rec = [ownerId |-> rec.ownerId, healthy |-> rec.healthy]
      /\ rec.ownerId \in Accounts /\ rec.healthy \in BOOLEAN
  BY DEF AccountRecord
<1>2. CASE rec.healthy = TRUE
  BY <1>1, <1>2 DEF EncodeAccount, DecodeAccount, AccountRow
<1>3. CASE rec.healthy = FALSE
  BY <1>1, <1>3 DEF EncodeAccount, DecodeAccount, AccountRow
<1> QED  BY <1>1, <1>2, <1>3

----------------------------------------------------------------------------
(* The inductive invariant.  What the store gives back is the record as    *)
(* the pool has it, at each stage of the call or transition that works on  *)
(* its key.                                                                *)

StoreInv ==
    /\ kind \in {"memory", "sqlite"}
    /\ transactions \in [Keys -> (IF kind = "memory" THEN Record ELSE Row) \cup {Absent}]
    /\ accounts \in [Accounts ->
           (IF kind = "memory" THEN AccountRecord ELSE AccountRow) \cup {Absent}]

Kept(rec) == IF kind = "memory" THEN MemoryKeeps(rec) ELSE rec
Live(k) == TransactionAt(k) # Absent /\ ActiveStatus(TransactionAt(k).status)

Proper(k, rec) ==
    rec # Absent => /\ rec.ownerId = OwnerOf[k]
                    /\ k \in Reattached => rec.replaceable = FALSE /\ rec.status # "pending"
                    /\ rec.status = "pending" => rec.hash = ZeroHash

RecordInv(k) ==
    Proper(k, TransactionAt(k)) /\ Proper(k, tracked[k]) /\ Proper(k, work[k])

StageInv(k) ==
    /\ pc[k] = "idle" =>
          TransactionAt(k) = Absent /\ tracked[k] = Absent /\ work[k] = Absent /\ held[k] = Absent
    /\ pc[k] = "ahead" =>
          Live(k) /\ work[k] = TransactionAt(k) /\ work[k].status = "pending"
    /\ pc[k] = "sent" => Live(k) /\ work[k] # Absent
    /\ pc[k] = "stored" => work[k] # Absent /\ TransactionAt(k) = Kept(work[k])
    /\ pc[k] = "done" =>
          /\ work[k] = Absent
          /\ OwnerOf[k] \in up =>
                IF tracked[k] = Absent THEN ~Live(k) ELSE Live(k) /\ TransactionAt(k) = tracked[k]
    /\ OwnerOf[k] \notin up => pc[k] \in {"idle", "done"} /\ tracked[k] = Absent

HeldInv(k) ==
    k \notin cut /\ held[k] # Absent =>
        /\ pc[k] # "ahead"
        /\ pc[k] \in {"sent", "stored"} => work[k].hash = held[k]
        /\ pc[k] = "done" /\ Live(k) => TransactionAt(k).hash = held[k]

KeyInv(k) == RecordInv(k) /\ StageInv(k) /\ HeldInv(k)

AccountInv(o) ==
    /\ AccountAt(o) # Absent => AccountAt(o).ownerId = o
    /\ o \in up => AccountAt(o) = [ownerId |-> o, healthy |-> gauge[o]]
    /\ o \in up => gauge[o] \in BOOLEAN

EscalationInv ==
    /\ TypeOK /\ StoreInv
    /\ \A k \in Keys : KeyInv(k)
    /\ \A o \in Accounts : AccountInv(o)

----------------------------------------------------------------------------
(* What the operations of the store do to what is read from it.            *)

LEMMA TransactionWritten ==
    ASSUME StoreInv, NEW k \in Keys, NEW rec \in Record, UpsertTransaction(k, rec)
    PROVE  /\ StoreInv' /\ kind' = kind
           /\ TransactionAt(k)' = Kept(rec)
           /\ \A j \in Keys \ {k} : TransactionAt(j)' = TransactionAt(j)
           /\ \A a \in Accounts : AccountAt(a)' = AccountAt(a)
<1>1. /\ transactions' = [transactions EXCEPT ![k] = Stored(rec)]
      /\ kind' = kind /\ accounts' = accounts
  BY DEF UpsertTransaction
<1>2. rec # Absent /\ Encode(rec) \in Row /\ Encode(rec) # Absent /\ Decode(Encode(rec)) = rec
  BY RecordRoundTrip, AbsentAssumption
<1>3. DOMAIN transactions = Keys  BY DEF StoreInv
<1>4. transactions'[k] = Stored(rec)  BY <1>1, <1>3
<1>5. TransactionAt(k)' = Kept(rec)
  BY <1>1, <1>2, <1>4 DEF TransactionAt, Kept, Stored, MemoryKeeps
<1>6. Stored(rec) \in (IF kind = "memory" THEN Record ELSE Row) \cup {Absent}
  BY <1>2 DEF Stored, MemoryKeeps
<1>7. StoreInv'  BY <1>1, <1>6 DEF StoreInv
<1>8. \A j \in Keys \ {k} : transactions'[j] = transactions[j]  BY <1>1, <1>3
<1> QED  BY <1>1, <1>5, <1>7, <1>8 DEF TransactionAt, AccountAt

LEMMA AccountWritten ==
    ASSUME StoreInv, NEW o \in Accounts, NEW rec \in AccountRecord, UpsertAccount(o, rec)
    PROVE  /\ StoreInv' /\ kind' = kind
           /\ AccountAt(o)' = rec
           /\ \A a \in Accounts \ {o} : AccountAt(a)' = AccountAt(a)
           /\ \A j \in Keys : TransactionAt(j)' = TransactionAt(j)
<1>1. /\ accounts' = [accounts EXCEPT ![o] = StoredAccount(rec)]
      /\ kind' = kind /\ transactions' = transactions
  BY DEF UpsertAccount
<1>2. /\ rec # Absent /\ EncodeAccount(rec) \in AccountRow /\ EncodeAccount(rec) # Absent
      /\ DecodeAccount(EncodeAccount(rec)) = rec
  BY AccountRoundTrip, AbsentAssumption
<1>3. DOMAIN accounts = Accounts  BY DEF StoreInv
<1>4. accounts'[o] = StoredAccount(rec)  BY <1>1, <1>3
<1>5. AccountAt(o)' = rec  BY <1>1, <1>2, <1>4 DEF AccountAt, StoredAccount
<1>6. StoredAccount(rec) \in (IF kind = "memory" THEN AccountRecord ELSE AccountRow)
  BY <1>2 DEF StoredAccount
<1>7. StoreInv'  BY <1>1, <1>6 DEF StoreInv
<1>8. \A a \in Accounts \ {o} : accounts'[a] = accounts[a]  BY <1>1, <1>3
<1> QED  BY <1>1, <1>5, <1>7, <1>8 DEF TransactionAt, AccountAt

LEMMA StoreRests ==
    ASSUME StoreInv, UNCHANGED storeVars
    PROVE  /\ StoreInv' /\ kind' = kind
           /\ \A j \in Keys : TransactionAt(j)' = TransactionAt(j)
           /\ \A a \in Accounts : AccountAt(a)' = AccountAt(a)
BY DEF StoreInv, storeVars, TransactionAt, AccountAt

LEMMA ProcessLost ==
    ASSUME StoreInv, NEW o \in Accounts, StoreSurvives(o), UNCHANGED kind,
           \A k \in Keys : Proper(k, TransactionAt(k)),
           \A a \in Accounts : AccountInv(a)
    PROVE  /\ StoreInv'
           /\ \A k \in Keys : TransactionAt(k)' =
                 IF kind = "memory" /\ OwnerOf[k] = o THEN Absent ELSE TransactionAt(k)
           /\ \A a \in Accounts : AccountAt(a)' =
                 IF kind = "memory" /\ a = o THEN Absent ELSE AccountAt(a)
<1>1. CASE kind = "sqlite"
  BY <1>1 DEF StoreSurvives, StoreInv, TransactionAt, AccountAt
<1>2. CASE kind = "memory"
  <2>1. /\ transactions' = [k \in Keys |->
               IF transactions[k] # Absent /\ transactions[k].ownerId = o
               THEN Absent ELSE transactions[k]]
        /\ accounts' = [a \in Accounts |->
               IF accounts[a] # Absent /\ accounts[a].ownerId = o
               THEN Absent ELSE accounts[a]]
    BY <1>2 DEF StoreSurvives
  <2>2. \A k \in Keys : TransactionAt(k) = transactions[k]
    BY <1>2 DEF TransactionAt
  <2>3. \A a \in Accounts : AccountAt(a) = accounts[a]
    BY <1>2 DEF AccountAt
  <2>4. \A k \in Keys : transactions[k] # Absent => transactions[k].ownerId = OwnerOf[k]
    BY <2>2 DEF Proper
  <2>5. \A a \in Accounts : accounts[a] # Absent => accounts[a].ownerId = a
    BY <2>3 DEF AccountInv
  <2>6. \A k \in Keys : transactions'[k] = IF OwnerOf[k] = o THEN Absent ELSE transactions[k]
    BY <2>1, <2>4
  <2>7. \A a \in Accounts : accounts'[a] = IF a = o THEN Absent ELSE accounts[a]
    BY <2>1, <2>5
  <2>8. StoreInv'
    BY <1>2, <2>1, <2>6, <2>7 DEF StoreInv
  <2> QED  BY <1>2, <2>2, <2>3, <2>6, <2>7, <2>8 DEF TransactionAt, AccountAt
<1> QED  BY <1>1, <1>2 DEF StoreInv

----------------------------------------------------------------------------
(* A step that works on one key leaves the others as they are.             *)

Local(k) ==
    /\ UNCHANGED procVars /\ StoreInv' /\ kind' = kind
    /\ \A j \in Keys \ {k} : j \in cut => j \in cut'
    /\ \A a \in Accounts : AccountAt(a)' = AccountAt(a)
    /\ \A j \in Keys \ {k} :
          /\ TransactionAt(j)' = TransactionAt(j) /\ tracked'[j] = tracked[j]
          /\ work'[j] = work[j] /\ pc'[j] = pc[j] /\ held'[j] = held[j]

LEMMA OtherKey ==
    ASSUME NEW j \in Keys, KeyInv(j), TransactionAt(j)' = TransactionAt(j),
           tracked'[j] = tracked[j], work'[j] = work[j], pc'[j] = pc[j], held'[j] = held[j],
           kind' = kind, OwnerOf[j] \in up' <=> OwnerOf[j] \in up, j \in cut => j \in cut'
    PROVE  KeyInv(j)'
<1>1. RecordInv(j)'  BY DEF KeyInv, RecordInv, Proper
<1>2. StageInv(j)'  BY DEF KeyInv, StageInv, Live, Kept
<1>3. HeldInv(j)'  BY DEF KeyInv, HeldInv, Live
<1> QED  BY <1>1, <1>2, <1>3 DEF KeyInv

LEMMA LocalKeeps ==
    ASSUME EscalationInv, NEW k \in Keys, Local(k), TypeOK', KeyInv(k)'
    PROVE  EscalationInv'
<1>1. ASSUME NEW j \in Keys PROVE KeyInv(j)'
  <2>1. CASE j = k  BY <2>1
  <2>2. CASE j # k  BY <2>2, OtherKey DEF Local, EscalationInv, procVars
  <2> QED  BY <2>1, <2>2
<1>2. ASSUME NEW o \in Accounts PROVE AccountInv(o)'
  BY DEF Local, EscalationInv, AccountInv, procVars
<1> QED  BY <1>1, <1>2 DEF EscalationInv, Local

LEMMA ActiveIsKept ==
    ASSUME NEW rec \in Record
    PROVE  /\ Kept(rec) \in Record \cup {Absent}
           /\ ActiveStatus(rec.status) => Kept(rec) = rec
           /\ Kept(rec) # Absent => Kept(rec) = rec
           /\ rec # Absent
BY AbsentAssumption DEF Kept, MemoryKeeps, ActiveStatus

LEMMA NewRecordTyped ==
    ASSUME NEW k \in Keys, NEW fees \in FeeFields
    PROVE  NewRecord(k, fees) \in Record /\ ReattachRecord(k, fees) \in Record
<1>1. /\ OwnerOf[k] \in Accounts /\ 1 \in 1 .. MaxAttempts
      /\ "pending" \in Statuses /\ "broadcast" \in Statuses
  BY KeysAssumption, LimitsAssumption DEF Statuses
<1>2. fees \in Hash /\ ZeroHash \in Hash  BY DEF Hash
<1>3. NewRecord(k, fees) \in Record  BY <1>1, <1>2 DEF NewRecord, Record
<1> QED  BY <1>1, <1>2, <1>3 DEF ReattachRecord, Record

----------------------------------------------------------------------------
(* Every action keeps the invariant.                                       *)

LEMMA WriteAheadKeeps ==
    ASSUME EscalationInv, NEW k \in Keys, WriteAhead(k) PROVE EscalationInv'
<1>1. PICK base \in BaseFees :
        LET rec == NewRecord(k, Estimate(oracle[OwnerOf[k]], base))
        IN  UpsertTransaction(k, rec) /\ Move(k, "ahead", rec)
  BY DEF WriteAhead
<1> DEFINE rec == NewRecord(k, Estimate(oracle[OwnerOf[k]], base))
<1>2. rec \in Record
  BY FeesAreTyped, NewRecordTyped, KeysAssumption DEF EscalationInv, TypeOK
<1>3. /\ rec.status = "pending" /\ rec.ownerId = OwnerOf[k]
      /\ ActiveStatus(rec.status) /\ rec.hash = ZeroHash
  BY DEF NewRecord, ActiveStatus, TerminalStatus
<1> HIDE DEF rec
<1>4. UpsertTransaction(k, rec) /\ Move(k, "ahead", rec)  BY <1>1 DEF rec
<1>5. Kept(rec) = rec /\ rec # Absent  BY <1>2, <1>3, ActiveIsKept
<1>6. /\ StoreInv' /\ kind' = kind /\ TransactionAt(k)' = rec
      /\ \A j \in Keys \ {k} : TransactionAt(j)' = TransactionAt(j)
      /\ \A a \in Accounts : AccountAt(a)' = AccountAt(a)
  BY <1>2, <1>4, <1>5, TransactionWritten DEF EscalationInv
<1>7. TypeOK'
  BY <1>2, <1>4, <1>6 DEF EscalationInv, TypeOK, WriteAhead, Move, procVars, chainVars
<1>8. Local(k)
  BY <1>4, <1>6 DEF Local, EscalationInv, TypeOK, WriteAhead, Move, procVars, chainVars
<1>9. /\ pc'[k] = "ahead" /\ work'[k] = rec /\ tracked'[k] = Absent /\ held'[k] = Absent
      /\ OwnerOf[k] \in up' /\ k \notin Reattached
  BY <1>4 DEF EscalationInv, TypeOK, KeyInv, StageInv, WriteAhead, Move, procVars, chainVars
<1>10. KeyInv(k)'
  BY <1>3, <1>5, <1>6, <1>9 DEF KeyInv, RecordInv, Proper, StageInv, HeldInv, Live
<1> QED  BY <1>7, <1>8, <1>10, LocalKeeps

LEMMA SendKeeps ==
    ASSUME EscalationInv, NEW k \in Keys, Send(k) PROVE EscalationInv'
<1> DEFINE live == [work[k] EXCEPT !.status = "broadcast"]
<1> DEFINE sent == [live EXCEPT !.hash = work[k].fees]
<1>1. /\ pc[k] = "ahead" /\ Live(k) /\ work[k] = TransactionAt(k)
      /\ OwnerOf[k] \in up /\ work[k] \in Record
  BY DEF EscalationInv, TypeOK, KeyInv, StageInv, Live, Send
<1>2. /\ live \in Record /\ live # Absent /\ live.status = "broadcast"
      /\ live.ownerId = work[k].ownerId /\ live.replaceable = work[k].replaceable
      /\ work[k].fees \in FeeFields
  BY <1>1, AbsentAssumption DEF Record, Statuses
<1>3. /\ sent \in Record /\ sent # Absent /\ sent.status = "broadcast"
      /\ sent.ownerId = work[k].ownerId /\ sent.replaceable = work[k].replaceable
      /\ sent.hash = work[k].fees
  BY <1>2, AbsentAssumption DEF Record, Hash
<1>4. \/ Move(k, "sent", sent) /\ held' = [held EXCEPT ![k] = work[k].fees]
      \/ Move(k, "sent", live) /\ held' = held /\ (held[k] # Absent \/ mined[k] # Absent)
  BY DEF Send
<1> HIDE DEF live, sent
<1>5. PICK rec \in {live, sent} :
         /\ Move(k, "sent", rec)
         /\ \/ rec.hash = work[k].fees /\ held' = [held EXCEPT ![k] = work[k].fees]
            \/ held' = held
  BY <1>3, <1>4
<1>6. /\ rec \in Record /\ rec # Absent /\ rec.status = "broadcast"
      /\ rec.ownerId = work[k].ownerId /\ rec.replaceable = work[k].replaceable
  BY <1>2, <1>3, <1>5
<1>7. /\ StoreInv' /\ kind' = kind
      /\ \A j \in Keys : TransactionAt(j)' = TransactionAt(j)
      /\ \A a \in Accounts : AccountAt(a)' = AccountAt(a)
  BY StoreRests DEF EscalationInv, Send
<1>8. UNCHANGED <<procVars, tracked, mined, cut>>  BY DEF Send
<1>9. held' \in [Keys -> FeeFields \cup {Absent}]
      /\ \A j \in Keys \ {k} : held'[j] = held[j]
  BY <1>2, <1>5 DEF EscalationInv, TypeOK
<1>10. TypeOK'
  BY <1>5, <1>6, <1>7, <1>8, <1>9 DEF EscalationInv, TypeOK, Move, procVars
<1>11. Local(k)
  BY <1>5, <1>7, <1>8, <1>9 DEF Local, EscalationInv, TypeOK, Move, procVars
<1>12. /\ pc'[k] = "sent" /\ work'[k] = rec /\ tracked'[k] = tracked[k] /\ OwnerOf[k] \in up'
  BY <1>1, <1>5, <1>8 DEF EscalationInv, TypeOK, Move, procVars
\* Drift with a version in the mempool: it was sent before a crash.
<1>13. k \notin cut' /\ held'[k] # Absent => rec.hash = held'[k]
  <2>1. CASE rec.hash = work[k].fees /\ held' = [held EXCEPT ![k] = work[k].fees]
    BY <2>1 DEF EscalationInv, TypeOK
  <2>2. CASE held' = held
    BY <1>1, <1>8, <2>2 DEF EscalationInv, KeyInv, HeldInv
  <2> QED  BY <1>5, <2>1, <2>2
<1>14. RecordInv(k)'
  <2>1. work[k] # Absent  BY <1>1, AbsentAssumption
  <2>2. Proper(k, rec)
    BY <1>6, <2>1 DEF EscalationInv, KeyInv, RecordInv, Proper
  <2>3. Proper(k, TransactionAt(k)) /\ Proper(k, tracked[k])
    BY DEF EscalationInv, KeyInv, RecordInv
  <2> QED  BY <1>7, <1>12, <2>2, <2>3 DEF RecordInv, Proper
<1>15. StageInv(k)'
  BY <1>1, <1>6, <1>7, <1>12 DEF StageInv, Live
<1>16. HeldInv(k)'
  BY <1>12, <1>13 DEF HeldInv
<1> QED  BY <1>10, <1>11, <1>14, <1>15, <1>16, LocalKeeps DEF KeyInv

LEMMA ReattachKeeps ==
    ASSUME EscalationInv, NEW k \in Keys, Reattach(k) PROVE EscalationInv'
<1>1. PICK o \in Oracles, base \in BaseFees :
        LET rec == ReattachRecord(k, Estimate(o, base))
        IN  /\ UpsertTransaction(k, rec) /\ Move(k, "stored", rec)
            /\ held' = [held EXCEPT ![k] = rec.fees]
  BY DEF Reattach
<1> DEFINE rec == ReattachRecord(k, Estimate(o, base))
<1>2. rec \in Record  BY FeesAreTyped, NewRecordTyped
<1>3. /\ rec.status = "broadcast" /\ rec.ownerId = OwnerOf[k] /\ rec.replaceable = FALSE
      /\ ActiveStatus(rec.status) /\ rec.fees \in FeeFields /\ rec.hash = rec.fees
  BY <1>2 DEF ReattachRecord, NewRecord, ActiveStatus, TerminalStatus, Record
<1> HIDE DEF rec
<1>4. /\ UpsertTransaction(k, rec) /\ Move(k, "stored", rec)
      /\ held' = [held EXCEPT ![k] = rec.fees]
  BY <1>1 DEF rec
<1>5. Kept(rec) = rec /\ rec # Absent  BY <1>2, <1>3, ActiveIsKept
<1>6. /\ StoreInv' /\ kind' = kind /\ TransactionAt(k)' = rec
      /\ \A j \in Keys \ {k} : TransactionAt(j)' = TransactionAt(j)
      /\ \A a \in Accounts : AccountAt(a)' = AccountAt(a)
  BY <1>2, <1>4, <1>5, TransactionWritten DEF EscalationInv
<1>7. TypeOK'
  BY <1>2, <1>3, <1>4, <1>6 DEF EscalationInv, TypeOK, Reattach, Move, procVars
<1>8. Local(k)
  BY <1>4, <1>6 DEF Local, EscalationInv, TypeOK, Reattach, Move, procVars
<1>9. /\ pc'[k] = "stored" /\ work'[k] = rec /\ tracked'[k] = Absent
      /\ held'[k] = rec.fees /\ OwnerOf[k] \in up'
  BY <1>4 DEF EscalationInv, TypeOK, KeyInv, StageInv, Reattach, Move, procVars
<1>10. Kept(work[k])' = rec
  BY <1>5, <1>6, <1>9 DEF Kept
<1>11. KeyInv(k)'
  BY <1>3, <1>5, <1>6, <1>9, <1>10 DEF KeyInv, RecordInv, Proper, StageInv, HeldInv, Live
<1> QED  BY <1>7, <1>8, <1>11, LocalKeeps

LEMMA StoreKeeps ==
    ASSUME EscalationInv, NEW k \in Keys, Store(k) PROVE EscalationInv'
<1>1. /\ pc[k] = "sent" /\ work[k] \in Record /\ OwnerOf[k] \in up
  BY DEF EscalationInv, TypeOK, KeyInv, StageInv, Store
<1>2. UpsertTransaction(k, work[k])  BY DEF Store
<1>3. Kept(work[k]) \in Record \cup {Absent} /\ (Kept(work[k]) # Absent => Kept(work[k]) = work[k])
  BY <1>1, ActiveIsKept
<1>4. /\ StoreInv' /\ kind' = kind /\ TransactionAt(k)' = Kept(work[k])
      /\ \A j \in Keys \ {k} : TransactionAt(j)' = TransactionAt(j)
      /\ \A a \in Accounts : AccountAt(a)' = AccountAt(a)
  BY <1>1, <1>2, TransactionWritten DEF EscalationInv
<1>5. TypeOK'
  BY <1>1, <1>3, <1>4 DEF EscalationInv, TypeOK, Store, Move, procVars, chainVars
<1>6. Local(k)
  BY <1>4 DEF Local, EscalationInv, TypeOK, Store, Move, procVars, chainVars
<1>7. /\ pc'[k] = "stored" /\ work'[k] = work[k] /\ tracked'[k] = tracked[k]
      /\ held'[k] = held[k] /\ OwnerOf[k] \in up' /\ cut' = cut
  BY <1>1 DEF EscalationInv, TypeOK, Store, Move, procVars, chainVars
<1>8. Kept(work[k])' = Kept(work[k])  BY <1>4, <1>7 DEF Kept
<1>9. KeyInv(k)'
  BY <1>1, <1>3, <1>4, <1>7, <1>8 DEF EscalationInv, KeyInv, RecordInv, Proper, StageInv, HeldInv
<1> QED  BY <1>5, <1>6, <1>9, LocalKeeps

LEMMA TrackKeeps ==
    ASSUME EscalationInv, NEW k \in Keys, Track(k) PROVE EscalationInv'
<1>1. /\ pc[k] = "stored" /\ work[k] \in Record /\ OwnerOf[k] \in up
      /\ TransactionAt(k) = Kept(work[k])
  BY DEF EscalationInv, TypeOK, KeyInv, StageInv, Track
<1>2. /\ work[k] # Absent
      /\ ActiveStatus(work[k].status) => Kept(work[k]) = work[k]
      /\ Kept(work[k]) # Absent => Kept(work[k]) = work[k]
  BY <1>1, ActiveIsKept
<1>3. /\ StoreInv' /\ kind' = kind
      /\ \A j \in Keys : TransactionAt(j)' = TransactionAt(j)
      /\ \A a \in Accounts : AccountAt(a)' = AccountAt(a)
  BY StoreRests DEF EscalationInv, Track
<1>4. TypeOK'
  BY <1>1, <1>3 DEF EscalationInv, TypeOK, Track, Move, procVars, chainVars
<1>5. Local(k)
  BY <1>3 DEF Local, EscalationInv, TypeOK, Track, Move, procVars, chainVars
<1>6. /\ pc'[k] = "done" /\ work'[k] = Absent
      /\ tracked'[k] = IF ActiveStatus(work[k].status) THEN work[k] ELSE Absent
      /\ held'[k] = held[k] /\ OwnerOf[k] \in up' /\ cut' = cut
  BY <1>1 DEF EscalationInv, TypeOK, Track, Move, procVars, chainVars, ActiveStatus
<1>7. Live(k) => TransactionAt(k) = work[k] /\ ActiveStatus(work[k].status)
  BY <1>1, <1>2 DEF Live
<1>8. ActiveStatus(work[k].status) => Live(k) /\ TransactionAt(k) = work[k]
  BY <1>1, <1>2 DEF Live
<1>9. Live(k)' <=> Live(k)  BY <1>3 DEF Live
<1>10. RecordInv(k)'
  BY <1>3, <1>6 DEF EscalationInv, KeyInv, RecordInv, Proper
<1>11. StageInv(k)'
  BY <1>2, <1>3, <1>6, <1>7, <1>8, <1>9 DEF StageInv
<1>12. HeldInv(k)'
  BY <1>1, <1>3, <1>6, <1>7, <1>9 DEF EscalationInv, KeyInv, HeldInv
<1> QED  BY <1>4, <1>5, <1>10, <1>11, <1>12, LocalKeeps DEF KeyInv

\* A transition of the tick takes the tracked record on.
LEMMA TransitionKeeps ==
    ASSUME EscalationInv, NEW k \in Keys, NEW rec \in Record, Polled(k), Move(k, "sent", rec),
           rec.ownerId = tracked[k].ownerId, rec.replaceable = tracked[k].replaceable,
           rec.status # "pending",
           UNCHANGED <<storeVars, procVars, tracked, mined>>,
           \/ held' = held /\ cut' = cut /\ rec.hash = tracked[k].hash
           \/ held' = [held EXCEPT ![k] = rec.fees] /\ cut' = cut \ {k} /\ rec.hash = rec.fees
    PROVE  EscalationInv'
<1>1. /\ pc[k] = "done" /\ tracked[k] # Absent /\ OwnerOf[k] \in up
      /\ Live(k) /\ TransactionAt(k) = tracked[k]
  BY DEF EscalationInv, KeyInv, StageInv, Polled
<1>2. rec # Absent /\ rec.fees \in FeeFields
  BY AbsentAssumption DEF Record
<1>3. /\ StoreInv' /\ kind' = kind
      /\ \A j \in Keys : TransactionAt(j)' = TransactionAt(j)
      /\ \A a \in Accounts : AccountAt(a)' = AccountAt(a)
  BY StoreRests DEF EscalationInv
<1>4. held' \in [Keys -> FeeFields \cup {Absent}]
  BY <1>2 DEF EscalationInv, TypeOK
<1>5. TypeOK'
  BY <1>2, <1>3, <1>4 DEF EscalationInv, TypeOK, Move, procVars
<1>6. \A j \in Keys \ {k} : held'[j] = held[j]
  BY DEF EscalationInv, TypeOK
<1>7. Local(k)
  BY <1>3, <1>6 DEF Local, EscalationInv, TypeOK, Move, procVars
<1>8. /\ pc'[k] = "sent" /\ work'[k] = rec /\ tracked'[k] = tracked[k]
      /\ OwnerOf[k] \in up'
  BY <1>1 DEF EscalationInv, TypeOK, Move, procVars
<1>9. k \notin cut' /\ held'[k] # Absent => rec.hash = held'[k]
  BY <1>1 DEF EscalationInv, TypeOK, KeyInv, HeldInv
<1>10. KeyInv(k)'
  BY <1>1, <1>2, <1>3, <1>8, <1>9
     DEF EscalationInv, KeyInv, RecordInv, Proper, StageInv, HeldInv, Live
<1> QED  BY <1>5, <1>7, <1>10, LocalKeeps

LEMMA TickKeeps ==
    ASSUME EscalationInv, NEW k \in Keys, Confirms(k) \/ GivesUp(k) \/ Replaces(k)
    PROVE  EscalationInv'
<1>1. Polled(k) /\ tracked[k] \in Record
  BY DEF EscalationInv, TypeOK, Confirms, GivesUp, Replaces, Stuck, Polled
<1>2. CASE Confirms(k)
  <2> DEFINE rec == [tracked[k] EXCEPT !.status = "confirmed"]
  <2>1. /\ rec \in Record /\ rec.status # "pending" /\ rec.ownerId = tracked[k].ownerId
        /\ rec.replaceable = tracked[k].replaceable /\ rec.hash = tracked[k].hash
    BY <1>1 DEF Record, Statuses, TerminalStatus
  <2> HIDE DEF rec
  <2>2. Move(k, "sent", rec) /\ UNCHANGED <<storeVars, procVars, tracked, chainVars, cut>>
    BY <1>2 DEF Confirms, rec
  <2> QED  BY <1>1, <2>1, <2>2, TransitionKeeps DEF chainVars
<1>3. CASE GivesUp(k)
  <2> DEFINE rec == [tracked[k] EXCEPT !.status = "failed"]
  <2>1. /\ rec \in Record /\ rec.status # "pending" /\ rec.ownerId = tracked[k].ownerId
        /\ rec.replaceable = tracked[k].replaceable /\ rec.hash = tracked[k].hash
    BY <1>1 DEF Record, Statuses, TerminalStatus
  <2> HIDE DEF rec
  <2>2. Move(k, "sent", rec) /\ UNCHANGED <<storeVars, procVars, tracked, chainVars, cut>>
    BY <1>3 DEF GivesUp, rec
  <2> QED  BY <1>1, <2>1, <2>2, TransitionKeeps DEF chainVars
<1>4. CASE Replaces(k)
  <2> DEFINE rec == Replacement(tracked[k], Bump(tracked[k].fees))
  <2>1. tracked[k].attempts + 1 \in 1 .. MaxAttempts
    BY <1>1, <1>4, LimitsAssumption DEF Replaces, Exhausted, Record
  <2>2. Bump(tracked[k].fees) \in FeeFields
    BY <1>1, FeesAreTyped DEF Record
  <2>3. /\ rec \in Record /\ rec.status # "pending" /\ rec.ownerId = tracked[k].ownerId
        /\ rec.replaceable = tracked[k].replaceable
        /\ rec.fees = Bump(tracked[k].fees) /\ rec.hash = rec.fees
    BY <1>1, <2>1, <2>2 DEF Record, Statuses, Hash, Replacement
  <2> HIDE DEF rec
  <2>4. /\ Move(k, "sent", rec) /\ UNCHANGED <<storeVars, procVars, tracked, mined>>
        /\ held' = [held EXCEPT ![k] = rec.fees] /\ cut' = cut \ {k}
    BY <1>4, <2>3 DEF Replaces, rec
  <2> QED  BY <1>1, <2>3, <2>4, TransitionKeeps
<1> QED  BY <1>2, <1>3, <1>4

LEMMA MineKeeps ==
    ASSUME EscalationInv, NEW k \in Keys, Mine(k) PROVE EscalationInv'
<1>1. /\ StoreInv' /\ kind' = kind
      /\ \A j \in Keys : TransactionAt(j)' = TransactionAt(j)
      /\ \A a \in Accounts : AccountAt(a)' = AccountAt(a)
  BY StoreRests DEF EscalationInv, Mine
<1>2. TypeOK'
  BY <1>1 DEF EscalationInv, TypeOK, Mine, procVars
<1>3. Local(k)
  BY <1>1 DEF Local, EscalationInv, TypeOK, Mine, procVars
<1>4. /\ held'[k] = Absent /\ pc' = pc /\ work' = work /\ tracked' = tracked /\ up' = up
  BY DEF EscalationInv, TypeOK, Mine, procVars
<1>5. KeyInv(k)'
  BY <1>1, <1>4 DEF EscalationInv, KeyInv, RecordInv, Proper, StageInv, HeldInv, Live, Kept
<1> QED  BY <1>2, <1>3, <1>5, LocalKeeps

LEMMA RefreshKeeps ==
    ASSUME EscalationInv, NEW o \in Accounts, Refresh(o) PROVE EscalationInv'
<1>1. PICK healthy \in BOOLEAN :
          /\ UpsertAccount(o, [ownerId |-> o, healthy |-> healthy])
          /\ gauge' = [gauge EXCEPT ![o] = healthy]
  BY DEF Refresh
<1>2. [ownerId |-> o, healthy |-> healthy] \in AccountRecord  BY DEF AccountRecord
<1>3. /\ StoreInv' /\ kind' = kind
      /\ AccountAt(o)' = [ownerId |-> o, healthy |-> healthy]
      /\ \A a \in Accounts \ {o} : AccountAt(a)' = AccountAt(a)
      /\ \A j \in Keys : TransactionAt(j)' = TransactionAt(j)
  BY <1>1, <1>2, AccountWritten DEF EscalationInv
<1>4. TypeOK'
  BY <1>1, <1>2, <1>3 DEF EscalationInv, TypeOK, Refresh, chainVars
<1>5. ASSUME NEW j \in Keys PROVE KeyInv(j)'
  BY <1>3, OtherKey DEF EscalationInv, Refresh, chainVars
<1>6. ASSUME NEW a \in Accounts PROVE AccountInv(a)'
  BY <1>1, <1>3 DEF EscalationInv, TypeOK, AccountInv, Refresh
<1> QED  BY <1>3, <1>4, <1>5, <1>6 DEF EscalationInv

LEMMA CrashKeeps ==
    ASSUME EscalationInv, NEW o \in Accounts, Crash(o) PROVE EscalationInv'
<1>1. /\ StoreInv'
      /\ \A k \in Keys : TransactionAt(k)' =
            IF kind = "memory" /\ OwnerOf[k] = o THEN Absent ELSE TransactionAt(k)
      /\ \A a \in Accounts : AccountAt(a)' =
            IF kind = "memory" /\ a = o THEN Absent ELSE AccountAt(a)
  BY ProcessLost DEF EscalationInv, KeyInv, RecordInv, Crash
<1>2. /\ kind' = kind /\ up' = up \ {o} /\ held' = held /\ mined' = mined /\ oracle' = oracle
      /\ crashes' = crashes - 1 /\ crashes > 0
      /\ tracked' = [k \in Keys |-> IF OwnerOf[k] = o THEN Absent ELSE tracked[k]]
      /\ gauge' = [gauge EXCEPT ![o] = Absent]
      /\ pc' = [k \in Keys |-> IF OwnerOf[k] = o /\ pc[k] # "idle" THEN "done" ELSE pc[k]]
      /\ work' = [k \in Keys |-> IF OwnerOf[k] = o THEN Absent ELSE work[k]]
      /\ cut' = cut \cup {k \in Owned(o) : pc[k] = "sent" /\ work[k].hash # TransactionAt(k).hash}
  BY DEF Crash, Owned, chainVars
<1>3. TypeOK'
  <2>1. crashes' \in 0 .. Crashes
    BY <1>2, LimitsAssumption DEF EscalationInv, TypeOK
  <2>2. cut' \in SUBSET Keys  BY <1>2 DEF EscalationInv, TypeOK, Owned
  <2>3. pc' \in [Keys -> {"idle", "ahead", "sent", "stored", "done"}]
    BY <1>2 DEF EscalationInv, TypeOK
  <2> QED  BY <1>1, <1>2, <2>1, <2>2, <2>3 DEF EscalationInv, TypeOK
<1>4. ASSUME NEW k \in Keys PROVE KeyInv(k)'
  <2>1. CASE OwnerOf[k] # o
    BY <1>1, <1>2, <2>1, OtherKey DEF EscalationInv
  <2>2. CASE OwnerOf[k] = o
    <3>1. /\ tracked'[k] = Absent /\ work'[k] = Absent /\ OwnerOf[k] \notin up'
          /\ pc'[k] = IF pc[k] = "idle" THEN "idle" ELSE "done"
      BY <1>2, <2>2
    <3>2. TransactionAt(k)' \in {Absent, TransactionAt(k)}
      BY <1>1
    <3>3. RecordInv(k)'
      BY <3>1, <3>2 DEF EscalationInv, KeyInv, RecordInv, Proper
    <3>4. StageInv(k)'
      BY <1>2, <3>1, <3>2 DEF EscalationInv, KeyInv, StageInv
    <3>5. ASSUME k \notin cut', held[k] # Absent, Live(k), pc[k] # "idle"
          PROVE  TransactionAt(k).hash = held[k]
      <4>1. k \notin cut /\ (pc[k] = "sent" => work[k].hash = TransactionAt(k).hash)
        BY <1>2, <2>2, <3>5 DEF Owned
      <4>2. CASE pc[k] = "ahead"
        BY <3>5, <4>1, <4>2 DEF EscalationInv, KeyInv, HeldInv
      <4>3. CASE pc[k] = "sent"
        BY <3>5, <4>1, <4>3 DEF EscalationInv, KeyInv, HeldInv
      <4>4. CASE pc[k] = "stored"
        <5>1. work[k] \in Record /\ TransactionAt(k) = Kept(work[k])
          BY <4>4 DEF EscalationInv, TypeOK, KeyInv, StageInv
        <5>2. TransactionAt(k) = work[k]  BY <3>5, <5>1, ActiveIsKept DEF Live
        <5> QED  BY <3>5, <4>1, <4>4, <5>2 DEF EscalationInv, KeyInv, HeldInv
      <4>5. CASE pc[k] = "done"
        BY <3>5, <4>1, <4>5 DEF EscalationInv, KeyInv, HeldInv
      <4> QED  BY <3>5, <4>2, <4>3, <4>4, <4>5 DEF EscalationInv, TypeOK
    <3>6. HeldInv(k)'
      BY <1>2, <3>1, <3>2, <3>5 DEF HeldInv, Live
    <3> QED  BY <3>3, <3>4, <3>6 DEF KeyInv
  <2> QED  BY <2>1, <2>2
<1>5. ASSUME NEW a \in Accounts PROVE AccountInv(a)'
  BY <1>1, <1>2 DEF EscalationInv, TypeOK, AccountInv
<1> QED  BY <1>1, <1>3, <1>4, <1>5 DEF EscalationInv

LEMMA BootKeeps ==
    ASSUME EscalationInv, NEW o \in Accounts, Boot(o) PROVE EscalationInv'
<1> DEFINE loaded == ActiveKeys(o)
<1> DEFINE again == {k \in loaded : TransactionAt(k).status = "pending"}
<1>1. \A k \in Keys : k \in loaded <=> OwnerOf[k] = o /\ Live(k)
  BY DEF ActiveKeys, Live, EscalationInv, KeyInv, RecordInv, Proper
<1>2. /\ o \notin up /\ up' = up \cup {o} /\ crashes' = crashes /\ cut' = cut
      /\ held' = held /\ mined' = mined
      /\ \E which \in Oracles : oracle' = [oracle EXCEPT ![o] = which]
      /\ tracked' = [k \in Keys |-> IF k \in loaded THEN TransactionAt(k) ELSE tracked[k]]
      /\ pc' = [k \in Keys |-> IF k \in again THEN "ahead" ELSE pc[k]]
      /\ work' = [k \in Keys |-> IF k \in again THEN TransactionAt(k) ELSE work[k]]
  BY DEF Boot, chainVars
<1>3. /\ StoreInv' /\ kind' = kind
      /\ \A k \in Keys : TransactionAt(k)' = TransactionAt(k)
      /\ \A a \in Accounts \ {o} : AccountAt(a)' = AccountAt(a)
      /\ AccountAt(o)' = [ownerId |-> o, healthy |-> gauge'[o]]
      /\ gauge'[o] \in BOOLEAN /\ \A a \in Accounts \ {o} : gauge'[a] = gauge[a]
      /\ gauge' \in [Accounts -> BOOLEAN \cup {Absent}]
  <2>1. CASE AccountAt(o) # Absent
    <3>1. /\ AccountAt(o) = [ownerId |-> o, healthy |-> AccountAt(o).healthy]
          /\ AccountAt(o).healthy \in BOOLEAN
      BY <2>1 DEF EscalationInv, TypeOK, AccountInv, AccountRecord
    <3>2. UNCHANGED storeVars /\ gauge' = [gauge EXCEPT ![o] = AccountAt(o).healthy]
      BY <2>1 DEF Boot
    <3>3. gauge \in [Accounts -> BOOLEAN \cup {Absent}]  BY DEF EscalationInv, TypeOK
    <3> QED  BY <3>1, <3>2, <3>3, StoreRests DEF EscalationInv
  <2>2. CASE AccountAt(o) = Absent
    <3> DEFINE seed == [ownerId |-> o, healthy |-> TRUE]
    <3>1. seed \in AccountRecord  BY DEF AccountRecord
    <3>2. UpsertAccount(o, seed) /\ gauge' = [gauge EXCEPT ![o] = TRUE]
      BY <2>2 DEF Boot
    <3>3. gauge \in [Accounts -> BOOLEAN \cup {Absent}]  BY DEF EscalationInv, TypeOK
    <3>4. gauge'[o] = TRUE /\ (\A a \in Accounts \ {o} : gauge'[a] = gauge[a])
          /\ gauge' \in [Accounts -> BOOLEAN \cup {Absent}]
      BY <3>2, <3>3
    <3>5. AccountAt(o)' = seed  BY <3>1, <3>2, AccountWritten DEF EscalationInv
    <3>6. seed = [ownerId |-> o, healthy |-> gauge'[o]]  BY <3>4
    <3> HIDE DEF seed
    <3>7. /\ StoreInv' /\ kind' = kind
          /\ \A k \in Keys : TransactionAt(k)' = TransactionAt(k)
          /\ \A a \in Accounts \ {o} : AccountAt(a)' = AccountAt(a)
      BY <3>1, <3>2, AccountWritten DEF EscalationInv
    <3> QED  BY <3>4, <3>5, <3>6, <3>7
  <2> QED  BY <2>1, <2>2
<1>4. \A a \in Accounts : AccountAt(a)' \in AccountRecord \cup {Absent}
  <2>1. [ownerId |-> o, healthy |-> gauge'[o]] \in AccountRecord  BY <1>3 DEF AccountRecord
  <2> QED  BY <1>3, <2>1 DEF EscalationInv, TypeOK
<1> HIDE DEF loaded
<1>5. TypeOK'
  <2>1. oracle' \in [Accounts -> Oracles] /\ up' \in SUBSET Accounts
    BY <1>2 DEF EscalationInv, TypeOK
  <2>2. tracked' \in [Keys -> Record \cup {Absent}]
    BY <1>2 DEF EscalationInv, TypeOK
  <2>3. work' \in [Keys -> Record \cup {Absent}]
    BY <1>2 DEF EscalationInv, TypeOK
  <2>4. pc' \in [Keys -> {"idle", "ahead", "sent", "stored", "done"}]
    BY <1>2 DEF EscalationInv, TypeOK
  <2> QED  BY <1>2, <1>3, <1>4, <2>1, <2>2, <2>3, <2>4 DEF EscalationInv, TypeOK
<1>6. ASSUME NEW k \in Keys PROVE KeyInv(k)'
  <2>1. CASE OwnerOf[k] # o
    <3>1. k \notin loaded  BY <1>1, <2>1
    <3> QED  BY <1>2, <1>3, <2>1, <3>1, OtherKey DEF EscalationInv
  <2>2. CASE OwnerOf[k] = o /\ ~Live(k)
    <3>1. k \notin loaded  BY <1>1, <2>2
    <3>2. pc[k] \in {"idle", "done"} /\ tracked[k] = Absent
      BY <1>2, <2>2 DEF EscalationInv, KeyInv, StageInv
    <3>3. /\ pc'[k] = pc[k] /\ tracked'[k] = tracked[k] /\ work'[k] = work[k]
          /\ OwnerOf[k] \in up' /\ ~Live(k)'
      BY <1>2, <1>3, <2>2, <3>1 DEF Live
    <3>4. RecordInv(k)'
      BY <1>3, <3>3 DEF EscalationInv, KeyInv, RecordInv, Proper
    <3>5. StageInv(k)'
      BY <1>2, <1>3, <3>2, <3>3 DEF EscalationInv, KeyInv, StageInv
    <3>6. HeldInv(k)'
      BY <3>2, <3>3 DEF HeldInv
    <3> QED  BY <3>4, <3>5, <3>6 DEF KeyInv
  <2>3. CASE OwnerOf[k] = o /\ Live(k)
    <3>1. k \in loaded  BY <1>1, <2>3
    <3>2. pc[k] = "done" /\ work[k] = Absent /\ TransactionAt(k) # Absent
      BY <1>2, <2>3 DEF EscalationInv, KeyInv, StageInv, Live
    <3>3. /\ tracked'[k] = TransactionAt(k) /\ OwnerOf[k] \in up' /\ Live(k)'
          /\ TransactionAt(k)' = TransactionAt(k)
          /\ pc'[k] = IF TransactionAt(k).status = "pending" THEN "ahead" ELSE "done"
          /\ work'[k] = IF TransactionAt(k).status = "pending" THEN TransactionAt(k) ELSE Absent
      BY <1>2, <1>3, <2>3, <3>1, <3>2 DEF Live
    <3>4. RecordInv(k)'
      BY <3>3 DEF EscalationInv, KeyInv, RecordInv, Proper
    <3>5. StageInv(k)'
      BY <3>2, <3>3 DEF StageInv
    <3>6. HeldInv(k)'
      <4>1. k \notin cut /\ held[k] # Absent => TransactionAt(k).hash = held[k]
        BY <2>3, <3>2 DEF EscalationInv, KeyInv, HeldInv
      <4>2. TransactionAt(k).status = "pending" => TransactionAt(k).hash = ZeroHash
        BY <3>2 DEF EscalationInv, KeyInv, RecordInv, Proper
      <4>3. held[k] # ZeroHash
        BY HashAssumption DEF EscalationInv, TypeOK
      <4> QED  BY <1>2, <3>3, <4>1, <4>2, <4>3 DEF HeldInv
    <3> QED  BY <3>4, <3>5, <3>6 DEF KeyInv
  <2> QED  BY <2>1, <2>2, <2>3
<1>7. ASSUME NEW a \in Accounts PROVE AccountInv(a)'
  BY <1>2, <1>3 DEF EscalationInv, AccountInv
<1> QED  BY <1>3, <1>5, <1>6, <1>7 DEF EscalationInv

LEMMA InvInit == Init => EscalationInv
<1> SUFFICES ASSUME Init PROVE EscalationInv
  OBVIOUS
<1>1. \A k \in Keys : TransactionAt(k) = Absent  BY DEF Init, TransactionAt
<1>2. \A a \in Accounts : AccountAt(a) = Absent  BY DEF Init, AccountAt
<1>3. StoreInv  BY DEF Init, StoreInv
<1>4. TypeOK  BY <1>1, <1>2, LimitsAssumption DEF Init, TypeOK
<1>5. \A k \in Keys : KeyInv(k)
  BY <1>1 DEF Init, KeyInv, RecordInv, Proper, StageInv, HeldInv
<1>6. \A a \in Accounts : AccountInv(a)
  BY <1>2 DEF Init, AccountInv
<1> QED  BY <1>3, <1>4, <1>5, <1>6 DEF EscalationInv

LEMMA InvStep == EscalationInv /\ [Next]_vars => EscalationInv'
<1> SUFFICES ASSUME EscalationInv, [Next]_vars PROVE EscalationInv'
  OBVIOUS
<1>1. ASSUME NEW k \in Keys, CallStep(k) PROVE EscalationInv'
  BY <1>1, WriteAheadKeeps, ReattachKeeps DEF CallStep
<1>2. ASSUME NEW k \in Keys, KeyStep(k) PROVE EscalationInv'
  BY <1>2, SendKeeps, StoreKeeps, TrackKeeps, TickKeeps DEF KeyStep
<1>3. ASSUME NEW o \in Accounts, Refresh(o) \/ Crash(o) \/ Boot(o) PROVE EscalationInv'
  BY <1>3, RefreshKeeps, CrashKeeps, BootKeeps
<1>4. CASE UNCHANGED vars
  <2>1. /\ StoreInv' /\ kind' = kind
        /\ \A j \in Keys : TransactionAt(j)' = TransactionAt(j)
        /\ \A a \in Accounts : AccountAt(a)' = AccountAt(a)
    BY <1>4, StoreRests DEF EscalationInv, vars
  <2>2. TypeOK'
    BY <1>4, <2>1 DEF EscalationInv, TypeOK, vars, procVars, chainVars
  <2>3. ASSUME NEW j \in Keys PROVE KeyInv(j)'
    BY <1>4, <2>1, OtherKey DEF EscalationInv, vars, procVars, chainVars
  <2>4. ASSUME NEW a \in Accounts PROVE AccountInv(a)'
    BY <1>4, <2>1 DEF EscalationInv, AccountInv, vars, procVars
  <2> QED  BY <2>1, <2>2, <2>3, <2>4 DEF EscalationInv
<1> QED  BY <1>1, <1>2, <1>3, <1>4, MineKeeps DEF Next

THEOREM EscalationInductive == Spec => []EscalationInv
BY InvInit, InvStep, PTL DEF Spec

----------------------------------------------------------------------------
(* Prices, records and stages are well typed: in particular no transaction *)
(* is ever tried more than maxAttempts times, across restarts as well.     *)
THEOREM EscalationTypes == Spec => []TypeOK
<1>1. EscalationInv => TypeOK  BY DEF EscalationInv
<1> QED  BY <1>1, EscalationInductive, PTL

(* Whichever the store, what restore() would load for a pool is what the   *)
(* pool works on, whatever other pools keep in the same tables.            *)
THEOREM RecoveryIsExact == Spec => []Recoverable
<1>1. EscalationInv => Recoverable
  <2> SUFFICES ASSUME EscalationInv, NEW o \in up
               PROVE  /\ AccountAt(o) = [ownerId |-> o, healthy |-> gauge[o]]
                      /\ \A k \in Owned(o) : pc[k] = "done" =>
                            IF tracked[k] = Absent THEN k \notin ActiveKeys(o)
                            ELSE k \in ActiveKeys(o) /\ TransactionAt(k) = tracked[k]
    BY DEF Recoverable
  <2>1. o \in Accounts  BY DEF EscalationInv, TypeOK
  <2>2. AccountAt(o) = [ownerId |-> o, healthy |-> gauge[o]]
    BY <2>1 DEF EscalationInv, AccountInv
  <2>3. ASSUME NEW k \in Owned(o), pc[k] = "done"
        PROVE  IF tracked[k] = Absent THEN k \notin ActiveKeys(o)
               ELSE k \in ActiveKeys(o) /\ TransactionAt(k) = tracked[k]
    <3>1. k \in Keys /\ OwnerOf[k] = o  BY DEF Owned
    <3>2. IF tracked[k] = Absent THEN ~Live(k) ELSE Live(k) /\ TransactionAt(k) = tracked[k]
      BY <2>3, <3>1 DEF EscalationInv, KeyInv, StageInv
    <3>3. k \in ActiveKeys(o) <=> Live(k)
      BY <3>1 DEF ActiveKeys, Live, EscalationInv, KeyInv, RecordInv, Proper
    <3> QED  BY <3>2, <3>3
  <2> QED  BY <2>2, <2>3
<1> QED  BY <1>1, EscalationInductive, PTL

(* The tick asks for the receipt of the version that the node holds,       *)
(* unless a crash came between the last accepted send of the transaction   *)
(* and its row: a first send, whose rebroadcast is answered with drift and *)
(* leaves ZERO_HASH (managed-account.ts, rebroadcast()), or a replacement. *)
(* The next replacement mends both.                                        *)
THEOREM RecordNamesHeld == Spec => []AsksForHeld
<1>1. EscalationInv => AsksForHeld
  <2> SUFFICES ASSUME EscalationInv, NEW k \in Keys \ cut, Polled(k), held[k] # Absent
               PROVE  tracked[k].hash = held[k]
    BY DEF AsksForHeld
  <2>1. Live(k) /\ TransactionAt(k) = tracked[k]
    BY DEF EscalationInv, KeyInv, StageInv, Polled
  <2> QED  BY <2>1 DEF EscalationInv, KeyInv, HeldInv, Polled
<1> QED  BY <1>1, EscalationInductive, PTL

(* A reattached placeholder is never outbid, by whichever process has it.  *)
THEOREM PlaceholderSafe == Spec => PlaceholderUntouched
<1>1. ASSUME EscalationInv, [Next]_vars, NEW k \in Reattached, held[k] # Absent
      PROVE  held'[k] \in {held[k], Absent}
  <2>0. k \in Keys  BY KeysAssumption
  <2>1. ASSUME NEW j \in Keys, WriteAhead(j) PROVE held' = held
    BY <2>1 DEF WriteAhead, chainVars
  <2>2. ASSUME NEW j \in Keys, Reattach(j) PROVE held'[k] = held[k]
    <3>1. j # k  BY <1>1, <2>0, <2>2 DEF EscalationInv, KeyInv, StageInv, Reattach
    <3> QED  BY <2>2, <3>1, <2>0 DEF Reattach, EscalationInv, TypeOK
  <2>3. ASSUME NEW j \in Keys, Send(j) PROVE held'[k] = held[k]
    BY <1>1, <2>0, <2>3 DEF Send, EscalationInv, TypeOK
  <2>4. ASSUME NEW j \in Keys, Store(j) \/ Track(j) \/ Confirms(j) \/ GivesUp(j)
        PROVE held' = held
    BY <2>4 DEF Store, Track, Confirms, GivesUp, chainVars
  <2>5. ASSUME NEW j \in Keys, Replaces(j) PROVE held'[k] = held[k]
    <3>1. j # k
      <4>1. tracked[j] # Absent /\ tracked[j].replaceable # FALSE
        BY <2>5 DEF Replaces, Stuck, Polled
      <4>2. tracked[k] # Absent => tracked[k].replaceable = FALSE
        BY <1>1, <2>0 DEF EscalationInv, KeyInv, RecordInv, Proper
      <4> QED  BY <4>1, <4>2, Zenon
    <3> QED  BY <2>5, <3>1, <2>0 DEF Replaces, EscalationInv, TypeOK
  <2>6. ASSUME NEW j \in Keys, Mine(j) PROVE held'[k] \in {held[k], Absent}
    BY <2>0, <2>6 DEF Mine, EscalationInv, TypeOK
  <2>7. ASSUME NEW o \in Accounts, Refresh(o) \/ Crash(o) \/ Boot(o) PROVE held' = held
    BY <2>7 DEF Refresh, Crash, Boot, chainVars
  <2>8. UNCHANGED vars => held' = held  BY DEF vars, chainVars
  <2> QED  BY <1>1, <2>1, <2>2, <2>3, <2>4, <2>5, <2>6, <2>7, <2>8
           DEF Next, CallStep, KeyStep
<1>2. EscalationInv /\ [Next]_vars =>
        [\A k \in Reattached : held[k] # Absent => held'[k] \in {held[k], Absent}]_vars
  BY <1>1
<1> QED  BY <1>2, EscalationInductive, PTL DEF Spec, PlaceholderUntouched
=============================================================================
