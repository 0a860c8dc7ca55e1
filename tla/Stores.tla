------------------------------- MODULE Stores -------------------------------
(***************************************************************************)
(* The two implementations of the PoolStore port, of which createStore()   *)
(* makes one: maps in memory that drop terminal records                    *)
(* (src/src/store/in-memory.store.ts), and SQLite tables that keep them,   *)
(* with rows of columns instead of records (src/src/store/sqlite.store.ts).*)
(* A bigint becomes text and back without loss and is a number here; an    *)
(* optional field becomes NULL, a boolean 0 or 1, and fees three columns.  *)
(***************************************************************************)
EXTENDS FeeOracles

CONSTANTS
    Keys,     \* idempotency keys
    Accounts, \* addresses
    Absent,   \* stands for "no record", "no row"
    Unset     \* an optional field left undefined

VARIABLES
    kind,           \* StoreConfig.kind
    transactions,   \* rows, or the in-memory map, by idempotency key
    accounts        \* likewise, by address

storeVars == <<kind, transactions, accounts>>

Null == -1
TerminalStatus == {"confirmed", "reverted", "failed"}
Statuses == {"pending", "broadcast", "mined"} \cup TerminalStatus

FeeColumns ==
    [fee_type : {"legacy", "eip1559"}, gas_price : Nat \cup {Null},
     max_fee_per_gas : Nat \cup {Null}, max_priority_fee_per_gas : Nat \cup {Null}]

feesToRow(fees) ==
    [fee_type |-> fees.type,
     gas_price |-> IF fees.type = "legacy" THEN fees.gasPrice ELSE Null,
     max_fee_per_gas |-> IF fees.type = "eip1559" THEN fees.maxFeePerGas ELSE Null,
     max_priority_fee_per_gas |->
        IF fees.type = "eip1559" THEN fees.maxPriorityFeePerGas ELSE Null]

rowToFees(row) ==
    IF row.fee_type = "legacy" THEN Legacy(row.gas_price)
    ELSE Eip1559(row.max_fee_per_gas, row.max_priority_fee_per_gas)

flagToRow(flag) == IF flag = Unset THEN Null ELSE IF flag = TRUE THEN 1 ELSE 0

\* Bug: a 0 is read as "no value".
flagFalsy(n) == IF n = 1 THEN TRUE ELSE Unset
rowToFlag(n) == IF n = Null THEN Unset ELSE n = 1

\* upsertTransaction() and the rows of loadActiveTransactions().
Encode(rec) ==
    [owner_id |-> rec.ownerId, status |-> rec.status, attempts |-> rec.attempts,
     fees |-> feesToRow(rec.fees), hash |-> rec.hash,
     replaceable |-> flagToRow(rec.replaceable)]
Decode(row) ==
    [ownerId |-> row.owner_id, status |-> row.status, attempts |-> row.attempts,
     fees |-> rowToFees(row.fees), hash |-> row.hash,
     replaceable |-> rowToFlag(row.replaceable)]

EncodeAccount(rec) ==
    [owner_id |-> rec.ownerId, healthy |-> IF rec.healthy THEN 1 ELSE 0]
DecodeAccount(row) == [ownerId |-> row.owner_id, healthy |-> row.healthy = 1]

----------------------------------------------------------------------------
\* What a write leaves under its key.
MemoryKeeps(rec) == IF rec.status \in TerminalStatus THEN Absent ELSE rec
Stored(rec) == IF kind = "memory" THEN MemoryKeeps(rec) ELSE Encode(rec)

UpsertTransaction(k, rec) ==
    /\ transactions' = [transactions EXCEPT ![k] = Stored(rec)]
    /\ UNCHANGED <<kind, accounts>>

StoredAccount(rec) == IF kind = "memory" THEN rec ELSE EncodeAccount(rec)

UpsertAccount(a, rec) ==
    /\ accounts' = [accounts EXCEPT ![a] = StoredAccount(rec)]
    /\ UNCHANGED <<kind, transactions>>

TransactionAt(k) ==
    IF transactions[k] = Absent THEN Absent
    ELSE IF kind = "memory" THEN transactions[k] ELSE Decode(transactions[k])
AccountAt(a) ==
    IF accounts[a] = Absent THEN Absent
    ELSE IF kind = "memory" THEN accounts[a] ELSE DecodeAccount(accounts[a])

\* Bug: the query knows one terminal status less.
FailedToo(status) == status \notin {"confirmed", "reverted"}
ActiveStatus(status) == status \notin TerminalStatus

\* loadActiveTransactions(ownerId, chainId): the keys it returns.
ActiveKeys(owner) ==
    {k \in Keys : /\ TransactionAt(k) # Absent
                  /\ TransactionAt(k).ownerId = owner
                  /\ ActiveStatus(TransactionAt(k).status)}

\* The process that holds the maps ends; a database file stays.
StoreSurvives(owner) ==
    IF kind = "sqlite" THEN UNCHANGED <<transactions, accounts>>
    ELSE /\ transactions' = [k \in Keys |->
               IF transactions[k] # Absent /\ transactions[k].ownerId = owner
               THEN Absent ELSE transactions[k]]
         /\ accounts' = [a \in Accounts |->
               IF accounts[a] # Absent /\ accounts[a].ownerId = owner
               THEN Absent ELSE accounts[a]]
=============================================================================
