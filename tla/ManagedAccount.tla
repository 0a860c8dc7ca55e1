--------------------------- MODULE ManagedAccount ---------------------------
(***************************************************************************)
(* One ManagedAccount of walletsforce in one process, with the pieces it   *)
(* composes: the cache's nonce lane and in-flight set                      *)
(* (src/src/cache/in-memory.cache.ts), the durable store's two tables      *)
(* (src/src/store/sqlite.store.ts), the confirm tick the supervisor drives *)
(* (src/src/supervisor.ts), boot reconciliation (src/src/pool.ts) and the  *)
(* chain (EvmNode).                                                        *)
(*                                                                         *)
(* A handler is cut at each `await` on the chain or the store: between two *)
(* of them every other promise of the process may run, or the process may  *)
(* die.  Cache calls of the in-memory cache never wait, so a cache call is *)
(* taken with the step it follows or precedes, except where a crash or the *)
(* other actor between a store write and the cache write makes a           *)
(* difference: there they are two actions.                                 *)
(*                                                                         *)
(* Fees are abstracted to the attempt that set them: attempt n+1 outbids   *)
(* attempt n.  A record's `attempts` is its fee level and `hash` the       *)
(* attempt whose hash it holds, 0 being ZERO_HASH.                         *)
(*                                                                         *)
(* A definition commented "Bug:" is used by no other definition.  It is    *)
(* the wrong way to write the one that follows it, and each property is    *)
(* tried against such a bug (README.md, "Mutants").                        *)
(***************************************************************************)
EXTENDS EvmNode, Sequences

CONSTANTS
    Jobs,         \* keys sent with pool.submit(); Keys \ Jobs are reattached
    MaxAttempts,  \* deps.maxAttempts
    MaxInflight,  \* deps.maxInflight
    Budgets       \* how many faults of each kind a behaviour may contain

Foreign == Keys \ Jobs

FaultKinds == {"rpc", "lost", "store", "crash", "evict", "reorg", "revert"}

ASSUME JobsAssumption == Jobs \subseteq Keys
ASSUME LimitAssumption == MaxAttempts \in Nat \ {0} /\ MaxInflight \in Nat \ {0}
ASSUME BudgetAssumption == Budgets \subseteq [FaultKinds -> Nat]

VARIABLES
    cursor,      \* Lane.cursor; 0 when undefined, as `cursor ?? seed` reads it
    inflight,    \* the cache's txs map of this account: one record per nonce
    queue,       \* turns chained on Lane.tail, first to run first
    pc,          \* where the call that carries each key stands
    alloc,       \* the nonce that call was given
    step,        \* where the confirm tick stands
    todo,        \* records of this pass's snapshot not looked at yet
    work,        \* the successor record the tick is writing: at most one
    head,        \* the pass's `head`, read at most once; 0 when still null
    seen,        \* the receipt whose depth waits for that read: at most one
    slipped,     \* history: jobs confirmed on a receipt that a reorg had
                 \* orphaned before the head was read
    row,         \* the store's transactions table
    savedCursor, \* nonce_cursor of the store's accounts row
    phase,       \* life of the process
    outbox,      \* restored "pending" records that rebroadcast() carries
    primed,      \* Supervisor.start()'s primeNonce() has run
    told,        \* terminal events emitted for each key, oldest first
    faults       \* faults still allowed

cacheVars == <<cursor, inflight>>
callVars == <<queue, pc, alloc>>
tickVars == <<step, todo, work, head, seen, slipped>>
storeVars == <<row, savedCursor>>
bootVars == <<phase, outbox, primed>>

vars == <<nodeVars, cacheVars, callVars, tickVars, storeVars, bootVars, told, faults>>

----------------------------------------------------------------------------
(* Records.                                                                *)

Active == {"pending", "broadcast", "mined"}
Terminal == {"confirmed", "reverted", "failed"}

Rec == [job : Keys, nonce : Nat, status : {"absent"} \cup Active \cup Terminal,
        attempts : Nat, hash : Nat, minedEmitted : BOOLEAN]

NoRow(k) ==
    [job |-> k, nonce |-> 0, status |-> "absent",
     attempts |-> 0, hash |-> 0, minedEmitted |-> FALSE]

NewRecord(k, n) ==
    [job |-> k, nonce |-> n, status |-> "pending",
     attempts |-> 1, hash |-> 0, minedEmitted |-> FALSE]

Live(r) == [r EXCEPT !.status = "broadcast", !.hash = r.attempts]
\* Bug: the successor takes a fresh nonce instead of the one it replaces.
ReplacementAtNextNonce(r) == Live([r EXCEPT !.attempts = @ + 1, !.nonce = @ + 1])
Replacement(r) == Live([r EXCEPT !.attempts = r.attempts + 1])
\* Bug: a reattached transaction is recorded as if still to be sent.
ReattachAsPending(k, n) == NewRecord(k, n)
ReattachRecord(k, n) == Live(NewRecord(k, n))
Mined(r) == [r EXCEPT !.status = "mined", !.minedEmitted = TRUE]
Settled(r, s) == [r EXCEPT !.status = s]

\* The transaction that signing the record yields, and the one its hash names.
SignedTx(r) == [job |-> r.job, nonce |-> r.nonce, attempt |-> r.attempts]
HashTx(r) == [job |-> r.job, nonce |-> r.nonce, attempt |-> r.hash]

(* The cache's operations on its in-flight map and its cursor.             *)
\* Bug: the record is added beside the one it supersedes.
PutBeside(set, r) == set \cup {r}
PutTx(set, r) == {x \in set : x.nonce # r.nonce} \cup {r}
\* Bug: the settled record stays.
DropNothing(set, n) == set
DropTx(set, n) == {x \in set : x.nonce # n}
\* Bug: the seed is taken for the last nonce used.
SeedOneShort(c, n) == IF n > c THEN n ELSE n - 1
SeedNonce(c, n) == IF n > c THEN n ELSE c
\* Bug: the cap admits one too many.
OverCap == Cardinality(inflight) > MaxInflight
AtCap == Cardinality(inflight) >= MaxInflight

InTurn == {"estimating", "ahead", "sent", "drift", "error", "reseed", "stored"}
\* Bug: a turn that throws breaks the chain of turns behind it.
LaneNeverFailed == \A k \in Jobs : pc[k] \notin InTurn \cup {"rejected"}
LaneFree == \A k \in Jobs : pc[k] \notin InTurn
Done == {"resolved", "rejected", "lost"}
PcStates == {"idle", "queued", "abroad", "recorded"} \cup InTurn \cup Done

Spend(kind) ==
    /\ faults[kind] > 0
    /\ faults' = [faults EXCEPT ![kind] = @ - 1]

TypeOK ==
    /\ NodeTypeOK
    /\ cursor \in Nat
    /\ inflight \in SUBSET Rec
    /\ queue \in Seq(Jobs)
    /\ pc \in [Keys -> PcStates]
    /\ alloc \in [Keys -> Nat]
    /\ step \in {"idle", "poll", "head", "send", "store", "cache"}
    /\ todo \in SUBSET Rec
    /\ work \in SUBSET Rec
    /\ head \in Nat
    /\ seen \in SUBSET Receipt
    /\ slipped \in SUBSET Keys
    /\ row \in [Keys -> Rec]
    /\ savedCursor \in Nat
    /\ phase \in {"down", "restoring", "up"}
    /\ outbox \in SUBSET Rec
    /\ primed \in BOOLEAN
    /\ told \in [Keys -> Seq(Terminal)]
    /\ faults \in [FaultKinds -> Nat]

\* The process after its first restore() of an empty store.
Init ==
    /\ NodeInit
    /\ cursor = 0 /\ inflight = {}
    /\ queue = <<>> /\ pc = [k \in Keys |-> "idle"] /\ alloc = [k \in Keys |-> 0]
    /\ step = "idle" /\ todo = {} /\ work = {}
    /\ head = 0 /\ seen = {} /\ slipped = {}
    /\ row = [k \in Keys |-> NoRow(k)] /\ savedCursor = 0
    /\ phase = "up" /\ outbox = {} /\ primed = FALSE
    /\ told = [k \in Keys |-> <<>>]
    /\ faults \in Budgets

----------------------------------------------------------------------------
(* submit(): one turn of the nonce lane.                                   *)

MovePc(k, to) == pc' = [pc EXCEPT ![k] = to]

\* withNonce chains the turn on the lane's tail.
Submit(k) ==
    /\ phase = "up" /\ pc[k] = "idle"
    /\ MovePc(k, "queued")
    /\ queue' = Append(queue, k)
    /\ UNCHANGED <<nodeVars, cacheVars, alloc, tickVars, storeVars, bootVars, told, faults>>

NextTurn(k) ==
    /\ queue # <<>> /\ k = Head(queue) /\ pc[k] = "queued" /\ LaneFree
    /\ queue' = Tail(queue)
    /\ UNCHANGED <<nodeVars, cacheVars, tickVars, storeVars, bootVars, told, faults>>

\* Backpressure: the cap is checked inside the lane.
TurnRefused(k) ==
    /\ NextTurn(k)
    /\ AtCap
    /\ MovePc(k, "rejected")
    /\ UNCHANGED alloc

TurnStart(k) ==
    /\ NextTurn(k)
    /\ ~AtCap
    /\ MovePc(k, "estimating")
    /\ alloc' = [alloc EXCEPT ![k] = cursor]

\* feeOracle.estimate or estimateGas throws: nothing was recorded.
EstimateFails(k) ==
    /\ pc[k] = "estimating"
    /\ Spend("rpc")
    /\ MovePc(k, "rejected")
    /\ UNCHANGED <<nodeVars, cacheVars, queue, alloc, tickVars, storeVars, bootVars, told>>

\* Bug: the transaction is sent before the row is written.
WriteAheadSkipped(k) ==
    /\ pc[k] = "estimating"
    /\ MovePc(k, "ahead")
    /\ UNCHANGED <<nodeVars, cacheVars, queue, alloc, tickVars, storeVars, bootVars, told, faults>>

\* The write-ahead row; a store failure here is fatal for the call.
WriteAhead(k) ==
    /\ pc[k] = "estimating"
    /\ \/ /\ row' = [row EXCEPT ![k] = NewRecord(k, alloc[k])]
          /\ MovePc(k, "ahead")
          /\ UNCHANGED faults
       \/ /\ Spend("store")
          /\ MovePc(k, "rejected")
          /\ UNCHANGED row
    /\ UNCHANGED <<nodeVars, cacheVars, queue, alloc, tickVars, savedCursor, bootVars, told>>

\* signTransaction + sendRawTransaction and the four ways it can come back.
Send(k) ==
    LET t == SignedTx(row[k]) IN
    /\ pc[k] = "ahead"
    /\ \/ /\ Accepts(t)
          /\ network' = network \cup {t}
          /\ MovePc(k, "sent")
          /\ UNCHANGED faults
       \/ /\ Drifts(t)
          /\ MovePc(k, "drift")
          /\ UNCHANGED <<network, faults>>
       \/ /\ Spend("rpc")                       \* the request never arrived
          /\ MovePc(k, "error")
          /\ UNCHANGED network
       \/ /\ Spend("lost") /\ Accepts(t)        \* the reply never arrived
          /\ network' = network \cup {t}
          /\ MovePc(k, "error")
    /\ UNCHANGED <<mined, next, height, buried, cacheVars, queue, alloc, tickVars, storeVars, bootVars, told>>

\* The catch block: the row becomes "failed"; a store error is swallowed.
RecordFailure(k) ==
    /\ pc[k] \in {"drift", "error"}
    /\ MovePc(k, IF pc[k] = "drift" THEN "reseed" ELSE "rejected")
    /\ \/ /\ row' = [row EXCEPT ![k] = Settled(@, "failed")]
          /\ UNCHANGED faults
       \/ /\ Spend("store")
          /\ UNCHANGED row
    /\ UNCHANGED <<nodeVars, cacheVars, queue, alloc, tickVars, savedCursor, bootVars, told>>

\* reseedOnDrift: the pending count, or 0 when that call fails too.
Reseed(k) ==
    /\ pc[k] = "reseed"
    /\ MovePc(k, "rejected")
    /\ \/ /\ \E c \in PendingCounts :
                cursor' = SeedNonce(cursor, SeedNonce(c, alloc[k] + 1))
          /\ UNCHANGED faults
       \/ /\ Spend("rpc")
          /\ cursor' = SeedNonce(cursor, alloc[k] + 1)
    /\ UNCHANGED <<nodeVars, inflight, queue, alloc, tickVars, storeVars, bootVars, told>>

\* The row turns "broadcast"; a store failure rejects a call whose
\* transaction is on the wire.
RecordBroadcast(k) ==
    /\ pc[k] = "sent"
    /\ \/ /\ row' = [row EXCEPT ![k] = Live(@)]
          /\ MovePc(k, "stored")
          /\ UNCHANGED faults
       \/ /\ Spend("store")
          /\ MovePc(k, "rejected")
          /\ UNCHANGED row
    /\ UNCHANGED <<nodeVars, cacheVars, queue, alloc, tickVars, savedCursor, bootVars, told>>

\* putTx, then Lane.run sets the cursor from the nonce this turn was given.
FinishTurn(k) ==
    /\ pc[k] = "stored"
    /\ inflight' = PutTx(inflight, row[k])
    /\ cursor' = alloc[k] + 1
    /\ MovePc(k, "resolved")
    /\ UNCHANGED <<nodeVars, queue, alloc, tickVars, storeVars, bootVars, told, faults>>

LaneStep(k) ==
    \/ TurnRefused(k) \/ TurnStart(k) \/ EstimateFails(k) \/ WriteAhead(k)
    \/ Send(k) \/ RecordFailure(k) \/ Reseed(k) \/ RecordBroadcast(k) \/ FinishTurn(k)

----------------------------------------------------------------------------
(* reattach(): track a transaction another program of the owner sent from  *)
(* this account.                                                           *)

ForeignSend(f) ==
    /\ pc[f] = "idle"
    /\ \E c \in PendingCounts :
          /\ alloc' = [alloc EXCEPT ![f] = c]
          /\ network' = network \cup {SignedTx(NewRecord(f, c))}
    /\ MovePc(f, "abroad")
    /\ UNCHANGED <<mined, next, height, buried, cacheVars, queue, tickVars, storeVars, bootVars, told, faults>>

ReattachStore(f) ==
    /\ phase = "up" /\ pc[f] = "abroad"
    /\ \/ /\ row' = [row EXCEPT ![f] = ReattachRecord(f, alloc[f])]
          /\ MovePc(f, "recorded")
          /\ UNCHANGED faults
       \/ /\ Spend("store")
          /\ MovePc(f, "rejected")
          /\ UNCHANGED row
    /\ UNCHANGED <<nodeVars, cacheVars, queue, alloc, tickVars, savedCursor, bootVars, told>>

ReattachTrack(f) ==
    /\ pc[f] = "recorded"
    /\ inflight' = PutTx(inflight, row[f])
    /\ cursor' = SeedNonce(cursor, alloc[f] + 1)
    /\ MovePc(f, "resolved")
    /\ UNCHANGED <<nodeVars, queue, alloc, tickVars, storeVars, bootVars, told, faults>>

\* Supervisor.start(): primeNonce(), fire-and-forget.  The count may be read
\* long before it is seeded; the cursor only takes it when it is larger.
PrimeNonce ==
    /\ phase = "up" /\ ~primed
    /\ \E c \in PendingCounts : cursor' = SeedNonce(cursor, c)
    /\ primed' = TRUE
    /\ UNCHANGED <<nodeVars, inflight, callVars, tickVars, storeVars, phase, outbox, told, faults>>

----------------------------------------------------------------------------
(* confirmTick(): one pass over a snapshot of the in-flight set, lowest    *)
(* nonce first, then refreshState().                                       *)

TickStart ==
    /\ phase = "up" /\ step = "idle"
    /\ step' = "poll"
    /\ todo' = inflight
    /\ UNCHANGED <<nodeVars, cacheVars, callVars, work, head, seen, slipped,
                   storeVars, bootVars, told, faults>>

\* The record whose iteration of the loop runs.
Current(r) == r \in todo /\ \A x \in todo : r.nonce <= x.nonce

Looks(r) ==
    /\ Current(r)
    /\ UNCHANGED <<nodeVars, cacheVars, callVars, storeVars, bootVars, told>>

\* The iteration asks for the receipt of the record's hash.
Polls(r) == step = "poll" /\ Looks(r) /\ UNCHANGED <<head, slipped>>

NextRecord(r) ==
    /\ todo' = todo \ {r}
    /\ step' = "poll"
    /\ work' = {} /\ seen' = {}

Advance(r, w) ==
    /\ todo' = todo \ {r}
    /\ step' = "store"
    /\ work' = {w} /\ seen' = {}

\* Bug: the status in the receipt is not looked at.
AnyReceipt(m) == TRUE
Reverted(m) == ~m.ok
\* Bug: a block counts as one deeper than it is.
OneBlockEarly(h, m) == h - m.block + 1 >= Confirmations - 1
DeepEnough(h, m) == h - m.block + 1 >= Confirmations

PollReverted(r) ==
    /\ Polls(r)
    /\ \E m \in Receipts(HashTx(r)) : Reverted(m)
    /\ Advance(r, Settled(r, "reverted"))
    /\ UNCHANGED faults

\* The pass's first successful receipt: getBlockNumber is still to be called,
\* and the chain may move before it answers.
PollSucceeded(r) ==
    /\ Polls(r) /\ head = 0
    /\ \E m \in Receipts(HashTx(r)) : ~Reverted(m) /\ seen' = {m}
    /\ step' = "head"
    /\ UNCHANGED <<todo, work, faults>>

\* The receipt in hand, and the head it is measured against: the newest block
\* for the first receipt of the pass, that same number for the later ones.
InHand(r) ==
    {m \in IF step = "head" THEN seen ELSE mined : m.tx = HashTx(r) /\ ~Reverted(m)}
HeadRead == IF head = 0 THEN height ELSE head

Measures(r) ==
    /\ step = "head" \/ (step = "poll" /\ head # 0)
    /\ Looks(r)
    /\ head' = HeadRead
    /\ UNCHANGED faults

PollConfirmed(r) ==
    /\ Measures(r)
    /\ \E m \in InHand(r) :
          /\ DeepEnough(HeadRead, m)
          /\ slipped' = IF m \in mined THEN slipped ELSE slipped \cup {r.job}
    /\ Advance(r, Settled(r, "confirmed"))

PollMined(r) ==
    /\ Measures(r)
    /\ \E m \in InHand(r) : ~DeepEnough(HeadRead, m)
    /\ IF r.minedEmitted THEN NextRecord(r) ELSE Advance(r, Mined(r))
    /\ UNCHANGED slipped

\* No receipt, and less than stuckAfterMs since the last send.
PollWaiting(r) ==
    /\ Polls(r) /\ Receipts(HashTx(r)) = {}
    /\ NextRecord(r)
    /\ UNCHANGED faults

\* No receipt for stuckAfterMs.  A reattached placeholder is only polled on.
Stuck(r) == Polls(r) /\ Receipts(HashTx(r)) = {} /\ r.job \in Jobs

PollGivesUp(r) ==
    /\ Stuck(r) /\ r.attempts >= MaxAttempts
    /\ Advance(r, Settled(r, "failed"))
    /\ UNCHANGED faults

PollReplaces(r) ==
    /\ Stuck(r) /\ r.attempts < MaxAttempts
    /\ step' = "send"
    /\ todo' = todo \ {r}
    /\ work' = {Replacement(r)}
    /\ UNCHANGED <<seen, faults>>

\* The receipt or head call throws; the error is logged, the record kept.
PollFails(r) ==
    /\ step \in {"poll", "head"} /\ Looks(r)
    /\ Spend("rpc")
    /\ NextRecord(r)
    /\ UNCHANGED <<head, slipped>>

\* replace()'s send.  Any nonce-drift reply returns without a trace.
ReplaceSend(w) ==
    LET t == SignedTx(w)
        Leave == step' = "poll" /\ work' = {}
    IN
    /\ step = "send" /\ w \in work
    /\ \/ /\ Accepts(t)
          /\ network' = network \cup {t}
          /\ step' = "store"
          /\ UNCHANGED <<work, faults>>
       \/ /\ Drifts(t)
          /\ Leave
          /\ UNCHANGED <<network, faults>>
       \/ /\ Spend("rpc")
          /\ Leave
          /\ UNCHANGED network
       \/ /\ Spend("lost") /\ Accepts(t)
          /\ network' = network \cup {t}
          /\ Leave
    /\ UNCHANGED <<mined, next, height, buried, cacheVars, callVars, todo, head, seen, slipped,
                   storeVars, bootVars, told>>

\* Store first: on a store error the tick logs and goes to the next record.
TickStores(w) ==
    /\ step = "store" /\ w \in work
    /\ \/ /\ row' = [row EXCEPT ![w.job] = w]
          /\ step' = "cache"
          /\ UNCHANGED <<work, faults>>
       \/ /\ Spend("store")
          /\ step' = "poll" /\ work' = {}
          /\ UNCHANGED row
    /\ UNCHANGED <<nodeVars, cacheVars, callVars, todo, head, seen, slipped,
                   savedCursor, bootVars, told>>

\* Bug: the record is dropped and nobody is told.
SettleSilently(w) ==
    /\ step = "cache" /\ w \in work /\ w.status \in Terminal
    /\ inflight' = DropTx(inflight, w.nonce)
    /\ step' = "poll" /\ work' = {}
    /\ UNCHANGED <<nodeVars, cursor, callVars, todo, head, seen, slipped,
                   storeVars, bootVars, told, faults>>

\* Then the cache, then the event.
TickDrops(w) ==
    /\ step = "cache" /\ w \in work /\ w.status \in Terminal
    /\ inflight' = DropTx(inflight, w.nonce)
    /\ told' = [told EXCEPT ![w.job] = Append(@, w.status)]
    /\ step' = "poll" /\ work' = {}
    /\ UNCHANGED <<nodeVars, cursor, callVars, todo, head, seen, slipped,
                   storeVars, bootVars, faults>>

TickPuts(w) ==
    /\ step = "cache" /\ w \in work /\ w.status \in Active
    /\ inflight' = PutTx(inflight, w)
    /\ step' = "poll" /\ work' = {}
    /\ UNCHANGED <<nodeVars, cursor, callVars, todo, head, seen, slipped,
                   storeVars, bootVars, told, faults>>

RefreshState ==
    \/ savedCursor' = cursor /\ UNCHANGED faults
    \/ (Spend("rpc") \/ Spend("store")) /\ UNCHANGED savedCursor

\* Bug: the head outlives the pass that read it.
EndWithStaleHead ==
    /\ step = "poll" /\ todo = {}
    /\ step' = "idle"
    /\ RefreshState
    /\ UNCHANGED <<nodeVars, cacheVars, callVars, todo, work, head, seen, slipped,
                   row, bootVars, told>>

\* refreshBalances() -> refreshState(): the account row takes the cursor;
\* a failing balance call or store leaves the row as it was.
TickEnd ==
    /\ step = "poll" /\ todo = {}
    /\ step' = "idle" /\ head' = 0
    /\ RefreshState
    /\ UNCHANGED <<nodeVars, cacheVars, callVars, todo, work, seen, slipped,
                   row, bootVars, told>>

PollStep(r) ==
    \/ PollReverted(r) \/ PollSucceeded(r) \/ PollConfirmed(r) \/ PollMined(r)
    \/ PollWaiting(r) \/ PollGivesUp(r) \/ PollReplaces(r) \/ PollFails(r)

WorkStep(w) == ReplaceSend(w) \/ TickStores(w) \/ TickDrops(w) \/ TickPuts(w)

TickStep ==
    \/ TickStart \/ TickEnd
    \/ \E r \in todo : PollStep(r)
    \/ \E w \in work : WorkStep(w)

----------------------------------------------------------------------------
(* Crash and pool.restore().                                               *)

\* Everything in memory goes; callers that were waiting get no answer.
Crash ==
    /\ phase # "down"
    /\ Spend("crash")
    /\ phase' = "down"
    /\ cursor' = 0 /\ inflight' = {}
    /\ queue' = <<>>
    /\ pc' = [k \in Keys |->
                IF pc[k] \in {"queued", "recorded"} \cup InTurn THEN "lost" ELSE pc[k]]
    /\ step' = "idle" /\ todo' = {} /\ work' = {}
    /\ head' = 0 /\ seen' = {}
    /\ outbox' = {} /\ primed' = FALSE
    /\ UNCHANGED <<nodeVars, alloc, slipped, storeVars, told>>

\* Bug: the recovery set takes settled rows too.
EveryRow == {row[k] : k \in {j \in Keys : row[j].status # "absent"}}
\* Bug: the recovery set takes only what was never broadcast.
OnlyPendingRows == {row[k] : k \in {j \in Keys : row[j].status = "pending"}}

\* loadActiveTransactions: the recovery set.
ActiveRows == {row[k] : k \in {j \in Keys : row[j].status \in Active}}

\* Bug: only the gauge is trusted, which is a pass of the tick old.
SeededFromGauge == {savedCursor}
\* Bug: the seed skips a nonce.
SeededPastEnd == {c + 1 : c \in {savedCursor} \cup {r.nonce + 1 : r \in ActiveRows}}

\* The saved cursor, moved past every active nonce.
SeededCursors ==
    {c \in {savedCursor} \cup {r.nonce + 1 : r \in ActiveRows} :
        c >= savedCursor /\ \A r \in ActiveRows : c > r.nonce}

\* restoreAccountState and restoreTransaction for every row: of the rows that
\* share a nonce the last one put stays.
Restore ==
    /\ phase = "down"
    /\ phase' = "restoring"
    /\ inflight' \in {kept \in SUBSET ActiveRows :
                        /\ \A r \in ActiveRows : \E x \in kept : x.nonce = r.nonce
                        /\ \A x, y \in kept : x.nonce = y.nonce => x = y}
    /\ cursor' \in SeededCursors
    /\ outbox' = {r \in ActiveRows : r.status = "pending"}
    /\ UNCHANGED <<nodeVars, callVars, tickVars, storeVars, primed, told, faults>>

\* Bug: drift is taken for an error that a retry may cure.
DriftRetried(r) == outbox
\* Drift is read as "already landed": the record turns "broadcast" and keeps
\* the hash it was written ahead with.
DriftLanded(r) == (outbox \ {r}) \cup {[r EXCEPT !.status = "broadcast"]}

\* rebroadcast(): the send.
Rebroadcast(r) ==
    LET t == SignedTx(r) IN
    /\ r \in outbox /\ r.status = "pending"
    /\ \/ /\ Accepts(t)
          /\ network' = network \cup {t}
          /\ outbox' = (outbox \ {r}) \cup {Live(r)}
          /\ UNCHANGED faults
       \/ /\ Drifts(t)
          /\ outbox' = DriftLanded(r)
          /\ UNCHANGED <<network, faults>>
       \/ /\ Spend("rpc")
          /\ outbox' = outbox \ {r}
          /\ UNCHANGED network
       \/ /\ Spend("lost") /\ Accepts(t)
          /\ network' = network \cup {t}
          /\ outbox' = outbox \ {r}
    /\ UNCHANGED <<mined, next, height, buried, cacheVars, callVars, tickVars, storeVars, phase, primed, told>>

\* Store, then cache.  A store error here ends this rebroadcast only.
RecordRebroadcast(r) ==
    /\ r \in outbox /\ r.status = "broadcast"
    /\ outbox' = outbox \ {r}
    /\ \/ /\ row' = [row EXCEPT ![r.job] = r]
          /\ inflight' = PutTx(inflight, r)
          /\ UNCHANGED faults
       \/ /\ Spend("store")
          /\ UNCHANGED <<row, inflight>>
    /\ UNCHANGED <<nodeVars, cursor, callVars, tickVars, savedCursor, phase, primed, told>>

\* restore() resolves once every rebroadcast has; the supervisor starts.
BootDone ==
    /\ phase = "restoring" /\ outbox = {}
    /\ phase' = "up"
    /\ UNCHANGED <<nodeVars, cacheVars, callVars, tickVars, storeVars, outbox, primed, told, faults>>

BootStep ==
    \/ Restore \/ BootDone
    \/ \E r \in outbox : Rebroadcast(r) \/ RecordRebroadcast(r)

----------------------------------------------------------------------------
accountVars == <<cacheVars, callVars, tickVars, storeVars, bootVars, told>>

\* A transaction that reverts, is evicted or is orphaned spends a fault.
ChainMines == \E u \in network : Mine(u, TRUE) /\ UNCHANGED <<accountVars, faults>>
ChainReverts == \E u \in network : Mine(u, FALSE) /\ Spend("revert") /\ UNCHANGED accountVars
ChainGrows == EmptyBlock /\ UNCHANGED <<accountVars, faults>>
ChainReorgs == Reorg /\ Spend("reorg") /\ UNCHANGED accountVars
ChainEvicts == \E u \in network : Evict(u) /\ Spend("evict") /\ UNCHANGED accountVars

ChainStep == ChainMines \/ ChainReverts \/ ChainGrows \/ ChainReorgs \/ ChainEvicts

Next ==
    \/ \E k \in Jobs : Submit(k) \/ LaneStep(k)
    \/ \E f \in Foreign : ForeignSend(f) \/ ReattachStore(f) \/ ReattachTrack(f)
    \/ PrimeNonce
    \/ TickStep
    \/ Crash
    \/ BootStep
    \/ ChainStep

Spec == Init /\ [][Next]_vars

\* Promises that can run do run: the lane, the timer's pass, the boot, and a
\* network that goes on mining the account's next nonce.  A record that stays
\* without a receipt becomes older than stuckAfterMs.
Fairness ==
    /\ \A k \in Jobs : WF_vars(LaneStep(k))
    /\ WF_vars(TickStep)
    /\ \A k \in Keys : SF_vars(\E r \in todo : r.job = k /\ (PollGivesUp(r) \/ PollReplaces(r)))
    /\ WF_vars(BootStep)
    /\ WF_vars(ChainMines)
    /\ WF_vars(ChainGrows)

FairSpec == Spec /\ Fairness

----------------------------------------------------------------------------
(* Safety.                                                                 *)

OnChain(k) == {m \in mined : m.tx.job = k}
Gossiped(k) == {u \in network : u.job = k}
CachedFor(k) == {r \in inflight : r.job = k}

(* The store is written first and "store and cache never disagree"         *)
(* (managed-account.ts settle, replace, submit): a cached record is the    *)
(* stored row, except between the tick's store write and its cache write.  *)
CacheFollowsStore ==
    \A r \in inflight : row[r.job] = r \/ (step = "cache" /\ row[r.job] \in work)

(* Write-ahead: whatever of a submitted job is on the network or the chain *)
(* has a durable row that carries its nonce, so a restart can account for  *)
(* it.                                                                     *)
WriteAheadFirst ==
    \A u \in network \cup {m.tx : m \in mined} :
        u.job \in Jobs => row[u.job].status # "absent" /\ row[u.job].nonce = u.nonce

(* A job executes at most once however often it is replaced, rebroadcast   *)
(* or retried: every version it ever signs shares one nonce.               *)
SingleExecution ==
    \A m1, m2 \in mined : m1.tx.job = m2.tx.job => m1 = m2

(* "confirmed" is only ever recorded for a job whose own transaction is in *)
(* the chain, succeeded, and is too deep for a reorg to take it back,      *)
(* although the head a depth is measured with is read after the receipt    *)
(* and kept for the whole pass.  One window is left: the block is orphaned *)
(* between the pass's first receipt and its head (managed-account.ts:133   *)
(* and 140), and the transaction it held is confirmed all the same.        *)
ConfirmedOnChain ==
    \A k \in Keys \ slipped : row[k].status = "confirmed" =>
        \E m \in OnChain(k) : m.ok /\ m.tx.nonce = row[k].nonce /\ m.block <= buried

(* models.ts: a "reverted" transaction is dead: the chain has it, it failed, *)
(* and no version of it succeeds.  A revert is settled without the depth    *)
(* asked of a success, so this takes a chain without reorgs.                *)
RevertedIsDead ==
    \A k \in Keys : row[k].status = "reverted" =>
        OnChain(k) # {} /\ \A m \in OnChain(k) : ~m.ok

(* Two live jobs never share a nonce: the lane hands a nonce out again     *)
(* only after the row of the job that failed with it is terminal.          *)
ActiveNoncesDistinct ==
    \A r, s \in ActiveRows : r.nonce = s.nonce => r = s

(* No live job is forgotten: outside its own lane turn an active row is in *)
(* the in-flight set the tick works from, also after a restart.            *)
ActiveRowsTracked ==
    \A k \in Jobs :
        phase # "down" /\ row[k].status \in Active /\ pc[k] \notin InTurn
            => CachedFor(k) # {}

(* Backpressure holds across turns, ticks and restarts.                    *)
CapRespected == Cardinality(inflight) <= MaxInflight

(* README.md: "correct, gap-free nonce per account".  Every nonce below    *)
(* the cursor that the chain still waits for is held by a gossiped         *)
(* transaction or by a record the tick will still send.                    *)
GapFree ==
    phase = "up" =>
        \A n \in next .. (cursor - 1) : Versions(n) # {} \/ \E r \in inflight : r.nonce = n

(* The lifecycle of the stored statuses and the events.                    *)
Lifecycle == INSTANCE TxLifecycle WITH status <- [k \in Keys |-> row[k].status]

RefinesLifecycle == Lifecycle!LifecycleSpec

----------------------------------------------------------------------------
(* Liveness.                                                               *)

(* A submit() call always comes back: the lane is never wedged by a turn   *)
(* that fails.                                                             *)
SubmitReturns == \A k \in Jobs : pc[k] = "queued" ~> pc[k] \in Done

(* README.md: "every entry reaches terminal and is dropped from the cache".*)
EveryEntrySettles == \A k \in Jobs : pc[k] = "resolved" ~> row[k].status \in Terminal

(* A live entry whose current hash is confirmed on chain is settled,       *)
(* whatever fails on the way.                                              *)
MinedEntrySettles ==
    \A k \in Jobs :
        (\E r \in CachedFor(k) : \E m \in Receipts(HashTx(r)) : m.block <= buried)
            ~> row[k].status \in Terminal

(* A terminal status that was stored is told to the waiters, unless the    *)
(* process dies in between: the event is not persisted, and the next       *)
(* process does not emit it again.                                         *)
SettledIsTold ==
    \A k \in Jobs :
        (step = "cache" /\ row[k] \in work /\ row[k].status \in Terminal)
            ~> (told[k] # <<>> \/ phase = "down")

(* A restart always reaches the state in which submit() and the tick run.  *)
BootCompletes == phase = "down" ~> phase = "up"

----------------------------------------------------------------------------
(* What the repository says of the program and a run refutes.              *)

(* models.ts: a "failed" transaction is dead.                              *)
FailedIsDead == \A k \in Keys : row[k].status = "failed" /\ told[k] # <<>> => OnChain(k) = {}
=============================================================================
