# walletsforce, specified in TLA+

walletsforce sends EVM transactions from a pool of accounts: it hands out
nonces, records every transaction before it is sent, watches it until it is
confirmed, raises its fee when it is stuck, and picks everything up again after
a restart. This directory holds TLA+ models of that engine, the TLC
configurations that check them on small instances, and TLAPS proofs for every
instance. All references are to files below `src/`.

## 1. The system

| Component | State it keeps | Operations |
|---|---|---|
| `ManagedAccount` (`src/account/managed-account.ts`) | none of its own: it works on cache and store | `submit`, `reattach`, `confirmTick` (poll, settle, replace), `primeNonce`, `refreshState`, `restore`, `seed`, `rebroadcast` |
| `InMemoryCache` (`src/cache/in-memory.cache.ts`) | per account: nonce lane (cursor and promise chain), in-flight map by nonce, gauge; per ordering key: binding and reference count | `withNonce`, `seedNonce`, `putTx`, `dropTx`, `countTxs`, `bindOrdering`, `releaseOrdering` |
| `SqliteStore`, `InMemoryStore` (`src/store/`) | tables, or maps, `transactions` and `accounts` | `upsertTransaction`, `upsertAccount`, `loadActiveTransactions`, `loadAccounts` |
| `WalletForcePool` with router and selector (`src/pool.ts`, `src/routing/`) | none of its own | `submit`, `reattach`, `restore`, `waitForConfirmation`, `wallets`, `stats` |
| `InMemoryEventBus` (`src/events/`) | listeners, waiters with timers | `on`, `off`, `waitForConfirmation`, `handle` |
| `Supervisor` (`src/supervisor.ts`) | `running`, `timer`, `current`, error count | `start`, `stop`, `tick` |
| `TreasuryFunder` with `NonceLane` (`src/balance/`, `src/account/nonce-lane.ts`) | `pending` set; lane cursor and tail | `maybeTopUp`, `withNextNonce` |
| fee oracles (`src/fee/`) | none | `estimate`, `bump` |
| `ViemChainClient`, `classifyRpcError` (`src/chain/`) | none | RPC calls and the class of their errors |
| signers, config, registry, account builder | none | pure functions and construction |

**Interactions.** `pool.submit()` routes a request to an account (binding its
ordering key in the cache), and the account runs a lane turn: cap check, fee
and gas estimate, row written ahead, send, row and cache updated. The
supervisor ticks every account: the tick polls each in-flight record, settles,
replaces or gives it up, and writes store first, cache second, event third. A
terminal event reaches the bus, which gives the ordering reference back and
settles the waiters. The supervisor also refreshes balances and calls the
funder for accounts that run low. At boot the pool loads the active rows, fills
the cache, seeds the lane and rebroadcasts what was never known to be sent.

**What is hard.** Everything runs on one event loop, so a handler is atomic
between two awaits and interleaves at each of them: lane turns, the tick,
`reattach`, `primeNonce`, the snapshot a submit routes by, the parallel parts of
a balance pass. What was read is old when it is used: a pass measures each
receipt against a head it reads once. The process may die at any await. RPC calls fail or lose their
reply, the store fails after the network has acted, transactions are mined,
replaced, evicted or orphaned while a handler holds a record it read earlier.
Waiters race their timers, and may ask before or after the event they wait for.
`PROJECT.json` lists these hazards at their lines with the properties aimed at
each.

**What makes it correct.** Account: a job executes at most once; what is on the
network is always recorded; live jobs have distinct nonces without a gap; store
and cache agree; "confirmed" is true; calls return and entries settle. Fees and
stores: a replacement outbids what it replaces; a record comes back as it was
written, and what is loaded at boot is what was worked on; a stuck transaction
ends. Pool: a line of ordered requests stays on one account while one of them is
live. Bus: a waiter is told what its own job came to, and none is left over.
Supervisor: one loop, that goes on and stops. Funder: no doubled top-up, no
treasury nonce lost, the floor respected, low accounts funded.

## 2. Modules

| Module | Models | Source |
|---|---|---|
| `EvmNode` | the chain seen by one account (external) | replies used by `account/`, `chain/` |
| `ManagedAccount` | one account in one process: account, its cache, store, tick, boot, crash | `managed-account.ts`, `in-memory.cache.ts`, `sqlite.store.ts`, `pool.ts` restore |
| `TxLifecycle` | what a record's life promises: the abstract specification | `store/models.ts` |
| `FeeOracles` | estimate and bump of both oracles, against the node's replacement rule | `fee/legacy.ts`, `fee/eip1559.ts` |
| `Stores` | both stores: columns and back, what a write keeps, the recovery set | `in-memory.store.ts`, `sqlite.store.ts` |
| `FeeEscalation` | a stuck transaction's prices through bumps, both stores, restarts and several pools | `managed-account.ts`, `pool.ts` with the two above |
| `StickyRouting` | pool facade: snapshot, routing, bindings, release, restore | `pool.ts`, `routing/`, bindings of the cache, release in the bus |
| `EventBus` | waiters, timers, `handle()` | `in-memory.event-bus.ts` |
| `PoolFacade` | the facade with its waiters | `pool.ts`, `substrate.ts` |
| `SupervisorLoop` | start, stop, timer, the two halves of a pass | `supervisor.ts` |
| `TreasuryFunder` | balance pass, `maybeTopUp`, `NonceLane`, the treasury's chain | `treasury-funder.ts`, `nonce-lane.ts` |
| `AccountInvariant`, `LaneInvariant` | the inductive invariants of `ManagedAccount`: of one record, and of the records of one lane | - |
| `ManagedAccountProofs`, `AccountSafetyProofs`, `AccountLaneProofs`, `EscalationProofs`, `RoutingProofs`, `FacadeProofs`, `SupervisorProofs`, `TreasuryProofs` | theorems | - |
| `MCAccount`, `MCEscalation`, `MCFacade`, `MCSupervisor`, `MCTreasury` | instances for TLC | - |

How they compose:

- `ManagedAccount` extends `EvmNode` and refines `TxLifecycle`.
- `FeeEscalation` extends `Stores`, which extends `FeeOracles`: the record whose
  prices the oracles raise is the one the store encodes.
- `PoolFacade` extends `StickyRouting` and takes an `INSTANCE` of `EventBus`:
  what the account emits releases the line and settles the waiters in one
  step, as `emit()` does. It is shown to implement `StickyRouting`
  (`FacadeRoutes`), so the routing theorems hold of it.
- The rest meet at interfaces that each states in its head comment:
  `SupervisorLoop` shows that a tick never runs beside itself, which
  `ManagedAccount` (one `step`) and `TreasuryFunder` (one pass) rely on;
  `StickyRouting` reduces an account's part of a call to the rows and outcomes
  that `ManagedAccount` produces; `ManagedAccount` reduces fees to the attempt
  that set them and `FeeEscalation` shows what that takes (a bump outbids).

### ManagedAccount: variables and actions

`cursor`, `queue` are `Lane`; `inflight` is the cache's map; `row`,
`savedCursor` the two tables; `pc[k]`, `alloc[k]` the program counter and nonce
of the call that carries job `k`; `step`, `todo`, `work` the tick (its snapshot
still to do, and the record it is writing); `head`, `seen` the block number the
pass has read and the receipt that waits for it; `phase`, `outbox` the process
and its boot; `told` the terminal events; `slipped` is history, the jobs that
were confirmed on an orphaned receipt; `faults` the remaining fault budget. A
transaction is (job, nonce, attempt).

On the chain's side (`EvmNode`) blocks have numbers: `height` is the newest,
a receipt has its `block`, a block is appended with a transaction of the account
or without one (`Mine`, `EmptyBlock`), and `Reorg` takes the newest back unless
it has been `Confirmations` deep (`buried`). `DeepEnough` is the comparison of
`managed-account.ts:141`. Its two operands come from two calls: the receipt
(line 133) and the head (line 140), which is read for the first successful
receipt of a pass and kept for the others. `PollSucceeded` is the first of the
two, `PollConfirmed` and `PollMined` the second; the chain, or a crash, may come
in between.

| Code | Actions |
|---|---|
| `submit()` | `Submit`, `TurnRefused`, `TurnStart`, `EstimateFails`, `WriteAhead`, `Send`, `RecordFailure`, `Reseed`, `RecordBroadcast`, `FinishTurn` |
| `reattach()` | `ReattachStore`, `ReattachTrack` (`ForeignSend` is the other program) |
| `confirmTick()` | `TickStart`, `PollReverted`, `PollSucceeded`, `PollConfirmed`, `PollMined`, `PollWaiting`, `PollGivesUp`, `PollReplaces`, `PollFails`, `ReplaceSend`, `TickStores`, `TickDrops`, `TickPuts`, `TickEnd` |
| `primeNonce()`, `refreshState()` | `PrimeNonce`, part of `TickEnd` |
| `pool.restore()` | `Restore`, `Rebroadcast`, `RecordRebroadcast`, `BootDone` |
| outside | `Crash`, `ChainMines`, `ChainReverts`, `ChainGrows`, `ChainReorgs`, `ChainEvicts` |

A handler is cut where it awaits the chain or the store. The in-memory cache
resolves at once, so a cache call is taken with its neighbour, except between a
store write and the cache write that follows, where a crash matters.

### Fees and stores

`FeeOracles` has the integer arithmetic of both oracles, with the configured
floor of the legacy one, and go-ethereum's rule for a replacement (both prices
up, by a tenth). `Stores` has two forms of one port. In memory a terminal record
is dropped; in SQLite a record becomes a row (fees into three nullable columns,
flags into 0, 1 or NULL) and stays. `Encode` and `Decode` are those conversions,
and everything else reads the store through them.

`FeeEscalation`: `kind`, `transactions`, `accounts` are the store; `up`,
`oracle`, `gauge`, `tracked` the pools' processes and caches; `pc[k]`, `work[k]`
the call or transition that is writing key `k`; `held`, `mined` the version in
the mempool and on chain; `cut` is history, the keys whose last accepted send
went out and was not recorded when the process died. A record carries its fees
and its hash, which are two things: the hash is `ZeroHash` until the send
returns, the tick asks for the receipt of the hash, and `bump()` starts from the
fees. A version is named by its fees, since nothing else of a key's transaction
changes. `Send` is the send of `submit()` and of `rebroadcast()`; answered with
drift, the latter turns the record "broadcast" and leaves its hash
(`managed-account.ts:213-216`).

| Code | Actions |
|---|---|
| `submit()`, `rebroadcast()` | `WriteAhead`, `Send`, `Store`, `Track` |
| `reattach()` | `Reattach`, `Track` |
| `settle()`, the decision to give up | `Confirms`, `GivesUp`, then `Store`, `Track` |
| `replace()` | `Replaces`, then `Store`, `Track` |
| `refreshState()` | `Refresh` |
| `pool.restore()`, `seed()` | `Boot` (with either oracle, as an operator may have reconfigured it) |
| outside | `Mine`, `Crash` |

### The facade

`StickyRouting`: `pin`/`refs` are the bindings, `row`/`inflight` what the
account tells the facade; `Picks` reads the wallets' states, `Route` binds by
what was read then; `WritesAhead`, `SubmitResolves`, `SubmitRejects`,
`SubmitStrands` are the rest of `pool.submit()`; `SubmitStrands` is the submit
whose store write fails after the send, which leaves a live job without a
reference (it is `Stranded` until the next restore). `ReattachRecords` and `ReattachBinds`
are `reattach()`, `Restore` the boot.

`PoolFacade` adds the waiters: `Wait` (with or without a timeout, at any time),
`TimesOut`, `Broadcasts` and `Settles` (the two events the bus handles, with or
without a listener that throws), `Dies`; `Unheard` are the routing steps that
emit nothing a waiter hears.

### Supervisor and funder

`SupervisorLoop`: a loop is a timer and the tick it starts; `Start`, `Stop`,
`Fire`, `PartSettles`, `RefreshBalances`, `TickEnds`. The `catch` block of a tick
(`supervisor.ts:91`) is not modelled: both halves of a pass are
`Promise.allSettled`, so nothing reaches it, and the "backoff on error" that its
comment speaks of does not take place. `TreasuryFunder`: one action per stretch
of `maybeTopUp` between awaits, per recipient, all recipients in parallel as in
`refreshBalances()`. `Restart` is the end of the process and the construction of
the next funder: marks, lane and calls are gone, the transfers on the wire are
not. `forgotten` is history: the recipients of a transfer that is out without a
mark, after a restart or a lost reply.

### Mutants

An operator commented `Bug:` is used by no specification. It is a plausible
wrong version of the definition that follows it; putting it in that
definition's place makes TLC refute the property that `PROJECT.json` pairs it
with. So each property is known to notice at least one bug of the code.

## 3. Runs

| Run | Instance | Shows |
|---|---|---|
| `AccountFaults` | 2 jobs, 2 attempts, cap 2; one each of RPC error, lost reply, store error, crash, revert | `CacheFollowsStore`, `WriteAheadFirst`, `SingleExecution`, `RevertedIsDead`, refinement of `TxLifecycle` |
| `AccountReattach` | a submitted and a reattached job, the account already used, 2 confirmations, empty blocks at any time; store error with crash and eviction, or with a reorg, or a crash with a reorg | `TypeOK`, `IInv`, `ConfirmedOnChain` |
| `AccountRestart` | 3 jobs, cap 2; crash and RPC error | `ActiveNoncesDistinct`, `ActiveRowsTracked`, `CapRespected`, `GapFree` |
| `AccountLive` | 2 jobs, cap 1, fair; RPC error with a store error or a crash | `SubmitReturns`, `MinedEntrySettles`, `SettledIsTold`, `BootCompletes` |
| `Escalation` | 2 pools, one submitted and one reattached key, either store, either oracle in each process, 3 attempts, 2 crashes, fair | `TypeOK`, `Recoverable`, `AsksForHeld`, `PlaceholderUntouched`, `StuckEnds` |
| `Facade` | 3 jobs on 2 lines, one reattached, 2 accounts, 1 waiter; crash and store error; timers fair | `FacadeTypeOK`, `RefsExact`, `LineOnOneAccount`, `ToldTruly`, `WaitersAccounted`, `TimedWaitEnds` |
| `Loop` | 2 accounts, 3 loops, `stop()` awaited, fair | `TypeOK`, `SingleLoop`, `StopQuiesces`, `PassesGoOn`, `StopReturns` |
| `Refill` | 2 recipients, treasury for one top-up above its floor, 4 drains, RPC error, lost reply, restart, fair | `TypeOK`, `OneTopUpInFlight`, `FloorAllButShared`, `NoTransferBlocked`, `SentStaysSent`, `LowIsFunded` |

Four runs show where the code departs from what the repository says of it.

| Run | Statement refuted | Why |
|---|---|---|
| `EntryNeverSettles` | README: every entry reaches a terminal status | version 1 is mined after version 2 was recorded; `replace()` returns on "nonce too low" and the record, which asks for version 2's receipt, is replaced again at every tick |
| `FailedThenMined` | `models.ts`: a failed transaction is dead | giving up does not take the transaction off the network |
| `SharedNonce` | README: gap-free, correct nonces | a store error after the send leaves an active row, but not the cursor |
| `RefillOnlyOnce` | `treasury-funder.ts`: `pending` until recovered | the supervisor calls only for low accounts, so nobody sees the recovery |

### Where a property is conditional

Some promises hold only without one particular fault. The run or the property
names it, and the fault is left out or excused, not the behaviour:

- `ActiveNoncesDistinct`, `ActiveRowsTracked`, `CapRespected` and `GapFree` need
  a store that does not fail after a send (`SharedNonce` is the counterexample)
  and an account without reattached transactions: `reattach()` asks neither the
  cap nor the lane, and `Lane.run` may move the cursor back, as it assigns
  `nonce + 1` over what `seedNonce` set during its await.
- `GapFree` further needs that a given-up transaction stays in the mempool:
  after an eviction its nonce is nobody's. And it needs `MaxAttempts` of at
  least 2. With 1, a record that was written ahead, whose process died and whose
  rebroadcast failed is given up as `failed` without having been sent at all,
  while the cursor restored from it is past its nonce; with more attempts the
  next tick sends it as a replacement instead.
- `RevertedIsDead` is checked without reorgs. A reverted receipt is settled at
  once, without the depth asked of a success, so after a reorg the same
  transaction may succeed late.
- `ConfirmedOnChain` excuses the jobs in `slipped`. The first successful receipt
  of a pass and the head are two calls, and nothing asks for the receipt again:
  when its block is orphaned in between and the chain grows on, the transaction
  is confirmed although it is not on the chain. Every other order is covered:
  for later receipts the head is older than the receipt, which can only make a
  block look less deep.
- `AsksForHeld` excuses the keys in `cut`, in two cases. After a first send that
  was not recorded, the next process finds the row "pending", sends again, is
  told that the transaction is known already, and keeps `ZERO_HASH`: no receipt
  is found for it. After a replacement that was not recorded, the row names the
  version that was outbid. The next accepted replacement ends both. `StuckEnds`
  covers the first case and excuses the second (`ReplacementLost`), where the
  price of the record may never outbid the version the node holds. It also
  excuses a record whose fees are of the other oracle's kind: `bump()` throws at
  it, so it is neither replaced nor given up before its version is mined.
  `StuckEnds` ends with a mined transaction; that the record then settles is
  not part of it (`EntryNeverSettles`), and does not hold of a record that still
  has `ZERO_HASH`.
- `OneTopUpInFlight` and `FloorAllButShared` hold until a top-up is forgotten.
  The marks are in memory only, so a process that restarts with a top-up in the
  mempool funds its recipient again, and compares the treasury's mined balance,
  which that top-up has not left yet; after a lost reply the `catch` clears the
  mark of a transfer that did go out, to the same effect. The floor itself is
  exact for one recipient only: parallel calls compare the same mined balance,
  so what is spent may pass it by one full transfer (target and gas) for every
  recipient but the first, however many passes are made. A treasury that starts
  below its floor spends nothing.
- `SentStaysSent` is about transfers whose call succeeded and left its mark. One
  whose reply was lost may be replaced by the next, which is given its nonce.
- `RefsExact` and `LineOnOneAccount` leave out the jobs whose submit rejected
  after the send (`Stranded`): `pool.submit()` gives their reference back
  (`pool.ts:109`) while their transaction is live, so the line may be released
  and bound to another account under them. `LineOnOneAccount` also leaves out
  lines with a reattached job (which keeps its own account).
- `TimedWaitEnds` is about waiters with a timeout. One without that asks after
  the event, or for a submit that is rejected, waits for ever; `WaitersAccounted`
  says that no other does after the event.
- `SingleLoop` and `StopQuiesces` need a caller that awaits `stop()`. Without
  it a restart finds the old tick in flight, which then re-arms its own timer
  (with `AwaitStop = FALSE` in `Loop.cfg` TLC refutes `SingleLoop`).
- `SettledIsTold` excuses a crash, since events are not persisted.
- `MinedEntrySettles` is about the record's current hash; `EntryNeverSettles`
  is the other case.

### Bounds

Every fault is bounded by `Budgets` (`Budget`, `Crashes` in the smaller
modules), which also keeps the state space finite: `MaxAttempts` bounds
replacement of an entry, each job is submitted once, and nonces are bounded by
the jobs. `MaxLoops` bounds coexisting loops; 3 exceeds what `SingleLoop`
allows. Two jobs are the fewest that share a lane; three with a cap of two are
the fewest where the cap refuses one while another is restored. Two attempts are
the fewest with a replacement whose predecessor is still gossiped. `Confirmations`
is 2 where the depth of a block is the question (in `AccountRestart` it is not,
and is 1): then a block is first seen, and recorded as mined, before it is deep
enough, and one reorg can take it back. `IdleHeight` bounds the blocks without a
transaction of the account: at 3, in `AccountReattach`, they come before and
between its transactions; elsewhere only as long as something is to be buried.
The budgets of `AccountReattach` pair the reorg with a crash and with a store
error, not with both. One fault of
a kind suffices for the orders of two different faults; two of a kind are not
explored by TLC there, but the theorems hold for any budget.

`Escalation` starts at 8 wei, the lowest price from which every bump outbids
(`BumpOutbids`; 8 * 1125 / 1000 is 9), so that the integer division is at its
tightest; the base fee is one that leaves the cap above the tip. Two crashes let
a key go from one oracle to the other and back; a second pool with a reattached
key shares the file. `Facade`: two jobs on one line let one settle while the
other arrives; the third has the reattached line, whose binding does not follow
the first. One waiter meets every order of its own three events (registration,
event, timer); what waiters of one key and of different keys do to each other
is in the theorems, which hold for any number. `Outcomes` has
one event that resolves and one that rejects, as `handle()` tells no more apart.
`Refill` is sized so that the first top-up leaves the treasury below what a
second one needs; one restart comes at every point of a top-up's life. Symmetry is used only in runs without liveness properties,
over jobs that nothing distinguishes.

In these models each key is submitted once: the README makes deduplication the
caller's part.

### Fairness

- `ManagedAccount!Fairness`: a lane turn whose promise can continue does (weak
  fairness per job: the chain of promises never drops a link); the tick and the
  boot go on (the supervisor re-arms its timer, `Loop` shows it; every RPC call
  settles by its timeout); the network mines the account's next nonce and goes on
  until it is buried. Strong fairness is assumed only of giving up or replacing an entry without
  a receipt: time passes, so an entry that is polled again and again becomes
  older than `stuckAfterMs`. Nothing is assumed of submissions, faults or reorgs.
- `FeeEscalation!FairSpec`: a call or transition of a key goes on (calls settle,
  the tick passes again), and a dead pool is started again. Nothing is assumed
  of mining, so `StuckEnds` is what the engine does on its own.
- `PoolFacade!FairFacade`: a timer that is set fires; nothing else.
- `SupervisorLoop` assumes that timers fire and calls settle, `TreasuryFunder`
  that passes follow each other, calls go on and the chain mines.

Deadlock is checked in every run: a supervisor's timer, or a retrying or
restarting process, always leaves a step to take.

## 4. Proofs

`tlapm` checks every theorem for any value of the constants, from the named
assumptions of the modules only: keys and jobs are typed (`JobsAssumption`,
`KeysAssumption`, with finitely many jobs in `StickyRouting`: `FiniteAssumption`,
and at least one in `PoolFacade`: `SomeJobAssumption`); limits are positive and
fault budgets are numbers (`LimitAssumption`, `LimitsAssumption`,
`BudgetAssumption`, `MaxLoopsAssumption`); recipients are finitely many
(`FiniteAssumption` in `TreasuryFunder`); prices, ratios and amounts are
numbers (`PricesAssumption`, `RatiosAssumption`, `AmountsAssumption`,
`ChainBaseAssumption`); the values that stand for "nothing" are none of the
others (`AbsentAssumption`, `ValuesAssumption`, `HashAssumption`,
`AccountsAssumption`); a block is final at some depth (`DepthAssumption`); waiters
hear terminal events (`OutcomesAssumption`). The supervisor's theorems assume
`AwaitStop`, as section 3 explains.

The theorems of `AccountLaneProofs` state what they take beyond that, each for
the reason given in section 3: `NeverFaults("reorg")`, `NeverFaults("store")`
and `NeverFaults("evict")` say that no budget has faults of that kind (all
others stay unbounded), `OwnJobsOnly` that no transaction is reattached.

| Theorem | Statement |
|---|---|
| `TypeCorrect`, `Inductive` | `ManagedAccount`: `Spec => []TypeOK`, `[]IInv` |
| `CacheFollows`, `WriteAhead1st` | `[]CacheFollowsStore`, `[]WriteAheadFirst` |
| `ExecutesOnce`, `ConfirmedTruly` | `[]SingleExecution`, `[]ConfirmedOnChain` |
| `Refinement` | `Spec => RefinesLifecycle` |
| `RevertedStaysDead` | no reorgs: `[]RevertedIsDead` |
| `LaneInvariants` | own jobs, working stores: `[](IInv /\ LaneIInv)` |
| `LiveNoncesDistinct`, `LiveRowsTracked`, `CapHolds` | the same: `[]ActiveNoncesDistinct`, `[]ActiveRowsTracked`, `[]CapRespected` |
| `GapInvariants`, `NoGaps` | the same, no evictions, `MaxAttempts > 1`: `[](SentInv /\ BelowInv)`, `[]GapFree` |
| `BumpOutbids` | with the default ratio the node takes every bump of either oracle, if both prices are at least 8 wei |
| `RecordRoundTrip` | a record comes back from its row as it was written |
| `EscalationInductive`, `EscalationTypes` | `FeeEscalation`: `[]EscalationInv`, `[]TypeOK` |
| `RecoveryIsExact`, `RecordNamesHeld` | `[]Recoverable`, `[]AsksForHeld` |
| `PlaceholderSafe` | `PlaceholderUntouched` |
| `RoutingInductive`, `ReferencesExact`, `OneAccountPerLine` | `StickyRouting`: `[]RefsInv`, `[]RefsExact`, `[]LineOnOneAccount` |
| `FacadeRoutes` | `FacadeSpec => Spec`: the facade implements the routing |
| `FacadeReferences`, `FacadeOneAccount` | the same two properties of the facade |
| `WaiterInductive`, `FacadeTypes` | `PoolFacade`: `[]WaiterInv`, `[]FacadeTypeOK` |
| `WaitersToldTruly`, `WaitersAreAccounted` | `[]ToldTruly`, `[]WaitersAccounted` |
| `LoopInductive`, `LoopTypes`, `OneLoop`, `StopIsQuiet` | `SupervisorLoop`: `[]LoopInv`, `[]TypeOK`, `[]SingleLoop`, `[]StopQuiesces` |
| `TreasuryInductive`, `TreasuryTypes` | `TreasuryFunder`: `[]TreasuryInv`, `[]TypeOK` |
| `NothingBlocked`, `NoDoubleFunding`, `SentIsMinedOrWaits` | `[]NoTransferBlocked`, `[]OneTopUpInFlight`, `SentStaysSent` |
| `FloorInductive`, `FloorHolds` | `[]FloorInv`, `[]FloorAllButShared` |

**Account.** None of its safety properties is inductive. That a job executes
once depends on every version it signs carrying one nonce; versions are signed
from the stored row by a lane turn, from a snapshot or a cached record by the
tick, and from a restored record by the boot. So `IInv` relates each place a
record may be held to the stored row: `RowInv` (the row is what its call has
written so far), `HeldInv` (cache and snapshot hold active rows as stored, of
finished calls), `WorkInv` (the record being written succeeds an active row of
the same nonce, and is the only one of its job in the pass), `OutboxInv` (a
restored record is carried by one rebroadcast), `ToldInv`, `ChainInv` (whatever
is out there carries its row's nonce; the chain mines a nonce once),
`DepthInv` (the head the pass keeps was once the newest block, so that whatever
is deep enough below it is buried) and `ConfirmedInv` (a confirmed row has its
own successful, buried transaction, unless it slipped). `ConfirmedTruly` needs
both: the comparison is made against a head of the past, on a chain that may be
shorter by then.
`PhaseInv` and `StepInv` say which of these places can be occupied together.
`AccountSafetyProofs` has one lemma per group of actions. The refinement maps an
account's row to its status: every step is a `TxLifecycle` step of one job or a
stutter, which again needs `IInv`.

**Lane.** `IInv` is about one record at a time; what an account promises of its
nonces is about several. A job `Occupies` a nonce as long as its row is active
or the cache holds its record. `LaneInv` says that the cursor is past every
occupied nonce, but that the turn under way was given a nonce past all others
and at most the cursor: the turn may set the cursor back when it ends, and the
prime or the tick may have moved it on meanwhile. That is why two turns never
give one nonce. `TurnInv` has the exclusion of turns, `TrackInv` that a drop by
nonce drops the job's own record, which is the danger of a map keyed by nonce.
The cap is not inductive in the size of the in-flight set, because a turn checks
it long before it adds to the set: `CapInv` counts that turn as well
(`Claimed`), and active rows instead of cached records, so that a crash and a
restart leave the count alone.

For the gap, `BelowInv` says that every nonce below the cursor, the saved
cursor, the nonce of a turn or that of an active row is `Accounted`: used,
gossiped, or that of an active row that the tick or a restart will send. The
rows are in it because a restart computes the cursor from them. A row leaves
the active ones only if its transaction is out there, which needs `SentInv`:
whatever was replaced, settled or answered with drift is. There a failed first
broadcast needs its second attempt.

`RevertedStaysDead` rests on `RevertInv`: a row, or a record being written, is
reverted only if the job has a failed transaction in the chain. Without reorgs
that one stays there, and by `IInv` no other version of the job can be mined,
since all of them carry its nonce.

**Fees and stores.** `EscalationInv` says, for each stage of a call or
transition, how the record at hand, the one read back from the store and the
cached one relate (`StageInv`), that all carry their pool's name and the flag of
how they came in (`RecordInv`), and which hash they have (`HeldInv`): that of the
version in the mempool, for the keys that were not cut. A row that is still
"pending" has `ZERO_HASH`, so a restart finds it without a version in the
mempool or the key is cut; that is what `RecordNamesHeld` needs of the boot. The
lemmas on `Stores` (`TransactionWritten` and its neighbours) state once what a
write or a crash does to what is read back, so that no step of the proof looks
at columns. `PriceIsRaised` is the lemma behind `BumpOutbids`; it also states the
other side: below 8 wei the integer division raises a price by nothing.

**Facade.** The count of a binding is the number of its holders (`RefsHeld`) only
if one knows which calls hold a reference, and these are the live jobs but for
the stranded ones (`ReferencesExact`): `CallInv` ties the program counter of a call
to its row and cache entry, and lemmas on `Cardinality` say what one holder more
or less does. One account per line needs more: the jobs that are routed but have
no row yet are on the line's pin too, and after a crash the rows alone determine
it (`PinInv`). `WaiterInv` adds where each waiter is listed and which jobs were
told, which `RefsInv` limits to settled rows.

**Supervisor.** `LoopInv`: any two loops are one, and what is armed is the
supervisor's timer. **Funder.** `TreasuryInv`: one turn at a time (`LaneInv`);
the wire has exactly one transfer for each nonce from the mined count to the
pending count (`WireInv`); the cursor is the pending count or, after a lost
reply, one behind it (`NonceInv`), but never at or below a transfer whose call
succeeded (`SentInv`); and a transfer whose recipient is not forgotten keeps it
marked and below target (`FundInv`), so that no call sends another. A restart
takes all marks and with them all recipients on the wire out of `FundInv`
(`RestartKeeps`), and leaves the lane undefined, which the first turn counts anew.
The floor is not inductive, since what was compared is stale when it is spent.
`FloorInv` follows those who are `Owed` a transfer: as long as there are any, the
comparison of one of them still holds if every recipient that is owed none may
have spent one full transfer since (`Room`). A commit makes its own comparison
the one that holds; a mined transfer moves its cost from the treasury to the
room; and when nobody is owed any more, the last one leaves a full transfer to
spare.

Every invariant and action property that a passing run checks is stated by a
theorem. Only model-checked is liveness:
`SubmitReturns`, `MinedEntrySettles`, `SettledIsTold`, `BootCompletes`,
`PassesGoOn`, `StopReturns`, `LowIsFunded`, `TimedWaitEnds`, `StuckEnds`
(fairness and `ENABLED` are beyond the installed provers).

## 5. Not modelled

- SQLite's WAL durability: with `synchronous=NORMAL` an OS crash may take back
  the last commits. The stores here keep what they have written; how much is
  lost is the file system's, and a send whose row is lost cannot be recovered
  by anything the engine does.
- Columns without a part in any decision: metadata as JSON, gas, calldata. Of
  the others `Stores` has owners, statuses, attempts, fees, hashes and flags.
  `submitted_at` decides when a record is stuck: here any record without a
  receipt may be, at any time. `mined_emitted` is in `ManagedAccount`, whose
  store is abstract; nonce and ordering key never change once written and are
  the key's here.
- Eviction of the treasury's transfers: `pending` is then never cleared, and
  later transfers wait for the nonce, until the process restarts and counts
  again.
- Group mode (several pods on one cache): the cache here is one process's.
- A second submit under a used key, which overwrites the earlier row: the
  README makes deduplication the caller's part.
- What listeners do: `on()` and `off()` register the caller's callbacks, which
  here return or throw. `wallets()` and `stats()` only read.
- Texts of RPC errors: `EvmNode` replies in the classes that
  `classifyRpcError` tells apart. "nonce too high" is not given, since the node
  modelled queues such transactions; a node that gives it would move the cursor
  further up.
- Prices below 8 wei in runs that rely on a bump (`PriceIsRaised` states what
  happens there).
- The unreachable `catch` block of the supervisor's tick (section 2).
- `NonceLane.reseed()`, which nothing calls.
- Signing, zod schemas, configuration, registry, account builder, and the
  programs under `examples/`: stateless, construction only, or callers.

## 6. Plan

1. (done) `EvmNode`, `ManagedAccount`, `TxLifecycle`, `AccountInvariant`, their
   runs and theorems; `SupervisorLoop`, `TreasuryFunder`, `StickyRouting`.
2. (done) `EventBus` and `PoolFacade`; `FeeOracles`, `Stores`, `FeeEscalation`;
   the stale snapshot in `StickyRouting`.
3. (done) Proofs of the facade, the escalation, the supervisor and the funder.
4. (done) Proofs about the lane, the cap, the gap and the reverted transaction;
   of the treasury's floor.
5. (done) Block numbers, with receipt and head read apart; the hash of a record
   beside its fees; restarts of the funder; stranded jobs in the facade's counts.
6. What of the lane's invariants is left when a store write fails after a send:
   which of them hold until the next turn, and which after a restart.
7. Restore in group mode; a store that loses its last commits, with what can
   still be said of it.
