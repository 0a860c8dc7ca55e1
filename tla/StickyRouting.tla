--------------------------- MODULE StickyRouting ---------------------------
(***************************************************************************)
(* The facade: pool.submit(), reattach() and restore() around the sticky   *)
(* bindings of ordering keys (src/src/pool.ts, src/src/routing/,           *)
(* bindOrdering and releaseOrdering of src/src/cache/in-memory.cache.ts,   *)
(* and the release in src/src/events/in-memory.event-bus.ts).              *)
(*                                                                         *)
(* An account's part of a call is reduced to what the facade sees of it:   *)
(* whether a row was written, and how the call came back.  ManagedAccount  *)
(* models that part.  Every request here has an ordering key; one without  *)
(* takes no part in the bindings.                                          *)
(***************************************************************************)
EXTENDS Naturals, FiniteSets

CONSTANTS
    Jobs,       \* idempotency keys
    Reattached, \* those of them taken over with reattach()
    Lines,      \* ordering keys
    LineOf,     \* the ordering key of each job
    Accounts,   \* the pool's accounts
    NoAccount,  \* stands for "no binding"
    Budget      \* bound: crashes, and failing store writes after a send

ASSUME JobsAssumption == Reattached \subseteq Jobs /\ LineOf \in [Jobs -> Lines]
ASSUME FiniteAssumption == IsFiniteSet(Jobs)
ASSUME AccountsAssumption == NoAccount \notin Accounts
ASSUME BudgetAssumption == Budget \in [{"crash", "store"} -> Nat]

VARIABLES
    pin,      \* the account a line is bound to
    refs,     \* the references the binding holds
    pc,       \* where the call that carries each job stands
    at,       \* the account it was routed to
    row,      \* the job's stored row
    inflight, \* jobs in the cache's in-flight sets
    healthy,  \* accounts whose last gauge was healthy
    up,       \* the process runs
    faults    \* faults still allowed

bindings == <<pin, refs>>
vars == <<bindings, pc, at, row, inflight, healthy, up, faults>>

Starting == {"idle", "picked", "routed"}
Done == {"resolved", "rejected", "lost"}

\* A binding is there exactly while it is referenced.
TypeOK ==
    /\ pin \in [Lines -> Accounts \cup {NoAccount}]
    /\ refs \in [Lines -> Nat]
    /\ \A l \in Lines : pin[l] = NoAccount <=> refs[l] = 0
    /\ pc \in [Jobs -> Starting \cup {"ahead", "recorded"} \cup Done]
    /\ at \in [Jobs -> Accounts \cup {NoAccount}]
    /\ row \in [Jobs -> {"absent", "active", "terminal"}]
    /\ inflight \in SUBSET Jobs
    /\ healthy \in SUBSET Accounts
    /\ up \in BOOLEAN
    /\ faults \in [{"crash", "store"} -> Nat]

Init ==
    /\ pin = [l \in Lines |-> NoAccount] /\ refs = [l \in Lines |-> 0]
    /\ pc = [j \in Jobs |-> "idle"] /\ at = [j \in Jobs |-> NoAccount]
    /\ row = [j \in Jobs |-> "absent"] /\ inflight = {}
    /\ healthy = Accounts /\ up = TRUE /\ faults = Budget

Spend(kind) ==
    /\ faults[kind] > 0
    /\ faults' = [faults EXCEPT ![kind] = @ - 1]

----------------------------------------------------------------------------
(* The cache's bindings.                                                   *)

\* Bug: a bound line follows the account the selector prefers now.
PreferredAccount(l, prefer) == prefer
BoundAccount(l, prefer) == IF pin[l] = NoAccount THEN prefer ELSE pin[l]

BindOrdering(l, prefer) ==
    /\ pin' = [pin EXCEPT ![l] = BoundAccount(l, prefer)]
    /\ refs' = [refs EXCEPT ![l] = @ + 1]

\* Bug: the binding outlives its last reference.
ReleaseKeepsPin(l) ==
    /\ refs' = [refs EXCEPT ![l] = IF @ = 0 THEN 0 ELSE @ - 1]
    /\ UNCHANGED pin

ReleaseOrdering(l) ==
    IF refs[l] = 0
    THEN UNCHANGED bindings
    ELSE /\ refs' = [refs EXCEPT ![l] = @ - 1]
         /\ pin' = [pin EXCEPT ![l] = IF refs[l] = 1 THEN NoAccount ELSE @]

----------------------------------------------------------------------------
(* pool.submit().                                                          *)

InflightAt(a) == Cardinality({j \in inflight : at[j] = a})
Candidates == IF healthy = {} THEN Accounts ELSE healthy
LeastInflight == {a \in Candidates : \A b \in Candidates : InflightAt(a) <= InflightAt(b)}

\* The wallet states are a snapshot: when the line is bound, others may have
\* been routed, settled or found unhealthy.
Picks(j) ==
    /\ up /\ pc[j] = "idle" /\ j \notin Reattached
    /\ \E prefer \in LeastInflight : at' = [at EXCEPT ![j] = prefer]
    /\ pc' = [pc EXCEPT ![j] = "picked"]
    /\ UNCHANGED <<bindings, row, inflight, healthy, up, faults>>

Route(j) ==
    /\ pc[j] = "picked"
    /\ BindOrdering(LineOf[j], at[j])
    /\ at' = [at EXCEPT ![j] = BoundAccount(LineOf[j], @)]
    /\ pc' = [pc EXCEPT ![j] = "routed"]
    /\ UNCHANGED <<row, inflight, healthy, up, faults>>

\* account.submit() has written its row ahead.
WritesAhead(j) ==
    /\ pc[j] = "routed"
    /\ row' = [row EXCEPT ![j] = "active"]
    /\ pc' = [pc EXCEPT ![j] = "ahead"]
    /\ UNCHANGED <<bindings, at, inflight, healthy, up, faults>>

SubmitResolves(j) ==
    /\ pc[j] = "ahead"
    /\ inflight' = inflight \cup {j}
    /\ pc' = [pc EXCEPT ![j] = "resolved"]
    /\ UNCHANGED <<bindings, at, row, healthy, up, faults>>

\* account.submit() threw, before its row (cap, estimate) or after the row
\* turned "failed"; the catch block of pool.submit() gives the reference back.
SubmitRejects(j) ==
    /\ pc[j] \in {"routed", "ahead"}
    /\ ReleaseOrdering(LineOf[j])
    /\ row' = [row EXCEPT ![j] = IF @ = "active" THEN "terminal" ELSE @]
    /\ pc' = [pc EXCEPT ![j] = "rejected"]
    /\ UNCHANGED <<at, inflight, healthy, up, faults>>

\* The transaction was sent and the store write after it threw: the call
\* rejects as well, and the row stays active.
SubmitStrands(j) ==
    /\ pc[j] = "ahead"
    /\ Spend("store")
    /\ ReleaseOrdering(LineOf[j])
    /\ pc' = [pc EXCEPT ![j] = "rejected"]
    /\ UNCHANGED <<at, row, inflight, healthy, up>>

----------------------------------------------------------------------------
(* pool.reattach(): the account tracks the transaction, then the line is   *)
(* bound; an existing binding keeps its account.                           *)

ReattachRecords(j) ==
    /\ up /\ pc[j] = "idle" /\ j \in Reattached
    /\ \E a \in Accounts : at' = [at EXCEPT ![j] = a]
    /\ row' = [row EXCEPT ![j] = "active"]
    /\ pc' = [pc EXCEPT ![j] = "recorded"]
    /\ UNCHANGED <<bindings, inflight, healthy, up, faults>>

ReattachBinds(j) ==
    /\ pc[j] = "recorded"
    /\ inflight' = inflight \cup {j}
    /\ BindOrdering(LineOf[j], at[j])
    /\ pc' = [pc EXCEPT ![j] = "resolved"]
    /\ UNCHANGED <<at, row, healthy, up, faults>>

----------------------------------------------------------------------------
(* The rest of the system.                                                 *)

\* settle() and the bus: terminal row, dropped, reference released.
Settle(j) ==
    /\ j \in inflight
    /\ inflight' = inflight \ {j}
    /\ row' = [row EXCEPT ![j] = "terminal"]
    /\ ReleaseOrdering(LineOf[j])
    /\ UNCHANGED <<pc, at, healthy, up, faults>>

\* refreshBalances() finds the account above or below minBalanceWei.
Gauge(a) ==
    /\ up
    /\ healthy' = IF a \in healthy THEN healthy \ {a} ELSE healthy \cup {a}
    /\ UNCHANGED <<bindings, pc, at, row, inflight, up, faults>>

\* The tick may have written a terminal row whose event is still to come.
Crash ==
    /\ up
    /\ Spend("crash")
    /\ up' = FALSE
    /\ pin' = [l \in Lines |-> NoAccount] /\ refs' = [l \in Lines |-> 0]
    /\ inflight' = {}
    /\ pc' = [j \in Jobs |-> IF pc[j] \in {"idle"} \cup Done THEN pc[j] ELSE "lost"]
    /\ row' \in {row} \cup {[row EXCEPT ![j] = "terminal"] : j \in inflight}
    /\ UNCHANGED <<at, healthy>>

ActiveJobs(l) == {j \in Jobs : LineOf[j] = l /\ row[j] = "active"}

\* Bug: the lines are pinned and their jobs not counted.
OneRefEach(l) == IF ActiveJobs(l) = {} THEN 0 ELSE 1
RefsRestored(l) == Cardinality(ActiveJobs(l))

\* pool.restore(): every active row is tracked and binds its line, the first
\* row loaded choosing the account.
Restore ==
    /\ ~up
    /\ up' = TRUE
    /\ inflight' = {j \in Jobs : row[j] = "active"}
    /\ refs' = [l \in Lines |-> RefsRestored(l)]
    /\ pin' \in {p \in [Lines -> Accounts \cup {NoAccount}] :
                    \A l \in Lines :
                        IF ActiveJobs(l) = {} THEN p[l] = NoAccount
                        ELSE \E j \in ActiveJobs(l) : p[l] = at[j]}
    /\ UNCHANGED <<pc, at, row, healthy, faults>>

Next ==
    \/ \E j \in Jobs :
          \/ Picks(j) \/ Route(j) \/ WritesAhead(j) \/ SubmitResolves(j)
          \/ SubmitRejects(j) \/ SubmitStrands(j)
          \/ ReattachRecords(j) \/ ReattachBinds(j) \/ Settle(j)
    \/ \E a \in Accounts : Gauge(a)
    \/ Crash \/ Restore

Spec == Init /\ [][Next]_vars

----------------------------------------------------------------------------
\* A line's live jobs: being submitted, or with an active row.  A job that is
\* being taken over binds its line only after its row is written.
Live(l) ==
    {j \in Jobs : LineOf[j] = l /\ (pc[j] = "routed" \/ (row[j] = "active" /\ pc[j] # "recorded"))}

\* Jobs whose submit() rejected although they were sent, until a restart finds
\* their rows.
Stranded == {j \in Jobs : pc[j] = "rejected" /\ row[j] = "active" /\ j \notin inflight}

(* routing/index.ts: "bindings are ref-counted against active work": while *)
(* the process runs the count of a line is the number of its live jobs, by *)
(* the store's rows and not by what the cache tracks, whatever else fails  *)
(* and across restarts, but for stranded jobs: the catch block of submit() *)
(* gives their reference back although they are live, so a line may be     *)
(* released, and bound elsewhere, before its last job is settled.          *)
RefsExact == up => \A l \in Lines : refs[l] = Cardinality(Live(l) \ Stranded)

(* README.md: "All requests sharing an `orderingKey` go through the same   *)
(* account".  Two unsettled jobs of a line are on one account, as long as  *)
(* no store write failed after a send (the line is released although its   *)
(* job is live) and no job of the line was taken over with reattach().     *)
Submitted(l) == \A k \in Reattached : LineOf[k] # l
AllWritten == faults["store"] = Budget["store"]

LineOnOneAccount ==
    AllWritten =>
        \A l \in Lines : Submitted(l) => \A i, j \in ActiveJobs(l) : at[i] = at[j]
=============================================================================
