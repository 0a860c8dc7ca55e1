----------------------------- MODULE PoolFacade -----------------------------
(***************************************************************************)
(* What the caller of the pool has: submit() and reattach() with their     *)
(* routing (StickyRouting), and waitForConfirmation() on the event bus     *)
(* (EventBus) that both the pool and the supervisor emit into              *)
(* (src/src/pool.ts, src/src/substrate.ts).  A waiter may be registered    *)
(* before its job is submitted, while it is under way, or too late.        *)
(***************************************************************************)
EXTENDS StickyRouting

CONSTANTS
    Waiters,  \* bound: calls of waitForConfirmation()
    Outcomes  \* the terminal events that may come

VARIABLES
    waiters, armed, promise, \* of the event bus
    \* History, for the properties.
    key,    \* the job each waiter waits for
    timed,  \* waiters registered with a timeout
    late,   \* waiters registered after their job's terminal event
    told    \* the terminal event of each job, once emitted

Bus == INSTANCE EventBus

ASSUME OutcomesAssumption == Outcomes \subseteq Bus!Terminal
ASSUME SomeJobAssumption == Jobs # {}

busVars == <<waiters, armed, promise>>
waitVars == <<key, timed, late>>
facadeVars == <<vars, busVars, waitVars, told>>

FacadeTypeOK ==
    /\ TypeOK
    /\ Bus!TypeOK
    /\ key \in [Waiters -> Jobs]
    /\ timed \in SUBSET Waiters /\ late \in SUBSET Waiters
    /\ told \in [Jobs -> Bus!Terminal \cup {"none"}]

FacadeInit ==
    /\ Init /\ Bus!Init
    /\ key \in [Waiters -> {CHOOSE j \in Jobs : TRUE}]
    /\ timed = {} /\ late = {}
    /\ told = [j \in Jobs |-> "none"]

\* waitForConfirmation() of the facade.
Wait(w, j) ==
    /\ up
    /\ \E t \in BOOLEAN :
          /\ Bus!WaitForConfirmation(w, j, t)
          /\ timed' = IF t THEN timed \cup {w} ELSE timed
    /\ key' = [key EXCEPT ![w] = j]
    /\ late' = IF told[j] = "none" THEN late ELSE late \cup {w}
    /\ UNCHANGED <<vars, told>>

TimesOut(w) == Bus!TimerFires(w) /\ UNCHANGED <<vars, waitVars, told>>

\* submit() resolves: the pool emits the event itself.
Broadcasts(j) ==
    /\ SubmitResolves(j)
    /\ \E throws \in BOOLEAN : Bus!Handle(j, "broadcast", throws)
    /\ UNCHANGED <<waitVars, told>>

\* The tick settles the job and the account emits its terminal event.
Settles(j) ==
    /\ Settle(j)
    /\ \E status \in Outcomes, throws \in BOOLEAN :
          /\ Bus!Handle(j, status, throws)
          /\ told' = [told EXCEPT ![j] = status]
    /\ UNCHANGED waitVars

Dies == Crash /\ Bus!Lose /\ UNCHANGED <<waitVars, told>>

\* Steps that emit nothing a waiter hears: a submit that rejects is one.
Unheard ==
    /\ \/ \E j \in Jobs :
             \/ Picks(j) \/ Route(j) \/ WritesAhead(j) \/ SubmitRejects(j) \/ SubmitStrands(j)
             \/ ReattachRecords(j) \/ ReattachBinds(j)
       \/ \E a \in Accounts : Gauge(a)
       \/ Restore
    /\ UNCHANGED <<busVars, waitVars, told>>

FacadeNext ==
    \/ \E j \in Jobs : Broadcasts(j) \/ Settles(j)
    \/ \E w \in Waiters : TimesOut(w) \/ \E j \in Jobs : Wait(w, j)
    \/ Dies \/ Unheard

FacadeSpec == FacadeInit /\ [][FacadeNext]_facadeVars

\* A timer that is set fires.
FairFacade == FacadeSpec /\ \A w \in Waiters : WF_facadeVars(TimesOut(w))

----------------------------------------------------------------------------
Pending == {w \in Waiters : promise[w] = "pending"}

(* events/interface.ts: a waiter resolves "on `confirmed`" and rejects "on *)
(* `reverted`/`failed`": what a waiter was told is what its own job came   *)
(* to, whatever else settles, times out or restarts around it.             *)
ToldTruly ==
    \A w \in Waiters :
        /\ promise[w] = "resolved" => told[key[w]] = "confirmed"
        /\ promise[w] = "rejected" => told[key[w]] \in {"reverted", "failed"}

(* Nobody who asked in time is left behind and nothing is left over: a     *)
(* waiter that is still pending after its job's event registered too late, *)
(* exactly the pending waiters are listed, under their keys, and exactly   *)
(* those of them with a timeout have a timer.                              *)
WaitersAccounted ==
    /\ \A w \in Pending : told[key[w]] # "none" => w \in late
    /\ \A j \in Jobs : waiters[j] = {w \in Pending : key[w] = j}
    /\ armed = Pending \cap timed

(* README.md: "pass `timeoutMs` so a key that never settles can't wait (or *)
(* leak) forever": also when the event came before the waiter, or the      *)
(* submit that would have led to it was rejected.                          *)
TimedWaitEnds == \A w \in Waiters : w \in armed ~> promise[w] # "pending"
=============================================================================
