--------------------------- MODULE SupervisorLoop ---------------------------
(***************************************************************************)
(* The reconciler's control loop (src/src/supervisor.ts): start(), stop(), *)
(* the self-scheduling timer and the two halves of a pass.  What a pass    *)
(* does to one account is modelled elsewhere (ManagedAccount: confirmTick, *)
(* refreshState, primeNonce; TreasuryFunder: maybeTopUp); here a part of a *)
(* pass is only outstanding or settled.                                    *)
(*                                                                         *)
(* A loop is a timer and the tick it starts, which arms the next timer     *)
(* when it ends: one entry of `loop` stands for both.  ManagedAccount      *)
(* relies on there being one: its tick never runs beside itself.           *)
(***************************************************************************)
EXTENDS Naturals, FiniteSets

CONSTANTS
    Accounts,  \* the substrate's account set
    MaxLoops,  \* bound: loops that may exist at once
    AwaitStop  \* does the caller await stop() before it calls start() again?

ASSUME MaxLoopsAssumption == MaxLoops \in Nat \ {0}
ASSUME AwaitStopAssumption == AwaitStop \in BOOLEAN

VARIABLES
    running,   \* this.running
    timer,     \* the loop whose timer this.timer last held; 0 for null
    current,   \* the loop whose tick this.current is; 0 once it has settled
    loop,      \* what each loop is at
    busy,      \* accounts whose part of the running half is outstanding
    threw,     \* some part of the pass rejected
    priming,   \* accounts whose primeNonce() has not settled
    stopping   \* loops whose tick a pending stop() awaits

vars == <<running, timer, current, loop, busy, threw, priming, stopping>>

Loops == 1 .. MaxLoops
InTick == {"confirm", "refresh"}

\* An account's part is outstanding only in a tick.
TypeOK ==
    /\ running \in BOOLEAN
    /\ timer \in {0} \cup Loops
    /\ current \in {0} \cup Loops
    /\ loop \in [Loops -> {"none", "armed"} \cup InTick]
    /\ busy \in [Loops -> SUBSET Accounts]
    /\ \A l \in Loops : busy[l] # {} => loop[l] \in InTick
    /\ threw \in [Loops -> BOOLEAN]
    /\ priming \in SUBSET Accounts
    /\ stopping \in SUBSET Loops

Init ==
    /\ running = FALSE /\ timer = 0 /\ current = 0
    /\ loop = [l \in Loops |-> "none"]
    /\ busy = [l \in Loops |-> {}]
    /\ threw = [l \in Loops |-> FALSE]
    /\ priming = {} /\ stopping = {}

\* Bug: start() while running starts another loop.
StartAgain ==
    /\ AwaitStop => stopping = {}
    /\ running' = TRUE
    /\ priming' = Accounts
    /\ \E l \in Loops :
          /\ loop[l] = "none"
          /\ loop' = [loop EXCEPT ![l] = "armed"]
          /\ timer' = l
    /\ UNCHANGED <<current, busy, threw, stopping>>

\* start(): a second call while running returns at once.
Start ==
    /\ AwaitStop => stopping = {}
    /\ ~running
    /\ running' = TRUE
    /\ priming' = Accounts
    /\ \E l \in Loops :
          /\ loop[l] = "none"
          /\ loop' = [loop EXCEPT ![l] = "armed"]
          /\ timer' = l
    /\ UNCHANGED <<current, busy, threw, stopping>>

\* prime() is not awaited by anybody.
Primed(a) ==
    /\ a \in priming
    /\ priming' = priming \ {a}
    /\ UNCHANGED <<running, timer, current, loop, busy, threw, stopping>>

\* Bug: the tick that runs is given up as well as the timer.
DisarmAny == [l \in Loops |-> IF l = timer THEN "none" ELSE loop[l]]
\* clearTimeout(this.timer): nothing happens to a timer that has fired.
Disarmed == [l \in Loops |-> IF l = timer /\ loop[l] = "armed" THEN "none" ELSE loop[l]]

\* stop() up to its await, which ends when the tick of this.current does.
Stop ==
    /\ running' = FALSE
    /\ loop' = Disarmed
    /\ timer' = 0
    /\ stopping' = stopping \cup ({current} \ {0})
    /\ UNCHANGED <<current, busy, threw, priming>>

\* The timer fires.  tick() returns at once when the supervisor has stopped.
Fire(l) ==
    /\ loop[l] = "armed"
    /\ IF running
       THEN /\ loop' = [loop EXCEPT ![l] = "confirm"]
            /\ busy' = [busy EXCEPT ![l] = Accounts]
            /\ current' = l
       ELSE /\ loop' = [loop EXCEPT ![l] = "none"]
            /\ current' = 0
            /\ UNCHANGED busy
    /\ threw' = [threw EXCEPT ![l] = FALSE]
    /\ UNCHANGED <<running, timer, priming, stopping>>

\* One account's confirmTick(), or its balance refresh, settles.
PartSettles(l, a) ==
    /\ loop[l] \in InTick /\ a \in busy[l]
    /\ busy' = [busy EXCEPT ![l] = @ \ {a}]
    /\ \E rejects \in BOOLEAN : threw' = [threw EXCEPT ![l] = @ \/ rejects]
    /\ UNCHANGED <<running, timer, current, loop, priming, stopping>>

\* Bug: a stopped supervisor leaves its pass half done.
RefreshOnlyRunning(l) ==
    /\ loop[l] = "confirm" /\ busy[l] = {} /\ running
    /\ loop' = [loop EXCEPT ![l] = "refresh"]
    /\ busy' = [busy EXCEPT ![l] = Accounts]
    /\ UNCHANGED <<running, timer, current, threw, priming, stopping>>

\* refreshBalances() follows once every confirmTick() has settled.
RefreshBalances(l) ==
    /\ loop[l] = "confirm" /\ busy[l] = {}
    /\ loop' = [loop EXCEPT ![l] = "refresh"]
    /\ busy' = [busy EXCEPT ![l] = Accounts]
    /\ UNCHANGED <<running, timer, current, threw, priming, stopping>>

\* Bug: the tick re-arms without looking at `running`.
AlwaysArmed(l) == "armed"
\* Bug: an error ends the loop.
ArmedUnlessThrown(l) == IF running /\ ~threw[l] THEN "armed" ELSE "none"
\* scheduleTick() at the end of a tick.
AfterTick(l) == IF running THEN "armed" ELSE "none"

\* Both halves are Promise.allSettled over async functions, which never
\* rejects: the try block runs to its end, and the catch with its longer
\* delay is not reached whatever a part did.
TickEnds(l) ==
    /\ loop[l] = "refresh" /\ busy[l] = {}
    /\ loop' = [loop EXCEPT ![l] = AfterTick(l)]
    /\ timer' = IF AfterTick(l) = "armed" THEN l ELSE timer
    /\ current' = IF current = l THEN 0 ELSE current
    /\ stopping' = stopping \ {l}
    /\ UNCHANGED <<running, busy, threw, priming>>

LoopStep(l) ==
    \/ Fire(l) \/ RefreshBalances(l) \/ TickEnds(l)
    \/ \E a \in Accounts : PartSettles(l, a)

Next ==
    \/ Start \/ Stop
    \/ \E a \in Accounts : Primed(a)
    \/ \E l \in Loops : LoopStep(l)

Spec == Init /\ [][Next]_vars

\* Timers fire, and every call of a pass settles (RPC calls time out).
FairSpec == Spec /\ \A l \in Loops : WF_vars(LoopStep(l))

----------------------------------------------------------------------------
(* supervisor.ts: "A SINGLE self-scheduling loop (one timer total)".  Two  *)
(* loops would run one account's confirmTick() beside itself.              *)
SingleLoop == Cardinality({l \in Loops : loop[l] # "none"}) <= 1

(* When stop() has resolved nothing of the loop is left, so the caller may *)
(* close the store under it.                                               *)
StopQuiesces ==
    ~running /\ stopping = {} => \A l \in Loops : loop[l] = "none"

(* Whatever a pass runs into, the next one comes unless stop() is called.  *)
PassesGoOn == running ~> ~running \/ \E l \in Loops : loop[l] = "confirm"

(* stop() waits for the tick in flight and not for ever.                   *)
StopReturns == \A l \in Loops : l \in stopping ~> l \notin stopping
=============================================================================
