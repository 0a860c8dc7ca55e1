------------------------------ MODULE EventBus ------------------------------
(***************************************************************************)
(* The promises of waitForConfirmation()                                   *)
(* (src/src/events/in-memory.event-bus.ts).  handle() and the timer's      *)
(* callback are synchronous, so each is one action.  Listeners only show   *)
(* as exceptions that they may throw into handle(); what they do is the    *)
(* caller's.  The module has no next-state relation of its own: PoolFacade *)
(* says who calls what.                                                    *)
(***************************************************************************)
CONSTANTS
    Jobs,    \* idempotency keys
    Waiters  \* bound: calls of waitForConfirmation()

VARIABLES
    waiters, \* InMemoryEventBus.waiters: those listed under each key
    armed,   \* waiters whose timer is set
    promise  \* what each call's promise came to

busVars == <<waiters, armed, promise>>

Terminal == {"confirmed", "reverted", "failed"}

TypeOK ==
    /\ waiters \in [Jobs -> SUBSET Waiters]
    /\ armed \in SUBSET Waiters
    /\ promise \in [Waiters -> {"unused", "pending", "resolved", "rejected", "timedOut", "lost"}]

Init ==
    /\ waiters = [j \in Jobs |-> {}]
    /\ armed = {}
    /\ promise = [w \in Waiters |-> "unused"]

\* waitForConfirmation(), with or without opts.timeoutMs.
WaitForConfirmation(w, j, timed) ==
    /\ promise[w] = "unused"
    /\ waiters' = [waiters EXCEPT ![j] = @ \cup {w}]
    /\ armed' = IF timed THEN armed \cup {w} ELSE armed
    /\ promise' = [promise EXCEPT ![w] = "pending"]

\* Bug: the waiter that timed out stays listed.
StillListed(w, j) == waiters[j]
Unlisted(w, j) == waiters[j] \ {w}

\* The timer's callback; a waiter that is no longer listed was settled.
TimerFires(w) ==
    /\ w \in armed
    /\ armed' = armed \ {w}
    /\ waiters' = [j \in Jobs |-> Unlisted(w, j)]
    /\ promise' = IF \E j \in Jobs : w \in waiters[j]
                  THEN [promise EXCEPT ![w] = "timedOut"] ELSE promise

\* Bug: the exception of a listener leaves handle().
EscapesAnyway(throws) == throws
\* Each listener is called in a try block of its own.
Escapes(throws) == FALSE

\* Bug: every timer is cancelled when one key settles.
EveryTimer(j) == armed
Cancelled(j) == armed \cap waiters[j]

\* Bug: whatever is terminal resolves.
AlwaysResolved(status) == "resolved"
Verdict(status) == IF status = "confirmed" THEN "resolved" ELSE "rejected"

\* handle(): listeners first, then, on a terminal event, the waiters.
Handle(j, status, throws) ==
    IF Escapes(throws) \/ status \notin Terminal
    THEN UNCHANGED busVars
    ELSE /\ waiters' = [waiters EXCEPT ![j] = {}]
         /\ armed' = armed \ Cancelled(j)
         /\ promise' = [w \in Waiters |->
                           IF w \in waiters[j] THEN Verdict(status) ELSE promise[w]]

\* The process dies, and its promises with it.
Lose ==
    /\ waiters' = [j \in Jobs |-> {}]
    /\ armed' = {}
    /\ promise' = [w \in Waiters |-> IF promise[w] = "pending" THEN "lost" ELSE promise[w]]
=============================================================================
