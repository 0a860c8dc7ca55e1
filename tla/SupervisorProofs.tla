-------------------------- MODULE SupervisorProofs --------------------------
(***************************************************************************)
(* What TLAPS proves of SupervisorLoop, for any set of accounts and any    *)
(* number of loops, when the caller awaits stop() before it starts again.  *)
(***************************************************************************)
EXTENDS SupervisorLoop, FiniteSetTheorems, TLAPS

\* The loops that are there are one; its timer is this.timer, its tick is
\* this.current, and once stop() was called it is one that stop() awaits.
LoopInv ==
    /\ TypeOK
    /\ \A l, m \in Loops : loop[l] # "none" /\ loop[m] # "none" => l = m
    /\ \A l \in Loops : loop[l] = "armed" => running /\ timer = l
    /\ \A l \in Loops : loop[l] \in InTick => current = l
    /\ ~running => \A l \in Loops : loop[l] # "none" => l \in stopping

LEMMA LoopNumbers == Loops \subseteq Nat /\ 0 \notin Loops
BY MaxLoopsAssumption DEF Loops

LEMMA LoopInit == Init => LoopInv
BY DEF Init, LoopInv, TypeOK, InTick

LEMMA StartKeeps == ASSUME AwaitStop, LoopInv, Start PROVE LoopInv'
<1>1. ~running /\ stopping = {} /\ \A l \in Loops : loop[l] = "none"
  BY DEF LoopInv, Start
<1>2. PICK l \in Loops : loop' = [loop EXCEPT ![l] = "armed"] /\ timer' = l
  BY DEF Start
<1>3. TypeOK'
  BY <1>1, <1>2 DEF LoopInv, TypeOK, Start, InTick
<1>4. \A m \in Loops : loop'[m] = IF m = l THEN "armed" ELSE "none"
  BY <1>1, <1>2 DEF LoopInv, TypeOK
<1> QED BY <1>2, <1>3, <1>4 DEF LoopInv, Start, InTick

LEMMA StopKeeps == ASSUME LoopInv, Stop PROVE LoopInv'
<1>1. \A m \in Loops : loop'[m] = IF m = timer /\ loop[m] = "armed" THEN "none" ELSE loop[m]
  BY DEF Stop, Disarmed
<1>2. \A m \in Loops : loop'[m] # "armed"
  BY <1>1 DEF LoopInv
<1>3. \A m \in Loops : loop'[m] # "none" => loop'[m] = loop[m] /\ loop[m] \in InTick
  BY <1>1, <1>2 DEF LoopInv, TypeOK, InTick
<1>4. \A m \in Loops : loop'[m] # "none" => m \in stopping'
  BY <1>3, LoopNumbers DEF LoopInv, Stop
<1>5. TypeOK'
  <2>1. loop' \in [Loops -> {"none", "armed"} \cup InTick]
    BY DEF LoopInv, TypeOK, Stop, Disarmed
  <2>2. stopping' \in SUBSET Loops
    BY DEF LoopInv, TypeOK, Stop
  <2>3. \A m \in Loops : busy'[m] # {} => loop'[m] \in InTick
    BY <1>1 DEF LoopInv, TypeOK, Stop, InTick
  <2> QED BY <2>1, <2>2, <2>3 DEF LoopInv, TypeOK, Stop
<1> QED BY <1>2, <1>3, <1>4, <1>5 DEF LoopInv, Stop, InTick

LEMMA FireKeeps == ASSUME LoopInv, NEW l \in Loops, Fire(l) PROVE LoopInv'
<1>1. running /\ timer = l
  BY DEF LoopInv, Fire
<1>2. \A m \in Loops : loop'[m] = IF m = l THEN "confirm" ELSE loop[m]
  BY <1>1 DEF LoopInv, TypeOK, Fire
<1>3. \A m \in Loops : m # l => loop[m] = "none"
  BY DEF LoopInv, Fire
<1>4. TypeOK'
  BY <1>1, <1>2, <1>3 DEF LoopInv, TypeOK, Fire, InTick
<1> QED BY <1>1, <1>2, <1>3, <1>4 DEF LoopInv, Fire, InTick

LEMMA PartKeeps ==
    ASSUME LoopInv, NEW l \in Loops, NEW a \in Accounts, PartSettles(l, a)
    PROVE  LoopInv'
<1>1. busy' = [busy EXCEPT ![l] = @ \ {a}] /\ UNCHANGED <<running, timer, current, loop, stopping>>
  BY DEF PartSettles
<1>2. TypeOK'
  BY <1>1 DEF LoopInv, TypeOK, PartSettles
<1> QED BY <1>1, <1>2 DEF LoopInv

LEMMA RefreshKeeps == ASSUME LoopInv, NEW l \in Loops, RefreshBalances(l) PROVE LoopInv'
<1>1. \A m \in Loops : loop'[m] = IF m = l THEN "refresh" ELSE loop[m]
  BY DEF LoopInv, TypeOK, RefreshBalances
<1>2. TypeOK'
  BY <1>1 DEF LoopInv, TypeOK, RefreshBalances, InTick
<1> QED BY <1>1, <1>2 DEF LoopInv, RefreshBalances, InTick

LEMMA EndKeeps == ASSUME LoopInv, NEW l \in Loops, TickEnds(l) PROVE LoopInv'
<1>1. \A m \in Loops : m # l => loop[m] = "none"
  BY DEF LoopInv, TickEnds
<1>2. \A m \in Loops : loop'[m] = IF m = l /\ running THEN "armed" ELSE "none"
  BY <1>1 DEF LoopInv, TypeOK, TickEnds, AfterTick
<1>3. TypeOK'
  <2>1. loop' \in [Loops -> {"none", "armed"} \cup InTick]
    BY DEF LoopInv, TypeOK, TickEnds, AfterTick
  <2>2. \A m \in Loops : busy'[m] = {}
    BY <1>1 DEF LoopInv, TypeOK, TickEnds, InTick
  <2> QED BY <2>1, <2>2 DEF LoopInv, TypeOK, TickEnds
<1>4. running => timer' = l
  BY DEF TickEnds, AfterTick
<1> QED BY <1>2, <1>3, <1>4 DEF LoopInv, TickEnds, InTick

LEMMA LoopStepKeeps == ASSUME AwaitStop, LoopInv, [Next]_vars PROVE LoopInv'
<1>1. CASE Start BY <1>1, StartKeeps
<1>2. CASE Stop BY <1>2, StopKeeps
<1>3. ASSUME NEW a \in Accounts, Primed(a) PROVE LoopInv'
  BY <1>3 DEF LoopInv, TypeOK, Primed
<1>4. ASSUME NEW l \in Loops, LoopStep(l) PROVE LoopInv'
  BY <1>4, FireKeeps, PartKeeps, RefreshKeeps, EndKeeps DEF LoopStep
<1>5. CASE UNCHANGED vars
  BY <1>5 DEF LoopInv, TypeOK, vars
<1> QED BY <1>1, <1>2, <1>3, <1>4, <1>5 DEF Next

(* With a caller that awaits stop(), as supervisor.ts asks, the loop is as *)
(* LoopInv says in every reachable state.                                  *)
THEOREM LoopInductive == ASSUME AwaitStop PROVE Spec => []LoopInv
<1>1. LoopInv /\ [Next]_vars => LoopInv'
  BY LoopStepKeeps
<1> QED BY <1>1, LoopInit, PTL DEF Spec

(* Timer, loops and the two halves of a pass are well typed.               *)
THEOREM LoopTypes == ASSUME AwaitStop PROVE Spec => []TypeOK
<1>1. LoopInv => TypeOK
  BY DEF LoopInv
<1> QED BY <1>1, LoopInductive, PTL

(* supervisor.ts: "A SINGLE self-scheduling loop (one timer total)", for   *)
(* any number of restarts.                                                 *)
THEOREM OneLoop == ASSUME AwaitStop PROVE Spec => []SingleLoop
<1>1. LoopInv => SingleLoop
  <2> SUFFICES ASSUME LoopInv PROVE SingleLoop OBVIOUS
  <2> DEFINE There == {l \in Loops : loop[l] # "none"}
  <2>1. CASE There = {}
    BY <2>1, FS_EmptySet DEF SingleLoop
  <2>2. CASE There # {}
    <3>1. PICK l \in Loops : There = {l}
      BY <2>2 DEF LoopInv
    <3>2. Cardinality(There) = 1
      BY <3>1, FS_Singleton
    <3> QED BY <3>2 DEF SingleLoop
  <2> QED BY <2>1, <2>2
<1> QED BY <1>1, LoopInductive, PTL

(* When stop() has resolved nothing of the loop is left: the caller may    *)
(* close the store.                                                        *)
THEOREM StopIsQuiet == ASSUME AwaitStop PROVE Spec => []StopQuiesces
<1>1. LoopInv => StopQuiesces
  BY DEF LoopInv, StopQuiesces
<1> QED BY <1>1, LoopInductive, PTL
=============================================================================
