---------------------------- MODULE FacadeProofs ----------------------------
(***************************************************************************)
(* What TLAPS proves of PoolFacade, for any finite set of jobs, any number *)
(* of waiters, timeouts and crashes.                                       *)
(***************************************************************************)
EXTENDS PoolFacade, RoutingProofs

\* The module's waiters relate to its calls through `told` alone: a job's
\* event is emitted once, for a row that is then terminal.
WaiterInv ==
    /\ FacadeTypeOK
    /\ ToldTruly
    /\ WaitersAccounted
    /\ \A w \in Waiters : promise[w] = "unused" => w \notin timed
    /\ \A j \in Jobs : told[j] # "none" => row[j] = "terminal"

LEMMA FacadeSteps == FacadeNext => Next \/ UNCHANGED vars
BY DEF FacadeNext, Next, Broadcasts, Settles, TimesOut, Wait, Dies, Unheard

(* The facade adds the waiters to StickyRouting and takes nothing from it: *)
(* its calls and bindings behave as that module says.                      *)
THEOREM FacadeRoutes == FacadeSpec => Spec
<1>1. FacadeInit => Init
  BY DEF FacadeInit
<1>2. [FacadeNext]_facadeVars => [Next]_vars
  BY FacadeSteps DEF facadeVars
<1> QED BY <1>1, <1>2, PTL DEF FacadeSpec, Spec

(* So the facade counts for each line the jobs of it that are live and not *)
(* stranded, and while every write succeeds one account has them all.      *)
THEOREM FacadeReferences == FacadeSpec => []RefsExact
BY FacadeRoutes, ReferencesExact, PTL

THEOREM FacadeOneAccount == FacadeSpec => []LineOnOneAccount
BY FacadeRoutes, OneAccountPerLine, PTL

----------------------------------------------------------------------------
LEMMA NoneIsNoOutcome == "none" \notin Bus!Terminal /\ "broadcast" \notin Bus!Terminal
BY DEF Bus!Terminal

LEMMA WaiterInit == FacadeInit => WaiterInv
<1> SUFFICES ASSUME FacadeInit PROVE WaiterInv
  OBVIOUS
<1>1. TypeOK
  BY RoutingInit DEF FacadeInit, RefsInv
<1>2. Bus!TypeOK /\ \A w \in Waiters : promise[w] = "unused"
  BY DEF FacadeInit, Bus!Init, Bus!TypeOK
<1>3. key \in [Waiters -> Jobs]
  BY SomeJobAssumption DEF FacadeInit
<1>4. WaitersAccounted
  BY DEF FacadeInit, Bus!Init, WaitersAccounted, Pending
<1> QED BY <1>1, <1>2, <1>3, <1>4 DEF FacadeInit, WaiterInv, FacadeTypeOK, ToldTruly

LEMMA WaitKeeps ==
    ASSUME WaiterInv, TypeOK', NEW w \in Waiters, NEW j \in Jobs, Wait(w, j) PROVE WaiterInv'
<1>1. PICK t \in BOOLEAN :
          /\ Bus!WaitForConfirmation(w, j, t)
          /\ timed' = IF t THEN timed \cup {w} ELSE timed
  BY DEF Wait
<1>2. /\ promise[w] = "unused" /\ promise' = [promise EXCEPT ![w] = "pending"]
      /\ waiters' = [waiters EXCEPT ![j] = @ \cup {w}]
      /\ armed' = IF t THEN armed \cup {w} ELSE armed
      /\ key' = [key EXCEPT ![w] = j]
      /\ late' = IF told[j] = "none" THEN late ELSE late \cup {w}
      /\ UNCHANGED <<told, row>>
  BY <1>1 DEF Wait, Bus!WaitForConfirmation, vars
<1>3. FacadeTypeOK'
  BY <1>1, <1>2 DEF WaiterInv, FacadeTypeOK, Bus!TypeOK
<1>4. Pending' = Pending \cup {w} /\ w \notin Pending /\ w \notin timed
  BY <1>2 DEF Pending, WaiterInv, FacadeTypeOK, Bus!TypeOK
<1>5. \A v \in Waiters : v # w => key'[v] = key[v] /\ promise'[v] = promise[v]
  BY <1>2 DEF WaiterInv, FacadeTypeOK, Bus!TypeOK
<1>6. key'[w] = j /\ promise'[w] = "pending"
  BY <1>2 DEF WaiterInv, FacadeTypeOK, Bus!TypeOK
<1>7. WaitersAccounted'
  <2>1. \A v \in Pending' : told'[key'[v]] # "none" => v \in late'
    BY <1>2, <1>4, <1>5, <1>6 DEF WaiterInv, WaitersAccounted, Pending
  <2>2. \A i \in Jobs : waiters'[i] = {v \in Pending' : key'[v] = i}
    BY <1>2, <1>4, <1>5, <1>6 DEF WaiterInv, WaitersAccounted, Pending, FacadeTypeOK, Bus!TypeOK
  <2>3. armed' = Pending' \cap timed'
    BY <1>1, <1>2, <1>4 DEF WaiterInv, WaitersAccounted
  <2> QED BY <2>1, <2>2, <2>3 DEF WaitersAccounted
<1>8. ToldTruly'
  BY <1>2, <1>5, <1>6 DEF WaiterInv, ToldTruly
<1> QED BY <1>1, <1>2, <1>3, <1>5, <1>6, <1>7, <1>8 DEF WaiterInv

LEMMA TimeoutKeeps ==
    ASSUME WaiterInv, TypeOK', NEW w \in Waiters, TimesOut(w) PROVE WaiterInv'
<1>1. /\ w \in armed /\ armed' = armed \ {w}
      /\ waiters' = [j \in Jobs |-> waiters[j] \ {w}]
      /\ UNCHANGED <<key, timed, late, told, row>>
  BY DEF TimesOut, Bus!TimerFires, Bus!Unlisted, vars, waitVars
<1>2. w \in Pending /\ \E j \in Jobs : w \in waiters[j]
  BY <1>1 DEF WaiterInv, WaitersAccounted, FacadeTypeOK, Pending
<1>3. promise' = [promise EXCEPT ![w] = "timedOut"]
  BY <1>2 DEF TimesOut, Bus!TimerFires
<1>4. FacadeTypeOK'
  BY <1>1, <1>3 DEF WaiterInv, FacadeTypeOK, Bus!TypeOK
<1>5. Pending' = Pending \ {w}
  BY <1>3 DEF Pending, WaiterInv, FacadeTypeOK, Bus!TypeOK
<1>6. WaitersAccounted'
  BY <1>1, <1>5 DEF WaiterInv, WaitersAccounted
<1>7. ToldTruly'
  BY <1>1, <1>3 DEF WaiterInv, ToldTruly, FacadeTypeOK, Bus!TypeOK
<1> QED BY <1>1, <1>3, <1>4, <1>6, <1>7 DEF WaiterInv, FacadeTypeOK, Bus!TypeOK

LEMMA SettlesKeeps ==
    ASSUME WaiterInv, RefsInv, TypeOK', NEW j \in Jobs, Settles(j) PROVE WaiterInv'
<1>1. PICK status \in Outcomes : /\ \E throws \in BOOLEAN : Bus!Handle(j, status, throws)
                                 /\ told' = [told EXCEPT ![j] = status]
  BY DEF Settles
<1>2. status \in Bus!Terminal
  BY OutcomesAssumption
<1>3. /\ waiters' = [waiters EXCEPT ![j] = {}]
      /\ armed' = armed \ (armed \cap waiters[j])
      /\ promise' = [w \in Waiters |-> IF w \in waiters[j] THEN Bus!Verdict(status) ELSE promise[w]]
  BY <1>1, <1>2 DEF Bus!Handle, Bus!Escapes, Bus!Cancelled
<1>4. UNCHANGED <<key, timed, late>> /\ row' = [row EXCEPT ![j] = "terminal"] /\ told[j] = "none"
  BY DEF Settles, Settle, waitVars, RefsInv, CallInv, WaiterInv, FacadeTypeOK
<1>5. Bus!Verdict(status) = IF status = "confirmed" THEN "resolved" ELSE "rejected"
  BY DEF Bus!Verdict
<1>6. FacadeTypeOK'
  BY <1>1, <1>2, <1>3, <1>4, <1>5 DEF WaiterInv, FacadeTypeOK, Bus!TypeOK
<1>7. Pending' = Pending \ waiters[j]
  BY <1>3, <1>5 DEF Pending
<1>8. \A w \in Waiters : w \in waiters[j] => key[w] = j
  BY DEF WaiterInv, WaitersAccounted
<1>9. WaitersAccounted'
  <2>1. \A w \in Pending' : key'[w] # j /\ told'[key'[w]] = told[key[w]]
    BY <1>1, <1>4, <1>7 DEF WaiterInv, WaitersAccounted, FacadeTypeOK, Pending
  <2>2. \A w \in Pending' : told'[key'[w]] # "none" => w \in late'
    BY <1>4, <1>7, <2>1 DEF WaiterInv, WaitersAccounted
  <2>3. \A i \in Jobs : waiters'[i] = {w \in Pending' : key'[w] = i}
    BY <1>3, <1>4, <1>7, <2>1 DEF WaiterInv, WaitersAccounted, FacadeTypeOK, Bus!TypeOK
  <2>4. armed' = Pending' \cap timed'
    BY <1>3, <1>4, <1>7 DEF WaiterInv, WaitersAccounted
  <2> QED BY <2>2, <2>3, <2>4 DEF WaitersAccounted
<1>10. ToldTruly'
  <2> SUFFICES ASSUME NEW w \in Waiters
               PROVE  /\ promise'[w] = "resolved" => told'[key'[w]] = "confirmed"
                      /\ promise'[w] = "rejected" => told'[key'[w]] \in {"reverted", "failed"}
    BY DEF ToldTruly
  <2>1. CASE w \in waiters[j]
    BY <1>1, <1>2, <1>3, <1>4, <1>5, <1>8, <2>1 DEF Bus!Terminal, WaiterInv, FacadeTypeOK
  <2>2. CASE w \notin waiters[j]
    BY <1>1, <1>3, <1>4, <2>2 DEF WaiterInv, ToldTruly, FacadeTypeOK
  <2> QED BY <2>1, <2>2
<1>11. \A w \in Waiters : promise'[w] = "unused" => promise[w] = "unused"
  BY <1>3, <1>5
<1>12. \A i \in Jobs : told'[i] # "none" => row'[i] = "terminal"
  BY <1>1, <1>4 DEF WaiterInv, FacadeTypeOK, TypeOK
<1> QED BY <1>4, <1>6, <1>9, <1>10, <1>11, <1>12 DEF WaiterInv

LEMMA DiesKeeps == ASSUME WaiterInv, RefsInv, TypeOK', Dies PROVE WaiterInv'
<1>1. /\ UNCHANGED <<key, timed, late, told>> /\ waiters' = [j \in Jobs |-> {}] /\ armed' = {}
      /\ promise' = [w \in Waiters |-> IF promise[w] = "pending" THEN "lost" ELSE promise[w]]
  BY DEF Dies, Bus!Lose, waitVars
<1>2. FacadeTypeOK'
  BY <1>1 DEF WaiterInv, FacadeTypeOK, Bus!TypeOK
<1>3. Pending' = {}
  BY <1>1 DEF Pending
<1>4. WaitersAccounted' /\ ToldTruly'
  BY <1>1, <1>3 DEF WaiterInv, WaitersAccounted, ToldTruly
<1>5. \A j \in Jobs : row[j] = "terminal" => row'[j] = "terminal"
  BY CrashRows DEF Dies, RefsInv, CallInv
<1> QED BY <1>1, <1>2, <1>4, <1>5 DEF WaiterInv

LEMMA SilentKeeps ==
    ASSUME WaiterInv, RefsInv, TypeOK',
           \/ \E j \in Jobs : Broadcasts(j)
           \/ Unheard
           \/ UNCHANGED facadeVars
    PROVE  WaiterInv'
<1>1. UNCHANGED <<waiters, armed, promise, key, timed, late, told>>
  BY NoneIsNoOutcome DEF Broadcasts, Unheard, facadeVars, busVars, waitVars, Bus!Handle, Bus!busVars
<1>2. \A j \in Jobs : row[j] = "terminal" => row'[j] = "terminal"
  BY DEF Broadcasts, Unheard, facadeVars, vars, SubmitResolves, Picks, Route, WritesAhead,
         SubmitRejects, SubmitStrands, ReattachRecords, ReattachBinds, Gauge, Restore,
         RefsInv, TypeOK, CallInv, Done
<1>3. FacadeTypeOK'
  BY <1>1 DEF WaiterInv, FacadeTypeOK, Bus!TypeOK
<1>4. WaitersAccounted' /\ ToldTruly'
  BY <1>1 DEF WaiterInv, WaitersAccounted, ToldTruly, Pending
<1> QED BY <1>1, <1>2, <1>3, <1>4 DEF WaiterInv

LEMMA WaiterKeeps == ASSUME RefsInv, WaiterInv, [FacadeNext]_facadeVars PROVE WaiterInv'
<1>1. [Next]_vars
  BY FacadeSteps DEF facadeVars
<1>2. TypeOK'
  BY <1>1, RoutingKeeps DEF RefsInv
<1> QED BY <1>2, WaitKeeps, TimeoutKeeps, SettlesKeeps, DiesKeeps, SilentKeeps DEF FacadeNext

(* Nothing about the waiters depends on how many there are, on who throws, *)
(* or on when the process dies: a listed waiter, its timer and its promise *)
(* agree, and what was told is what happened.                              *)
THEOREM WaiterInductive == FacadeSpec => []WaiterInv
<1>1. (RefsInv /\ WaiterInv) /\ [FacadeNext]_facadeVars => (RefsInv /\ WaiterInv)'
  BY WaiterKeeps, RoutingKeeps, FacadeSteps DEF facadeVars
<1>2. FacadeInit => RefsInv /\ WaiterInv
  BY WaiterInit, RoutingInit DEF FacadeInit
<1> QED BY <1>1, <1>2, PTL DEF FacadeSpec

THEOREM FacadeTypes == FacadeSpec => []FacadeTypeOK
<1>1. WaiterInv => FacadeTypeOK
  BY DEF WaiterInv
<1> QED BY <1>1, WaiterInductive, PTL

(* events/interface.ts: waiters resolve on "confirmed" and reject on       *)
(* "reverted" and "failed", of their own key.                              *)
THEOREM WaitersToldTruly == FacadeSpec => []ToldTruly
<1>1. WaiterInv => ToldTruly
  BY DEF WaiterInv
<1> QED BY <1>1, WaiterInductive, PTL

(* Nobody who asked in time is left behind, and nothing is left over.      *)
THEOREM WaitersAreAccounted == FacadeSpec => []WaitersAccounted
<1>1. WaiterInv => WaitersAccounted
  BY DEF WaiterInv
<1> QED BY <1>1, WaiterInductive, PTL
=============================================================================
