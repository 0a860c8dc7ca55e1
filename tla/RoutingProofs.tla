--------------------------- MODULE RoutingProofs ---------------------------
(***************************************************************************)
(* What TLAPS proves of StickyRouting, for any finite set of jobs, any     *)
(* lines and accounts, and any number of crashes and failing writes.       *)
(***************************************************************************)
EXTENDS StickyRouting, FiniteSetTheorems, TLAPS

\* How far the call that carries a job is, its row, its place in the
\* in-flight set and the account it is on, are told apart together.
CallInv ==
    \A j \in Jobs :
        /\ row[j] = "absent" => pc[j] \in Starting \cup {"rejected", "lost"}
        /\ row[j] = "active" => pc[j] \in {"ahead", "recorded"} \cup Done
        /\ row[j] = "terminal" => pc[j] \in Done
        /\ pc[j] \in {"ahead", "recorded"} => row[j] = "active"
        /\ j \in inflight => row[j] = "active" /\ pc[j] \in Done
        /\ pc[j] \in {"picked", "routed"} \/ row[j] = "active" => at[j] \in Accounts
        /\ ~up => pc[j] \in {"idle"} \cup Done /\ j \notin inflight
        /\ up /\ row[j] = "active" /\ pc[j] \in {"resolved", "lost"} => j \in inflight

\* The jobs of a line that hold a reference: being submitted, or tracked.
Holders(l) == {j \in Jobs : LineOf[j] = l /\ (pc[j] \in {"routed", "ahead"} \/ j \in inflight)}
RefsHeld == \A l \in Lines : refs[l] = Cardinality(Holders(l))

RefsInv == TypeOK /\ CallInv /\ RefsHeld

----------------------------------------------------------------------------
(* The holders of a line, and what one of them more or less does to their  *)
(* number.                                                                 *)

LEMMA HoldersFinite == \A l \in Lines : IsFiniteSet(Holders(l)) /\ Cardinality(Holders(l)) \in Nat
<1> SUFFICES ASSUME NEW l \in Lines
             PROVE  IsFiniteSet(Holders(l)) /\ Cardinality(Holders(l)) \in Nat
  OBVIOUS
<1>1. Holders(l) \in SUBSET Jobs
  BY DEF Holders
<1>2. IsFiniteSet(Holders(l))
  BY <1>1, FiniteAssumption, FS_Subset
<1> QED BY <1>2, FS_CardinalityType

LEMMA HolderMore ==
    ASSUME RefsHeld, NEW j \in Jobs, LineOf[j] \in Lines, j \notin Holders(LineOf[j]),
           refs' = [refs EXCEPT ![LineOf[j]] = @ + 1], refs \in [Lines -> Nat],
           \A l \in Lines : Holders(l)' = IF l = LineOf[j] THEN Holders(l) \cup {j} ELSE Holders(l)
    PROVE  RefsHeld'
<1> SUFFICES ASSUME NEW l \in Lines PROVE refs'[l] = Cardinality(Holders(l)')
  BY DEF RefsHeld
<1>1. CASE l = LineOf[j]
  <2>1. Cardinality(Holders(l) \cup {j}) = Cardinality(Holders(l)) + 1
    BY <1>1, HoldersFinite, FS_AddElement
  <2> QED BY <1>1, <2>1 DEF RefsHeld
<1>2. CASE l # LineOf[j]
  BY <1>2 DEF RefsHeld
<1> QED BY <1>1, <1>2

LEMMA HolderLess ==
    ASSUME RefsHeld, NEW j \in Jobs, LineOf[j] \in Lines, j \in Holders(LineOf[j]),
           ReleaseOrdering(LineOf[j]), refs \in [Lines -> Nat],
           \A l \in Lines : Holders(l)' = IF l = LineOf[j] THEN Holders(l) \ {j} ELSE Holders(l)
    PROVE  RefsHeld' /\ refs[LineOf[j]] > 0
<1>1. /\ refs[LineOf[j]] > 0
      /\ Cardinality(Holders(LineOf[j]) \ {j}) = refs[LineOf[j]] - 1
  <2>1. Cardinality(Holders(LineOf[j]) \ {j}) = Cardinality(Holders(LineOf[j])) - 1
    BY HoldersFinite, FS_RemoveElement
  <2>2. Cardinality(Holders(LineOf[j])) # 0
    BY HoldersFinite, FS_EmptySet
  <2> QED BY <2>1, <2>2, HoldersFinite DEF RefsHeld
<1>2. refs' = [refs EXCEPT ![LineOf[j]] = @ - 1]
  BY <1>1 DEF ReleaseOrdering
<1> QED BY <1>1, <1>2 DEF RefsHeld

----------------------------------------------------------------------------
(* Each step keeps the types, the calls' places, and the counts.           *)

LEMMA LineTypes == \A j \in Jobs : LineOf[j] \in Lines
BY JobsAssumption

LEMMA SpendTypes ==
    ASSUME faults \in [{"crash", "store"} -> Nat], NEW kind \in {"crash", "store"}, Spend(kind)
    PROVE  faults' \in [{"crash", "store"} -> Nat]
BY DEF Spend

\* Binding and releasing keep the bindings well formed.
BindingsOK ==
    /\ pin \in [Lines -> Accounts \cup {NoAccount}]
    /\ refs \in [Lines -> Nat]
    /\ \A l \in Lines : pin[l] = NoAccount <=> refs[l] = 0

LEMMA BindTypes ==
    ASSUME BindingsOK, NEW l \in Lines, NEW a \in Accounts, BindOrdering(l, a)
    PROVE  BindingsOK' /\ BoundAccount(l, a) \in Accounts
BY AccountsAssumption DEF BindingsOK, BindOrdering, BoundAccount

LEMMA ReleaseTypes ==
    ASSUME BindingsOK, NEW l \in Lines, ReleaseOrdering(l) PROVE BindingsOK'
<1>1. CASE refs[l] = 0
  BY <1>1 DEF BindingsOK, ReleaseOrdering, bindings
<1>2. CASE refs[l] # 0
  <2>1. refs' = [refs EXCEPT ![l] = @ - 1] /\ pin' = [pin EXCEPT ![l] = IF refs[l] = 1 THEN NoAccount ELSE @]
    BY <1>2 DEF ReleaseOrdering
  <2>2. refs[l] - 1 \in Nat /\ (refs[l] - 1 = 0 <=> refs[l] = 1)
    BY <1>2 DEF BindingsOK
  <2> QED BY <1>2, <2>1, <2>2 DEF BindingsOK
<1> QED BY <1>1, <1>2

LEMMA RoutingInit == Init => RefsInv
<1> SUFFICES ASSUME Init PROVE RefsInv
  OBVIOUS
<1>1. TypeOK
  BY BudgetAssumption DEF Init, TypeOK, Starting
<1>2. CallInv
  BY DEF Init, CallInv, Starting
<1>3. \A l \in Lines : Holders(l) = {}
  BY DEF Init, Holders
<1> QED BY <1>1, <1>2, <1>3, FS_EmptySet DEF RefsInv, RefsHeld, Init

LEMMA PicksKeeps == ASSUME RefsInv, NEW j \in Jobs, Picks(j) PROVE RefsInv'
<1>1. PICK a \in Accounts : at' = [at EXCEPT ![j] = a]
  BY DEF Picks, LeastInflight, Candidates, RefsInv, TypeOK
<1>2. /\ pc[j] = "idle" /\ pc' = [pc EXCEPT ![j] = "picked"] /\ up
      /\ UNCHANGED <<pin, refs, row, inflight, healthy, up, faults>>
  BY DEF Picks, bindings
<1>3. TypeOK'
  BY <1>1, <1>2 DEF RefsInv, TypeOK, Starting
<1>4. CallInv'
  BY <1>1, <1>2 DEF RefsInv, TypeOK, CallInv, Starting, Done
<1>5. \A l \in Lines : Holders(l)' = Holders(l)
  BY <1>2 DEF Holders, RefsInv, TypeOK
<1> QED BY <1>2, <1>3, <1>4, <1>5 DEF RefsInv, RefsHeld

LEMMA RouteKeeps == ASSUME RefsInv, NEW j \in Jobs, Route(j) PROVE RefsInv'
<1>1. at[j] \in Accounts /\ pc[j] = "picked" /\ LineOf[j] \in Lines
  BY LineTypes DEF Route, RefsInv, CallInv
<1>2. BindingsOK' /\ BoundAccount(LineOf[j], at[j]) \in Accounts
  BY <1>1, BindTypes DEF Route, RefsInv, TypeOK, BindingsOK
<1>3. /\ pc' = [pc EXCEPT ![j] = "routed"]
      /\ at' = [at EXCEPT ![j] = BoundAccount(LineOf[j], at[j])]
      /\ UNCHANGED <<row, inflight, healthy, up, faults>>
  BY DEF Route
<1>4. TypeOK'
  BY <1>2, <1>3 DEF RefsInv, TypeOK, BindingsOK, Starting
<1>5. CallInv'
  BY <1>1, <1>2, <1>3 DEF RefsInv, TypeOK, CallInv, Starting, Done
<1>6. j \notin Holders(LineOf[j])
  BY <1>1 DEF Holders, RefsInv, CallInv, Done
<1>7. \A l \in Lines : Holders(l)' = IF l = LineOf[j] THEN Holders(l) \cup {j} ELSE Holders(l)
  BY <1>1, <1>3 DEF Holders, RefsInv, TypeOK
<1>8. RefsHeld'
  BY <1>1, <1>6, <1>7, HolderMore DEF Route, BindOrdering, RefsInv, TypeOK
<1> QED BY <1>4, <1>5, <1>8 DEF RefsInv

LEMMA WritesKeeps == ASSUME RefsInv, NEW j \in Jobs, WritesAhead(j) PROVE RefsInv'
<1>1. /\ pc[j] = "routed" /\ pc' = [pc EXCEPT ![j] = "ahead"] /\ row' = [row EXCEPT ![j] = "active"]
      /\ UNCHANGED <<pin, refs, at, inflight, healthy, up, faults>>
  BY DEF WritesAhead, bindings
<1>2. TypeOK'
  BY <1>1 DEF RefsInv, TypeOK
<1>3. CallInv'
  BY <1>1 DEF RefsInv, TypeOK, CallInv, Starting, Done
<1>4. \A l \in Lines : Holders(l)' = Holders(l)
  BY <1>1 DEF Holders, RefsInv, TypeOK
<1> QED BY <1>1, <1>2, <1>3, <1>4 DEF RefsInv, RefsHeld

LEMMA ResolvesKeeps == ASSUME RefsInv, NEW j \in Jobs, SubmitResolves(j) PROVE RefsInv'
<1>1. /\ pc[j] = "ahead" /\ pc' = [pc EXCEPT ![j] = "resolved"] /\ inflight' = inflight \cup {j}
      /\ UNCHANGED <<pin, refs, at, row, healthy, up, faults>>
  BY DEF SubmitResolves, bindings
<1>2. TypeOK'
  BY <1>1 DEF RefsInv, TypeOK, Done
<1>3. CallInv'
  BY <1>1 DEF RefsInv, TypeOK, CallInv, Starting, Done
<1>4. \A l \in Lines : Holders(l)' = Holders(l)
  BY <1>1 DEF Holders, RefsInv, TypeOK
<1> QED BY <1>1, <1>2, <1>3, <1>4 DEF RefsInv, RefsHeld

LEMMA RejectsKeeps ==
    ASSUME RefsInv, NEW j \in Jobs, SubmitRejects(j) \/ SubmitStrands(j) PROVE RefsInv'
<1>1. /\ pc[j] \in {"routed", "ahead"} /\ pc' = [pc EXCEPT ![j] = "rejected"]
      /\ ReleaseOrdering(LineOf[j])
      /\ UNCHANGED <<at, inflight, healthy, up>>
  BY DEF SubmitRejects, SubmitStrands
<1>2. faults' \in [{"crash", "store"} -> Nat]
  BY SpendTypes DEF SubmitRejects, SubmitStrands, RefsInv, TypeOK
<1>3. BindingsOK'
  BY <1>1, ReleaseTypes, LineTypes DEF RefsInv, TypeOK, BindingsOK
<1>4. /\ row' \in [Jobs -> {"absent", "active", "terminal"}]
      /\ \A i \in Jobs : row'[i] = row[i] \/ (i = j /\ row[i] = "active" /\ row'[i] = "terminal")
  BY DEF SubmitRejects, SubmitStrands, RefsInv, TypeOK
<1>5. TypeOK'
  BY <1>1, <1>2, <1>3, <1>4 DEF RefsInv, TypeOK, BindingsOK, Done
<1>6. CallInv'
  BY <1>1, <1>4 DEF RefsInv, TypeOK, CallInv, Starting, Done
<1>7. j \in Holders(LineOf[j]) /\ j \notin inflight
  BY <1>1 DEF Holders, RefsInv, CallInv, Done
<1>8. \A l \in Lines : Holders(l)' = IF l = LineOf[j] THEN Holders(l) \ {j} ELSE Holders(l)
  BY <1>1, <1>7 DEF Holders, RefsInv, TypeOK
<1>9. RefsHeld'
  BY <1>1, <1>7, <1>8, LineTypes, HolderLess DEF RefsInv, TypeOK
<1> QED BY <1>5, <1>6, <1>9 DEF RefsInv

LEMMA RecordsKeeps == ASSUME RefsInv, NEW j \in Jobs, ReattachRecords(j) PROVE RefsInv'
<1>1. PICK a \in Accounts : at' = [at EXCEPT ![j] = a]
  BY DEF ReattachRecords
<1>2. /\ pc[j] = "idle" /\ pc' = [pc EXCEPT ![j] = "recorded"] /\ row' = [row EXCEPT ![j] = "active"]
      /\ up /\ UNCHANGED <<pin, refs, inflight, healthy, up, faults>>
  BY DEF ReattachRecords, bindings
<1>3. TypeOK'
  BY <1>1, <1>2 DEF RefsInv, TypeOK
<1>4. CallInv'
  BY <1>1, <1>2 DEF RefsInv, TypeOK, CallInv, Starting, Done
<1>5. \A l \in Lines : Holders(l)' = Holders(l)
  BY <1>2 DEF Holders, RefsInv, TypeOK
<1> QED BY <1>2, <1>3, <1>4, <1>5 DEF RefsInv, RefsHeld

LEMMA BindsKeeps == ASSUME RefsInv, NEW j \in Jobs, ReattachBinds(j) PROVE RefsInv'
<1>1. /\ pc[j] = "recorded" /\ pc' = [pc EXCEPT ![j] = "resolved"] /\ inflight' = inflight \cup {j}
      /\ UNCHANGED <<at, row, healthy, up, faults>>
  BY DEF ReattachBinds
<1>2. at[j] \in Accounts /\ LineOf[j] \in Lines
  BY <1>1, LineTypes DEF RefsInv, CallInv
<1>3. BindingsOK'
  BY <1>2, BindTypes DEF ReattachBinds, RefsInv, TypeOK, BindingsOK
<1>4. TypeOK'
  BY <1>1, <1>3 DEF RefsInv, TypeOK, BindingsOK, Done
<1>5. CallInv'
  BY <1>1 DEF RefsInv, TypeOK, CallInv, Starting, Done
<1>6. j \notin Holders(LineOf[j])
  BY <1>1 DEF Holders, RefsInv, CallInv, Done
<1>7. \A l \in Lines : Holders(l)' = IF l = LineOf[j] THEN Holders(l) \cup {j} ELSE Holders(l)
  BY <1>1 DEF Holders, RefsInv, TypeOK
<1>8. RefsHeld'
  BY <1>2, <1>6, <1>7, HolderMore DEF ReattachBinds, BindOrdering, RefsInv, TypeOK
<1> QED BY <1>4, <1>5, <1>8 DEF RefsInv

LEMMA SettleKeeps == ASSUME RefsInv, NEW j \in Jobs, Settle(j) PROVE RefsInv'
<1>1. /\ j \in inflight /\ inflight' = inflight \ {j} /\ row' = [row EXCEPT ![j] = "terminal"]
      /\ ReleaseOrdering(LineOf[j])
      /\ UNCHANGED <<pc, at, healthy, up, faults>>
  BY DEF Settle
<1>2. BindingsOK'
  BY <1>1, ReleaseTypes, LineTypes DEF RefsInv, TypeOK, BindingsOK
<1>3. TypeOK'
  BY <1>1, <1>2 DEF RefsInv, TypeOK, BindingsOK
<1>4. pc[j] \in Done
  BY <1>1 DEF RefsInv, CallInv
<1>5. CallInv'
  BY <1>1, <1>4 DEF RefsInv, TypeOK, CallInv, Starting, Done
<1>6. j \in Holders(LineOf[j])
  BY <1>1 DEF Holders
<1>7. \A l \in Lines : Holders(l)' = IF l = LineOf[j] THEN Holders(l) \ {j} ELSE Holders(l)
  BY <1>1, <1>4 DEF Holders, Done
<1>8. RefsHeld'
  BY <1>1, <1>6, <1>7, LineTypes, HolderLess DEF RefsInv, TypeOK
<1> QED BY <1>3, <1>5, <1>8 DEF RefsInv

LEMMA CrashRows ==
    ASSUME TypeOK, Crash
    PROVE  /\ row' \in [Jobs -> {"absent", "active", "terminal"}]
           /\ \A i \in Jobs : row'[i] = row[i] \/ (i \in inflight /\ row'[i] = "terminal")
<1>1. CASE row' = row
  BY <1>1 DEF TypeOK
<1>2. CASE \E j \in inflight : row' = [row EXCEPT ![j] = "terminal"]
  BY <1>2 DEF TypeOK
<1> QED BY <1>1, <1>2 DEF Crash

LEMMA CrashKeeps == ASSUME RefsInv, Crash PROVE RefsInv'
<1>1. /\ up' = FALSE /\ inflight' = {} /\ UNCHANGED <<at, healthy>>
      /\ pin' = [l \in Lines |-> NoAccount] /\ refs' = [l \in Lines |-> 0]
      /\ pc' = [j \in Jobs |-> IF pc[j] \in {"idle"} \cup Done THEN pc[j] ELSE "lost"]
  BY DEF Crash
<1>2. faults' \in [{"crash", "store"} -> Nat]
  BY SpendTypes DEF Crash, RefsInv, TypeOK
<1>3. TypeOK'
  BY <1>1, <1>2, CrashRows DEF RefsInv, TypeOK, Starting, Done
<1>4. CallInv'
  BY <1>1, CrashRows DEF RefsInv, TypeOK, CallInv, Starting, Done
<1>5. \A l \in Lines : Holders(l)' = {}
  BY <1>1 DEF Holders, Done
<1> QED BY <1>1, <1>3, <1>4, <1>5, FS_EmptySet DEF RefsInv, RefsHeld

LEMMA RestoreKeeps == ASSUME RefsInv, Restore PROVE RefsInv'
<1>1. /\ ~up /\ up' = TRUE /\ inflight' = {j \in Jobs : row[j] = "active"}
      /\ refs' = [l \in Lines |-> RefsRestored(l)]
      /\ UNCHANGED <<pc, at, row, healthy, faults>>
  BY DEF Restore
<1>2. \A l \in Lines : /\ IsFiniteSet(ActiveJobs(l)) /\ RefsRestored(l) \in Nat
                       /\ RefsRestored(l) = 0 <=> ActiveJobs(l) = {}
  <2> SUFFICES ASSUME NEW l \in Lines
               PROVE  /\ IsFiniteSet(ActiveJobs(l)) /\ RefsRestored(l) \in Nat
                      /\ RefsRestored(l) = 0 <=> ActiveJobs(l) = {}
    OBVIOUS
  <2>1. ActiveJobs(l) \in SUBSET Jobs
    BY DEF ActiveJobs
  <2>2. IsFiniteSet(ActiveJobs(l))
    BY <2>1, FiniteAssumption, FS_Subset
  <2> QED BY <2>2, FS_CardinalityType, FS_EmptySet DEF RefsRestored
<1>3. /\ pin' \in [Lines -> Accounts \cup {NoAccount}]
      /\ \A l \in Lines : pin'[l] = NoAccount <=> ActiveJobs(l) = {}
  <2>1. \A l \in Lines : IF ActiveJobs(l) = {} THEN pin'[l] = NoAccount
                         ELSE \E j \in ActiveJobs(l) : pin'[l] = at[j]
    BY DEF Restore
  <2>2. \A l \in Lines : \A j \in ActiveJobs(l) : at[j] \in Accounts
    BY DEF ActiveJobs, RefsInv, CallInv
  <2> QED BY <2>1, <2>2, AccountsAssumption DEF Restore
<1>4. TypeOK'
  BY <1>1, <1>2, <1>3 DEF RefsInv, TypeOK
<1>5. CallInv'
  BY <1>1 DEF RefsInv, TypeOK, CallInv, Starting, Done
<1>6. \A l \in Lines : Holders(l)' = ActiveJobs(l)
  BY <1>1 DEF Holders, ActiveJobs, RefsInv, CallInv, Done
<1> QED BY <1>1, <1>4, <1>5, <1>6 DEF RefsInv, RefsHeld, RefsRestored

LEMMA RoutingKeeps == ASSUME RefsInv, [Next]_vars PROVE RefsInv'
<1>1. ASSUME NEW j \in Jobs,
             \/ Picks(j) \/ Route(j) \/ WritesAhead(j) \/ SubmitResolves(j)
             \/ SubmitRejects(j) \/ SubmitStrands(j)
             \/ ReattachRecords(j) \/ ReattachBinds(j) \/ Settle(j)
      PROVE  RefsInv'
  BY <1>1, PicksKeeps, RouteKeeps, WritesKeeps, ResolvesKeeps, RejectsKeeps, RecordsKeeps,
     BindsKeeps, SettleKeeps
<1>2. ASSUME NEW a \in Accounts, Gauge(a) PROVE RefsInv'
  <2>1. UNCHANGED <<pin, refs, pc, at, row, inflight, up, faults>> /\ healthy' \in SUBSET Accounts
    BY <1>2 DEF Gauge, bindings, RefsInv, TypeOK
  <2>2. TypeOK' /\ CallInv'
    BY <2>1 DEF RefsInv, TypeOK, CallInv
  <2>3. \A l \in Lines : Holders(l)' = Holders(l)
    BY <2>1 DEF Holders
  <2> QED BY <2>1, <2>2, <2>3 DEF RefsInv, RefsHeld
<1>3. CASE Crash BY <1>3, CrashKeeps
<1>4. CASE Restore BY <1>4, RestoreKeeps
<1>5. CASE UNCHANGED vars
  <2>1. UNCHANGED <<pin, refs, pc, at, row, inflight, healthy, up, faults>>
    BY <1>5 DEF vars, bindings
  <2>2. TypeOK' /\ CallInv'
    BY <2>1 DEF RefsInv, TypeOK, CallInv
  <2>3. \A l \in Lines : Holders(l)' = Holders(l)
    BY <2>1 DEF Holders
  <2> QED BY <2>1, <2>2, <2>3 DEF RefsInv, RefsHeld
<1> QED BY <1>1, <1>2, <1>3, <1>4, <1>5 DEF Next

(* The bindings and the places of the calls are as the types and CallInv   *)
(* say, and a line is bound exactly as often as a job of it holds it.        *)
THEOREM RoutingInductive == Spec => []RefsInv
BY RoutingInit, RoutingKeeps, PTL DEF Spec

(* routing/index.ts: the bindings are "ref-counted against active work":   *)
(* for any jobs, restarts and failing writes, a line of the running process*)
(* has one reference for each of its jobs that is being submitted or has   *)
(* an active row, but for the stranded ones.  While no write after a send  *)
(* failed, or once a restart came after it, there are none of those.       *)
THEOREM ReferencesExact == Spec => []RefsExact
<1>1. RefsInv => RefsExact
  <2> SUFFICES ASSUME RefsInv, up, NEW l \in Lines PROVE Live(l) \ Stranded = Holders(l)
    BY DEF RefsInv, RefsHeld, RefsExact
  <2>1. ASSUME NEW j \in Holders(l) PROVE j \in Live(l) \ Stranded
    BY <2>1 DEF Holders, Live, Stranded, RefsInv, CallInv, Done
  <2>2. ASSUME NEW j \in Live(l) \ Stranded PROVE j \in Holders(l)
    BY <2>2 DEF Holders, Live, Stranded, RefsInv, CallInv, Done
  <2> QED BY <2>1, <2>2
<1> QED BY <1>1, RoutingInductive, PTL

----------------------------------------------------------------------------
(* A line stays on one account.                                            *)

\* The jobs that are on the line's account: routed, or with a live row.
Working(l) == {j \in Jobs : LineOf[j] = l /\ (pc[j] = "routed" \/ row[j] = "active")}

OnPin(l) ==
    IF up THEN \A j \in Working(l) : j \in Holders(l) /\ pin[l] = at[j]
    ELSE \A i, j \in ActiveJobs(l) : at[i] = at[j]

PinInv ==
    /\ faults["store"] <= Budget["store"]
    /\ AllWritten => \A l \in Lines : Submitted(l) => OnPin(l)

LEMMA PinInit == Init => PinInv
<1> SUFFICES ASSUME Init PROVE PinInv
  OBVIOUS
<1>1. \A l \in Lines : Working(l) = {}
  BY DEF Init, Working
<1> QED BY <1>1, BudgetAssumption DEF Init, PinInv, OnPin

LEMMA PinHolds == RefsInv /\ PinInv => LineOnOneAccount
<1> SUFFICES ASSUME RefsInv, PinInv, AllWritten, NEW l \in Lines, Submitted(l),
                    NEW i \in ActiveJobs(l), NEW j \in ActiveJobs(l)
             PROVE  at[i] = at[j]
  BY DEF LineOnOneAccount
<1>1. i \in Working(l) /\ j \in Working(l)
  BY DEF ActiveJobs, Working
<1> QED BY <1>1 DEF PinInv, OnPin

LEMMA SpendLowers ==
    ASSUME RefsInv, NEW kind \in {"crash", "store"}, Spend(kind)
    PROVE  faults'["store"] = IF kind = "store" THEN faults["store"] - 1 ELSE faults["store"]
BY DEF Spend, RefsInv, TypeOK

\* Only a stranded submit spends the failing store write.
LEMMA WrittenBefore ==
    ASSUME RefsInv, PinInv, UNCHANGED faults \/ Spend("crash")
    PROVE  faults'["store"] <= Budget["store"] /\ (AllWritten' => AllWritten)
BY SpendLowers DEF PinInv, AllWritten

\* A released line keeps its account while it has a holder left.
LEMMA StillPinned ==
    ASSUME RefsInv', NEW l \in Lines, NEW m \in Lines, ReleaseOrdering(m),
           NEW i \in Holders(l)', pin \in [Lines -> Accounts \cup {NoAccount}]
    PROVE  pin'[l] = pin[l]
<1>1. Cardinality(Holders(l)') # 0
  <2>1. IsFiniteSet(Holders(l)')
    <3>1. Holders(l)' \in SUBSET Jobs
      BY DEF Holders
    <3> QED BY <3>1, FiniteAssumption, FS_Subset
  <2> QED BY <2>1, FS_EmptySet
<1>2. pin'[l] # NoAccount
  BY <1>1 DEF RefsInv, RefsHeld, TypeOK
<1>3. CASE refs[m] = 0
  BY <1>3 DEF ReleaseOrdering, bindings
<1>4. CASE refs[m] # 0
  <2>1. pin' = [pin EXCEPT ![m] = IF refs[m] = 1 THEN NoAccount ELSE @]
    BY <1>4 DEF ReleaseOrdering
  <2> QED BY <1>2, <2>1
<1> QED BY <1>3, <1>4

LEMMA RoutePins == ASSUME RefsInv, PinInv, NEW j \in Jobs, Route(j) PROVE PinInv'
<1> DEFINE here == LineOf[j]
<1>1. /\ pc[j] = "picked" /\ pc' = [pc EXCEPT ![j] = "routed"]
      /\ at' = [at EXCEPT ![j] = BoundAccount(here, at[j])]
      /\ pin' = [pin EXCEPT ![here] = BoundAccount(here, at[j])]
      /\ UNCHANGED <<row, inflight, up, faults>>
  BY DEF Route, BindOrdering
<1>2. here \in Lines /\ row[j] # "active" /\ up
  BY <1>1, LineTypes DEF RefsInv, CallInv, TypeOK, Starting, Done
<1>3. SUFFICES ASSUME AllWritten', NEW l \in Lines, Submitted(l)', NEW i \in Working(l)'
               PROVE  i \in Holders(l)' /\ pin'[l] = at'[i]
  BY <1>1, <1>2, WrittenBefore DEF PinInv, OnPin
<1>4. AllWritten /\ OnPin(l)
  BY <1>1, <1>3, WrittenBefore DEF PinInv, Submitted
<1>5. CASE i = j
  <2>1. l = here
    BY <1>5 DEF Working
  <2> QED BY <1>1, <1>2, <1>5, <2>1 DEF Holders, RefsInv, TypeOK
<1>6. CASE i # j
  <2>1. i \in Working(l)
    BY <1>1, <1>6 DEF Working, RefsInv, TypeOK
  <2>2. i \in Holders(l) /\ pin[l] = at[i] /\ at[i] \in Accounts
    BY <1>2, <1>4, <2>1 DEF OnPin, Working, RefsInv, CallInv
  <2>3. pin'[l] = pin[l]
    BY <1>1, <1>2, <2>2, AccountsAssumption DEF BoundAccount, RefsInv, TypeOK
  <2> QED BY <1>1, <1>6, <2>2, <2>3 DEF Holders, RefsInv, TypeOK
<1> QED BY <1>5, <1>6

\* A call that only moves on, and what it is tracked by with it.
LEMMA MovePins ==
    ASSUME RefsInv, PinInv, NEW j \in Jobs, Picks(j) \/ WritesAhead(j) \/ SubmitResolves(j)
    PROVE  PinInv'
<1>1. /\ UNCHANGED <<pin, refs, up, faults>>
      /\ \A i \in Jobs : at'[i] = at[i] \/ (i = j /\ pc[j] = "idle" /\ pc'[j] = "picked" /\ row'[j] = row[j])
      /\ \A i \in Jobs : row'[i] = row[i] \/ (i = j /\ pc[j] = "routed")
      /\ \A i \in Jobs : pc'[i] = "routed" => pc[i] = "routed"
      /\ \A i \in Jobs : (i \in inflight \/ pc[i] \in {"routed", "ahead"})
                            => (i \in inflight' \/ pc'[i] \in {"routed", "ahead"})
      /\ up
  <2>1. up \/ pc[j] # "idle"
    BY DEF Picks, WritesAhead, SubmitResolves
  <2> QED BY <2>1 DEF Picks, WritesAhead, SubmitResolves, bindings, RefsInv, TypeOK, CallInv, Done
<1>2. \A l \in Lines : /\ Working(l)' \subseteq Working(l)
                       /\ Holders(l) \subseteq Holders(l)'
                       /\ \A i \in Working(l)' : at'[i] = at[i]
  <2>1. \A i \in Jobs : pc[i] = "idle" => row[i] # "active"
    BY DEF RefsInv, CallInv, Done
  <2> QED BY <1>1, <2>1 DEF Working, Holders
<1>3. faults'["store"] <= Budget["store"] /\ (AllWritten' => AllWritten)
  BY <1>1, WrittenBefore
<1> QED BY <1>1, <1>2, <1>3 DEF PinInv, OnPin, Submitted

\* A job that lets go of its line.
LEMMA ReleasePins ==
    ASSUME RefsInv, PinInv, RefsInv', NEW j \in Jobs, SubmitRejects(j) \/ Settle(j) PROVE PinInv'
<1>1. /\ UNCHANGED <<at, up, faults>> /\ ReleaseOrdering(LineOf[j])
      /\ \A i \in Jobs : i # j => /\ row'[i] = row[i] /\ pc'[i] = pc[i]
                                  /\ i \in inflight' <=> i \in inflight
      /\ row'[j] # "active" /\ pc'[j] \in Done /\ up
  BY DEF SubmitRejects, Settle, RefsInv, TypeOK, CallInv, Done
<1>2. LineOf[j] \in Lines
  BY LineTypes
<1>3. SUFFICES ASSUME AllWritten', NEW l \in Lines, Submitted(l)', NEW i \in Working(l)'
               PROVE  i \in Holders(l)' /\ pin'[l] = at'[i]
  BY <1>1, WrittenBefore DEF PinInv, OnPin
<1>4. i \in Working(l) /\ i # j
  BY <1>1 DEF Working, Done
<1>5. i \in Holders(l) /\ pin[l] = at[i]
  BY <1>1, <1>3, <1>4, WrittenBefore DEF PinInv, OnPin, Submitted
<1>6. i \in Holders(l)'
  BY <1>1, <1>4, <1>5 DEF Holders
<1>7. pin'[l] = pin[l]
  BY <1>1, <1>2, <1>6, StillPinned DEF RefsInv, TypeOK
<1> QED BY <1>1, <1>5, <1>6, <1>7

LEMMA StrandPins == ASSUME RefsInv, PinInv, NEW j \in Jobs, SubmitStrands(j) PROVE PinInv'
<1>1. faults'["store"] = faults["store"] - 1
  BY SpendLowers DEF SubmitStrands
<1>2. faults["store"] \in Nat /\ Budget["store"] \in Nat
  BY BudgetAssumption DEF RefsInv, TypeOK
<1> QED BY <1>1, <1>2 DEF PinInv, AllWritten

\* The line of a reattached job is not claimed to stay on one account.
LEMMA ReattachPins ==
    ASSUME RefsInv, PinInv, NEW j \in Jobs, ReattachRecords(j) \/ ReattachBinds(j) PROVE PinInv'
<1>1. /\ UNCHANGED <<up, faults>> /\ up
      /\ \A i \in Jobs : i # j => /\ row'[i] = row[i] /\ pc'[i] = pc[i] /\ at'[i] = at[i]
                                  /\ i \in inflight' <=> i \in inflight
      /\ \A l \in Lines : l # LineOf[j] => pin'[l] = pin[l]
  BY DEF ReattachRecords, ReattachBinds, BindOrdering, bindings, RefsInv, TypeOK, CallInv, Done
<1>2. SUFFICES ASSUME AllWritten', NEW l \in Lines, Submitted(l)', NEW i \in Working(l)'
               PROVE  i \in Holders(l)' /\ pin'[l] = at'[i]
  BY <1>1, WrittenBefore DEF PinInv, OnPin
<1>3. OnPin(l) /\ Submitted(l)
  BY <1>1, <1>2, WrittenBefore DEF PinInv, Submitted
<1>4. LineOf[j] # l
  <2>1. CASE ReattachRecords(j)
    BY <2>1, <1>3 DEF ReattachRecords, Submitted
  <2>2. CASE ReattachBinds(j)
    <3>1. row[j] = "active" /\ j \notin inflight /\ pc[j] = "recorded"
      BY <2>2 DEF ReattachBinds, RefsInv, CallInv, Done
    <3> QED BY <1>1, <1>3, <3>1 DEF OnPin, Working, Holders
  <2> QED BY <2>1, <2>2
<1>5. i # j /\ i \in Working(l)
  BY <1>1, <1>4 DEF Working
<1> QED BY <1>1, <1>3, <1>4, <1>5 DEF OnPin, Holders

LEMMA CrashPins == ASSUME RefsInv, PinInv, Crash PROVE PinInv'
<1>1. faults'["store"] <= Budget["store"] /\ (AllWritten' => AllWritten)
  BY WrittenBefore DEF Crash
<1>2. up /\ ~up' /\ UNCHANGED at
  BY DEF Crash
<1>3. \A l \in Lines : ActiveJobs(l)' \subseteq Working(l)
  BY CrashRows DEF ActiveJobs, Working, RefsInv
<1> QED BY <1>1, <1>2, <1>3 DEF PinInv, OnPin, Submitted

LEMMA RestorePins == ASSUME RefsInv, PinInv, Restore PROVE PinInv'
<1>1. /\ ~up /\ inflight' = {j \in Jobs : row[j] = "active"} /\ UNCHANGED <<pc, at, row, faults>>
      /\ \A l \in Lines : ActiveJobs(l) # {} => \E j \in ActiveJobs(l) : pin'[l] = at[j]
  BY DEF Restore
<1>2. SUFFICES ASSUME AllWritten', NEW l \in Lines, Submitted(l)', NEW i \in Working(l)'
               PROVE  i \in Holders(l)' /\ pin'[l] = at'[i]
  BY <1>1, WrittenBefore DEF PinInv, OnPin, Restore
<1>3. OnPin(l)
  BY <1>1, <1>2, WrittenBefore DEF PinInv, Submitted
<1>4. i \in ActiveJobs(l)
  BY <1>1 DEF Working, ActiveJobs, RefsInv, CallInv, Done
<1> QED BY <1>1, <1>3, <1>4 DEF OnPin, Holders, ActiveJobs

LEMMA PinKeeps == ASSUME RefsInv, PinInv, [Next]_vars PROVE PinInv'
<1>1. RefsInv'
  BY RoutingKeeps
<1>2. ASSUME NEW j \in Jobs,
             \/ Picks(j) \/ Route(j) \/ WritesAhead(j) \/ SubmitResolves(j)
             \/ SubmitRejects(j) \/ SubmitStrands(j)
             \/ ReattachRecords(j) \/ ReattachBinds(j) \/ Settle(j)
      PROVE  PinInv'
  BY <1>1, <1>2, MovePins, RoutePins, ReleasePins, StrandPins, ReattachPins
<1>3. ASSUME UNCHANGED <<pin, pc, at, row, inflight, up, faults>> PROVE PinInv'
  <2>1. \A l \in Lines : Working(l)' = Working(l) /\ Holders(l)' = Holders(l) /\ ActiveJobs(l)' = ActiveJobs(l)
    BY <1>3 DEF Working, Holders, ActiveJobs
  <2> QED BY <1>3, <2>1 DEF PinInv, OnPin, AllWritten, Submitted
<1>4. ASSUME NEW a \in Accounts, Gauge(a) PROVE PinInv'
  BY <1>3, <1>4 DEF Gauge, bindings
<1>5. CASE UNCHANGED vars
  BY <1>3, <1>5 DEF vars, bindings
<1> QED BY <1>2, <1>4, <1>5, CrashPins, RestorePins DEF Next

(* README.md: "All requests sharing an `orderingKey` go through the same   *)
(* account": for any number of jobs and restarts, unless a store write     *)
(* after a send failed or the line has a reattached job.                   *)
THEOREM OneAccountPerLine == Spec => []LineOnOneAccount
<1>1. Init => RefsInv /\ PinInv
  BY RoutingInit, PinInit
<1>2. (RefsInv /\ PinInv) /\ [Next]_vars => (RefsInv /\ PinInv)'
  BY RoutingKeeps, PinKeeps
<1> QED BY <1>1, <1>2, PinHolds, PTL DEF Spec
=============================================================================
