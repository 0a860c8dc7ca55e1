----------------------------- MODULE MCAccount -----------------------------
(* ManagedAccount on small instances for TLC: the fault budgets the runs   *)
(* choose from, and the symmetry of interchangeable jobs.                  *)
EXTENDS AccountInvariant, TLC

CONSTANTS j1, j2, j3, f

OneJob == {j1}
TwoJobs == {j1, j2}
ThreeJobs == {j1, j2, j3}
OneJobAndForeign == {j1, f}

Faults(kinds) == [kind \in FaultKinds |-> IF kind \in kinds THEN 1 ELSE 0]

NoFaults == {Faults({})}
AnyOfFive == {Faults({"rpc", "lost", "store", "crash", "revert"})}
CrashAndRpc == {Faults({"crash", "rpc"})}
RpcWithStoreOrCrash == {Faults({"store", "rpc"}), Faults({"crash", "rpc"})}
OneStoreError == {Faults({"store"})}
ForeignFaults == {Faults({"crash", "store", "evict"}), Faults({"store", "reorg"}), Faults({"crash", "reorg"})}

TwoJobSymmetry == Permutations(TwoJobs)
ThreeJobSymmetry == Permutations(ThreeJobs)
=============================================================================
