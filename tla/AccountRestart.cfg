CONSTANTS
  j1 = j1
  j2 = j2
  j3 = j3
  f = f
  Keys <- ThreeJobs
  Jobs <- ThreeJobs
  ChainBase = 0
  Confirmations = 1
  IdleHeight = 1
  MaxAttempts = 2
  MaxInflight = 2
  Budgets <- CrashAndRpc
SPECIFICATION Spec
SYMMETRY ThreeJobSymmetry
INVARIANTS
  ActiveNoncesDistinct
  ActiveRowsTracked
  CapRespected
  GapFree
