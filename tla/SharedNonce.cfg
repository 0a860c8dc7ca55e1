CONSTANTS
  j1 = j1
  j2 = j2
  j3 = j3
  f = f
  Keys <- TwoJobs
  Jobs <- TwoJobs
  ChainBase = 0
  Confirmations = 2
  IdleHeight = 1
  MaxAttempts = 1
  MaxInflight = 2
  Budgets <- OneStoreError
SPECIFICATION Spec
INVARIANTS
  ActiveNoncesDistinct
