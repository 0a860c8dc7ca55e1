CONSTANTS
  j1 = j1
  j2 = j2
  j3 = j3
  f = f
  Keys <- OneJob
  Jobs <- OneJob
  ChainBase = 0
  Confirmations = 2
  IdleHeight = 1
  MaxAttempts = 1
  MaxInflight = 1
  Budgets <- NoFaults
SPECIFICATION Spec
INVARIANTS
  FailedIsDead
