CONSTANTS
  j1 = j1
  j2 = j2
  j3 = j3
  f = f
  Keys <- OneJobAndForeign
  Jobs <- OneJob
  ChainBase = 1
  Confirmations = 2
  IdleHeight = 3
  MaxAttempts = 2
  MaxInflight = 2
  Budgets <- ForeignFaults
SPECIFICATION Spec
INVARIANTS
  TypeOK
  IInv
  ConfirmedOnChain
