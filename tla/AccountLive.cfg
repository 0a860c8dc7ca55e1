CONSTANTS
  j1 = j1
  j2 = j2
  j3 = j3
  f = f
  Keys <- TwoJobs
  Jobs <- TwoJobs
  ChainBase = 0
  Confirmations = 2
  IdleHeight = 1
  MaxAttempts = 2
  MaxInflight = 1
  Budgets <- RpcWithStoreOrCrash
SPECIFICATION FairSpec
PROPERTIES
  SubmitReturns
  MinedEntrySettles
  SettledIsTold
  BootCompletes
