CONSTANTS
  a1 = a1
  a2 = a2
  Accounts <- TwoAccounts
  MaxLoops = 3
  AwaitStop = TRUE
SPECIFICATION FairSpec
INVARIANTS
  TypeOK
  SingleLoop
  StopQuiesces
PROPERTIES
  PassesGoOn
  StopReturns
