CONSTANTS
  j1 = j1
  j2 = j2
  j3 = j3
  w1 = w1
  Waiters <- OneWaiter
  Outcomes <- GoodOrBad
  a = a
  b = b
  x = x
  y = y
  Jobs <- ThreeJobs
  Reattached <- LastReattached
  Lines <- TwoLines
  LineOf <- TwoAndOne
  Accounts <- TwoAccounts
  NoAccount = NoAccount
  Budget <- CrashAndStore
SPECIFICATION FairFacade
INVARIANTS
  FacadeTypeOK
  RefsExact
  LineOnOneAccount
  ToldTruly
  WaitersAccounted
PROPERTIES
  TimedWaitEnds
