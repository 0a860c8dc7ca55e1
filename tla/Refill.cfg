CONSTANTS
  r1 = r1
  r2 = r2
  Recipients <- TwoRecipients
  MinBalance = 2
  Target = 3
  Floor = 5
  GasCost = 1
  Funds = 8
  Budget <- AllFaults
SPECIFICATION FairSpec
INVARIANTS
  TypeOK
  OneTopUpInFlight
  FloorAllButShared
  NoTransferBlocked
PROPERTIES
  SentStaysSent
  LowIsFunded
