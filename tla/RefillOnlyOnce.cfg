CONSTANTS
  r1 = r1
  r2 = r2
  Recipients <- OneRecipient
  MinBalance = 1
  Target = 2
  Floor = 2
  GasCost = 1
  Funds = 20
  Budget <- FourDrains
SPECIFICATION FairSpec
PROPERTIES
  LowIsFundedAgain
