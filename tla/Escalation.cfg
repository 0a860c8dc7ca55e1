CONSTANTS
  k1 = k1
  k2 = k2
  p = p
  q = q
  Keys <- TwoKeys
  Accounts <- TwoPools
  Absent = Absent
  Unset = Unset
  ZeroHash = ZeroHash
  OwnerOf <- OneEach
  Reattached <- OneReattached
  BaseFees <- OneBaseFee
  MaxAttempts = 3
  Crashes = 2
  MinGasPrice = 8
  Tip = 8
  HeadroomNum = 2
  HeadroomDen = 1
  BumpNum = 1125
  BumpDen = 1000
SPECIFICATION FairSpec
INVARIANTS
  TypeOK
  Recoverable
  AsksForHeld
PROPERTIES
  PlaceholderUntouched
  StuckEnds
