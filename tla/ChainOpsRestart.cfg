\* A block published again with more of its events than before.
CONSTANTS
  NULL = NULL
  e1 = e1
  e2 = e2
  e3 = e3
  e4 = e4
  e5 = e5
  blank = blank
  Events <- AllEvents
  KeyOf <- KeyWithoutGas
  Unmappable = {blank}
  Overflowing = {}
  LastBlock = 2
  Collected <- MayYield
  BatchSize = 2
  MaxRuns = 2
  NumMessages = 2
  MaxAckPending = 2
  MaxCopies = 1
  MaxCrashes = 0
  MaxLost = 0
SPECIFICATION Spec
PROPERTY RepeatsAbsorbed
CHECK_DEADLOCK FALSE
