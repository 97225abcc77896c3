\* The listener started twice, a block collected with different results, a ledger crash.
CONSTANTS
  NULL = NULL
  e1 = e1
  e2 = e2
  e3 = e3
  e4 = e4
  e5 = e5
  blank = blank
  Events <- AllEvents
  KeyOf <- KeyWithoutGas
  Unmappable = {blank}
  Overflowing = {}
  LastBlock = 2
  Collected <- MayYield
  BatchSize = 2
  MaxRuns = 2
  NumMessages = 4
  MaxAckPending = 2
  MaxCopies = 1
  MaxCrashes = 1
  MaxLost = 0
SPECIFICATION Spec
INVARIANTS
  ChunkWhole
  StreamAscends
  BlockArrives
PROPERTY Delivered
CHECK_DEADLOCK FALSE
