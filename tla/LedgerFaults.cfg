\* Crashes, lost answers, redeliveries, a block published twice, an amount too large.
CONSTANTS
  NULL = NULL
  e1 = e1
  e2 = e2
  e3 = e3
  e4 = e4
  e5 = e5
  Events <- AllEvents
  NumMessages = 3
  Offered <- Republished
  KeyOf <- OwnKey
  Unmappable = {e5}
  Overflowing = {e3}
  MaxAckPending = 2
  MaxCopies = 2
  MaxCrashes = 2
  MaxLost = 1
SPECIFICATION FairSpec
INVARIANTS
  TypeOK
  AckedPersisted
  WholeBatch
  NothingSkipped
  RefusedForReason
PROPERTY Settles
CHECK_DEADLOCK FALSE
