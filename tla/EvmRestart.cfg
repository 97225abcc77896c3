\* Two processes one after the other, one wallet, one provider that never lags.
CONSTANTS
  NULL = NULL
  w1 = w1
  w2 = w2
  NumProviders = 1
  SafeBlockBuffer = 1
  MaxBlocksPerTick = 2
  BatchSize = 1
  UsdcListen = TRUE
  Publishing = TRUE
  Wallets = {w1}
  Activity <- OneWalletActivity
  InitHead = 1
  MaxHead = 3
  MaxLag = 0
  MaxRuns = 2
SPECIFICATION Spec
INVARIANTS
  SessionCoverage
  BatchPrefix
  RunsOrdered
PROPERTIES
  ScansInOrder
