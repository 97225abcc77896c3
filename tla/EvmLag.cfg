\* One process, two wallets, a provider that lags by one block,
\* on a chain that is younger than the buffer at first.
CONSTANTS
  NULL = NULL
  w1 = w1
  w2 = w2
  NumProviders = 1
  SafeBlockBuffer = 1
  MaxBlocksPerTick = 2
  BatchSize = 1
  UsdcListen = TRUE
  Publishing = TRUE
  Wallets = {w1, w2}
  Activity <- TwoWalletActivity
  InitHead = 0
  MaxHead = 3
  MaxLag = 1
  MaxRuns = 1
SPECIFICATION Spec
INVARIANTS
  TypeOK
  RunCoverage
  SessionRange
PROPERTIES
  PublishesDeep
  CheckpointHolds
