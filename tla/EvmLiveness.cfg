\* Liveness: one process, two providers, with and without a session row.
CONSTANTS
  NULL = NULL
  w1 = w1
  w2 = w2
  NumProviders = 2
  SafeBlockBuffer = 1
  MaxBlocksPerTick = 1
  BatchSize = 1
  UsdcListen = FALSE
  Publishing = TRUE
  Wallets = {w1}
  Activity <- QuietActivity
  InitHead = 1
  MaxHead = 3
  MaxLag = 0
  MaxRuns = 1
SPECIFICATION FairSpec
PROPERTIES
  ShutdownCompletes
  CatchesUp
