\* A restart while the chain goes on.
CONSTANTS
  NULL = NULL
  w1 = w1
  w2 = w2
  NumProviders = 1
  SafeBlockBuffer = 1
  MaxBlocksPerTick = 2
  BatchSize = 1
  UsdcListen = FALSE
  Publishing = TRUE
  Wallets = {w1}
  Activity <- OneWalletActivity
  InitHead = 1
  MaxHead = 5
  MaxLag = 0
  MaxRuns = 2
SPECIFICATION Spec
INVARIANT ResumedWithoutGap
