\* Publishing fails in the middle of a range.
CONSTANTS
  NULL = NULL
  w1 = w1
  w2 = w2
  NumProviders = 1
  SafeBlockBuffer = 1
  MaxBlocksPerTick = 2
  BatchSize = 1
  UsdcListen = FALSE
  Publishing = TRUE
  Wallets = {w1}
  Activity <- OneWalletActivity
  InitHead = 1
  MaxHead = 4
  MaxLag = 0
  MaxRuns = 1
SPECIFICATION Spec
INVARIANT NextBlockAfterPublish
