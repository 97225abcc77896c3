\* Every small block, with failing receipts and log queries.
CONSTANTS
  NULL = NULL
  w1 = w1
  w2 = w2
  other = other
  token = token
  zero = zero
  Address <- Accounts
  Monitored <- TwoWallets
  Zero = zero
  KnownContracts = {token}
  TokenKnown = TRUE
  UsdcListen = TRUE
  Blocks <- SmallBlocks
SPECIFICATION Spec
INVARIANTS
  TypeOK
  OneRequestPerTx
  GasComplete
  FlowsMatch
  KeysClashOnlyByLogs
  SentReported
CHECK_DEADLOCK FALSE
