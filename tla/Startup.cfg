\* Every configuration with up to three URLs of two chains.
CONSTANTS
  NULL = NULL
  Keys = {"Sepolia", "sepolia"}
  Lower <- LowerCase
  Chains = {1, 11155111}
  MaxUrls = 3
SPECIFICATION FairSpec
INVARIANTS
  TypeOK
  RunValidated
  JoinsListener
PROPERTIES
  SignalStops
CHECK_DEADLOCK FALSE
