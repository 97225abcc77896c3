\* Two request threads and two nonces against the evicting task.
CONSTANTS
  NULL = NULL
  t1 = t1
  t2 = t2
  n1 = n1
  n2 = n2
  Threads <- TwoThreads
  Nonces <- TwoNonces
  TTL = 2
  MaxTime = 5
SPECIFICATION FairSpec
INVARIANTS
  TypeOK
  UsableKept
PROPERTIES
  Implements
  Evicted
