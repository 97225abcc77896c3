\* Two goroutines, a root handler and two derived ones, two attributes, three lines.
CONSTANTS
  NULL = NULL
  g1 = g1
  g2 = g2
  b1 = b1
  b2 = b2
  Goroutines <- TwoGoroutines
  Buffers <- TwoBuffers
  Records <- SomeRecords
  Attrs = {"error", "component"}
  Level = "INFO"
  MaxHandlers = 3
  MaxCalls = 3
SPECIFICATION Spec
INVARIANTS
  TypeOK
  LinesIntact
  WritesExclusive
  NeverLeftLocked
PROPERTIES
  HandleReturns
CHECK_DEADLOCK FALSE
