CONSTANTS
  None = None
  Empty = Empty
  N = 3
  Spoken <- FirstTwo
  Limits = {2}
  Concurrency = 2
  Reuse = FALSE
  Signatures = {"a", "b"}
  MaxAttempts = 2
SPECIFICATION Spec
INVARIANTS
  MemoryIsOfOneAnalysis
CHECK_DEADLOCK FALSE
