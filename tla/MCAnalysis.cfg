CONSTANTS
  None = None
  Empty = Empty
  N = 3
  Spoken <- FirstTwo
  Limits = {2}
  Concurrency = 2
  Reuse = TRUE
  Signatures = {"a", "b"}
  MaxAttempts = 3
SPECIFICATION FairSpec
INVARIANTS
  SealedMemoryIsWhole
  MemoryIsOfOneAnalysis
  CheckpointsAreOnRecord
PROPERTIES
  AnswersAreKept
  AttemptEnds
  OnlyTheRecordedAnalysisWrites
CHECK_DEADLOCK FALSE
