CONSTANTS
  m1 = m1
  Nil = Nil
  Projects = {}
  Materials = {m1}
  Runs = {}
  Edits = {}
  Variants = {}
  Checkpoints = {}
  Workers = {w1}
  RunProject <- Empty
  EditRun <- Empty
  VariantEdit <- Empty
  MaxAttempts = 2
  MaxActiveJobs = 1
  Consumers = {c1}
  Deletions = {d1, d2}
  Unreliable = TRUE
  LeaseLoss = TRUE
  FailingWrites = {m1}
SPECIFICATION CatalogSpec
INVARIANTS
  ReferencedMaterialIsReady
  MemoryKnowsItsSubtitle
  AnsweredDeletionIsFinal
PROPERTIES
  ConsumersSeeOneMemory
SYMMETRY Interchangeable
CHECK_DEADLOCK FALSE
