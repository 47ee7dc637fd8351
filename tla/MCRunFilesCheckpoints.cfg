CONSTANTS
  p1 = p1  r1 = r1  e1 = e1
  Nil = Nil
  Projects = {p1}
  Materials = {}
  Runs = {r1}
  Edits = {e1, e2}
  Variants = {}
  Checkpoints = {c1, c2}
  Workers = {w1}
  RunProject <- InOneProject
  EditRun <- OfOneRun
  VariantEdit <- OfOneEdit
  MaxAttempts = 3
  MaxActiveJobs = 1
  LeasesLost = TRUE
  Requests = {}
  RevisionOf = e1
  Revision = e2
SPECIFICATION FilesSpec
INVARIANTS
  PublishedCheckpointOnDisk
  PinnedCheckpointLoads
SYMMETRY Interchangeable
CHECK_DEADLOCK FALSE
