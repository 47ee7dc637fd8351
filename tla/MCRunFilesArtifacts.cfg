CONSTANTS
  p1 = p1  r1 = r1  e1 = e1
  Nil = Nil
  Projects = {p1}
  Materials = {}
  Runs = {r1}
  Edits = {e1, e2}
  Variants = {}
  Checkpoints = {c1, c2, c3}
  Workers = {w1}
  RunProject <- InOneProject
  EditRun <- OfOneRun
  VariantEdit <- OfOneEdit
  MaxAttempts = 3
  MaxActiveJobs = 1
  LeasesLost = FALSE
  Requests = {q1, q2}
  RevisionOf = e1
  Revision = e2
SPECIFICATION FilesSpec
INVARIANTS
  CompleteRunKeepsItsArtifacts
  
  RevisionLosesPlanToRivalOnly
SYMMETRY Interchangeable
CHECK_DEADLOCK FALSE
