CONSTANTS
  p1 = p1  r1 = r1  r2 = r2  e1 = e1  e2 = e2  e3 = e3
  Nil = Nil
  Projects = {p1}
  Materials = {m1}
  Runs = {r1, r2}
  Edits = {e1, e2, e3}
  Variants = {v1}
  Checkpoints = {c1, c2}
  Workers = {w1}
  RunProject <- InOneProject
  EditRun <- RunOfEdit
  VariantEdit <- OfFirstEdit
  MaxAttempts = 3
  MaxActiveJobs = 1
SPECIFICATION Spec
INVARIANTS
  JobMirrorsAttempt
  OneActiveAttempt
  OwnerFollowsLatestAttempt
  CompleteRunHasItsEdit
  QueuedResumeKeepsItsCheckpoint
PROPERTY ActsAsSlots
SYMMETRY Interchangeable
