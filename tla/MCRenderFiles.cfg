CONSTANTS
  p1 = p1  r1 = r1  e1 = e1
  s1 = s1  s2 = s2  q1 = q1  q2 = q2
  Nil = Nil
  Projects = {p1}
  Materials = {}
  Runs = {r1}
  Edits = {e1}
  Variants = {v1}
  Checkpoints = {}
  Workers = {w1}
  RunProject <- InOneProject
  EditRun <- OfOneRun
  VariantEdit <- OfOneEdit
  MaxAttempts = 4
  MaxActiveJobs = 1
  RenderedRun = r1
  RenderedEdit = e1
  Servers = {s1, s2}
  Readers = {q1, q2}
  ServerOf <- EachItsOwn
  Damage = TRUE
SPECIFICATION RendersSpec
INVARIANTS
  ReadyMasterIsRecorded
  FilesComeInPairs
  StreamPlaysWhatItVerified
  DeletedVariantLeavesNothing
SYMMETRY Interchangeable
CHECK_DEADLOCK FALSE
