CONSTANTS
  p1 = p1  r1 = r1  e1 = e1
  Child = k
  Nil = Nil
  Materials = {m1, m2}
  Runs = {}
  Edits = {}
  Variants = {}
  Projects = {}
  Servers = {s1, s2}
  Workers <- ServersAndChild
  Checkpoints = {}
  RunProject <- InOneProject
  EditRun <- OfOneRun
  VariantEdit <- OfOneEdit
  MaxAttempts = 2
  MaxActiveJobs = 1
  ConcurrentServers = TRUE
  MaxMaintenance = 1
SPECIFICATION SupSpec
INVARIANTS
  CapacityRespected
  OpenWorkerHoldsLease
SYMMETRY Interchangeable
CHECK_DEADLOCK FALSE
