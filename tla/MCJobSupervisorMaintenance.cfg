CONSTANTS
  p1 = p1  r1 = r1  e1 = e1
  Child = k
  Nil = Nil
  Materials = {m1}
  Runs = {}
  Edits = {}
  Variants = {}
  Projects = {}
  Servers = {s1}
  Workers <- ServersAndChild
  Checkpoints = {}
  RunProject <- InOneProject
  EditRun <- OfOneRun
  VariantEdit <- OfOneEdit
  MaxAttempts = 1
  MaxActiveJobs = 1
  ConcurrentServers = FALSE
  MaxMaintenance = 1
SPECIFICATION FairSupSpec
PROPERTIES QueueResumesAfterMaintenance
CHECK_DEADLOCK FALSE
