CONSTANTS
  p1 = p1  r1 = r1  e1 = e1
  Child = k
  Nil = Nil
  Materials = {m1}
  Runs = {r1}
  Edits = {e1}
  Variants = {v1}
  Projects = {p1}
  Servers = {s1, s2}
  Workers <- ServersAndChild
  Checkpoints = {}
  RunProject <- InOneProject
  EditRun <- OfOneRun
  VariantEdit <- OfOneEdit
  MaxAttempts = 2
  MaxActiveJobs = 1
  ConcurrentServers = FALSE
  MaxMaintenance = 0
SPECIFICATION FairSupSpec
PROPERTIES EveryAttemptEnds
CHECK_DEADLOCK FALSE
