SPECIFICATION MigrationSpec
CONSTANTS
  Servers = {s1, s2}
  Roots = {ra, rb}
  MaxMigrations = 1
  MaxLaunches = 2
  MaxWrites = 1
  SyncFails = FALSE
  PatientStarts = TRUE
SYMMETRY Interchangeable
CHECK_DEADLOCK FALSE
INVARIANTS
  MigrationTypeOK
  PointedRootIsWhole
  NoWriteIsLeftBehind
  OperationsAreOnPointedRoot
  OneWorkerPerDestination
  StartIsNeverRefused
