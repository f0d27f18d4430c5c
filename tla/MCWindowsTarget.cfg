\* Every strategy, six jobs over three builds, three broken scripts or crashes.
CONSTANTS
  Builds = {b1, b2, b3}
  Strategies = {"iis", "service", "static"}
  NoRelease = NoRelease
  NoDir = NoDir
  NoBackup = NoBackup
  MaxJobs = 6
  MaxFailures = 3
SYMMETRY Symmetry
SPECIFICATION Spec
INVARIANTS
  TypeOK
  ServedIsLastSuccess
  RollbackTargetIsPrevious
PROPERTY LiveDirectoryIsSpared
CHECK_DEADLOCK FALSE
