\* Every source, four jobs over two names, an edit of the project, two broken
\* commands, passed deadlines or crashes.
CONSTANTS
  Names = {n1, n2}
  Values = {v1, v2}
  None = None
  MaxJobs = 4
  MaxFailures = 2
  MaxSaves = 1
SYMMETRY Symmetry
SPECIFICATION Spec
INVARIANTS
  TypeOK
  RecordedReleaseServes
  RestoreRunsPrevious
PROPERTY ImplementsTarget
CHECK_DEADLOCK FALSE
