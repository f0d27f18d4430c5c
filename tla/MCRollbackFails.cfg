\* Two deployments and a rollback whose health check fails; nothing else breaks.
CONSTANTS
  Names = {n1, n2}
  Values = {v1}
  None = None
  MaxJobs = 3
  MaxFailures = 0
  MaxSaves = 0
SYMMETRY Symmetry
SPECIFICATION Spec
PROPERTY CurrentVersionKeepsServing
CHECK_DEADLOCK FALSE
