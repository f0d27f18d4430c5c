\* The documented promise of a failed deployment, for a Windows service and with
\* no broken script and no crash: only the smoke test may fail.
CONSTANTS
  Builds = {b1, b2}
  Strategies = {"service"}
  NoRelease = NoRelease
  NoDir = NoDir
  NoBackup = NoBackup
  MaxJobs = 2
  MaxFailures = 0
SPECIFICATION Spec
INVARIANT OldVersionKeepsServing
CHECK_DEADLOCK FALSE
