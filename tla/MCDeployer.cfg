\* One Docker project, two concurrent handlers.
CONSTANTS
  Projects = {d1}
  HistoryProjects = {d1}
  Callers = {c1, c2}
  Artifacts = {a1, a2}
  NoProject = NoProject
  NoArtifact = NoArtifact
  MaxRows = 4
  MaxDbErrors = 1
SYMMETRY Symmetry
SPECIFICATION Spec
INVARIANTS
  SingleFlight
  NoGuardLeak
  CompensationIsCurrent
  OpenRowsHaveWorkers
  CleanStopLeavesNothingOpen
  SettledHistoryIsLive
PROPERTIES
  SuccessesInOrder
  ImplementsHistory
