\* Two concurrent handlers on one Docker project, no failing call.
CONSTANTS
  Projects = {d1}
  HistoryProjects = {d1}
  Callers = {c1, c2}
  Artifacts = {a1, a2}
  NoProject = NoProject
  NoArtifact = NoArtifact
  MaxRows = 3
  MaxDbErrors = 0
SPECIFICATION Spec
PROPERTY RollbackRestoresPrior
