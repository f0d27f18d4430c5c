\* The pipeline: one Docker project, one Windows project, one handler at a time.  The feed:
\* one stream, one sink, a log of two lines.
CONSTANTS
  Projects = {d1, w1}
  HistoryProjects = {d1}
  Callers = {c1}
  Artifacts = {a1}
  NoProject = NoProject
  NoArtifact = NoArtifact
  MaxRows = 2
  MaxDbErrors = 1
  Viewers = {tab1}
  Sinks = 1
  LogLimit = 2
  MaxLines = 2
  MaxFaults = 2
SPECIFICATION FairSpec
PROPERTIES
  GuardEventuallyReleased
  AcceptedDeploymentEnds
  StreamsEnd
CHECK_DEADLOCK FALSE
