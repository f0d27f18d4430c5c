\* The documented promise of the seed files: a server is deleted and the process restarts,
\* one request at a time and nothing failing.
CONSTANTS
  h1 = h1
  h2 = h2
  a1 = a1
  Hosts = {h1, h2}
  Apps = {a1}
  NoHost = NoHost
  YamlServers <- MCYamlServers
  YamlProjects <- MCYamlProjects
  Local = h2
  Invalid = {}
  Admins = {o1}
  MaxEdits = 4
  MaxStops = 1
  MaxPasswords = 1
SPECIFICATION Spec
INVARIANT FilesAreNotReimported
CHECK_DEADLOCK FALSE
