\* Nine parts.  Three requests and two pushes; one stream, two sinks, a log of two lines;
\* three browsers; three processes and four keys; two monitored servers; two servers and a
\* project; two provisioning processes; two tunnel runs; two repositories
\* under two URLs.
CONSTANTS
  Deliveries = {push1, push2}
  Requests = {q1, q2, q3}
  NoDelivery = NoDelivery
  MaxArrivals = 5
  MaxFailures = 1
  Viewers = {tab1}
  Sinks = 2
  LogLimit = 2
  MaxLines = 2
  MaxFaults = 2
  Browsers = {b1, b2, b3}
  Informed = {b1, b2}
  Names = {root, other}
  AdminUser = root
  LockAfter = 2
  Window = 3
  LockFor = 1
  MaxTime = 5
  MaxBoots = 1
  Commands = {p1, p2, p3}
  MaxKeys = 4
  MaxKeyFaults = 2
  Targets = {t1, t2}
  Interval = 2
  Timeout = 2
  Retention = 6
  MaxClock = 8
  MaxLost = 1
  h1 = h1
  a1 = a1
  Hosts = {h1, h2}
  Apps = {a1}
  NoHost = NoHost
  YamlServers <- MCYamlServers
  YamlProjects <- MCYamlProjects
  Local = h2
  Invalid = {}
  Admins = {o1, o2}
  MaxEdits = 4
  MaxStops = 1
  MaxPasswords = 2
  Enabled = {"nssm", "self-service", "caddy"}
  Runners = {r1, r2}
  MaxMishaps = 2
  MaxRuns = 3
  Callers = {c1, c2}
  MaxTunnels = 3
  MaxTroubles = 3
  Clicks = {k1, k2}
  Repos = {g1, g2}
  Urls = {u1, u2}
  NoRepo = NoRepo
  MaxSecrets = 4
  MaxErrors = 2
SPECIFICATION Spec
INVARIANTS
  TypeOK
  OneDeploymentPerWindow
  DuplicateMeansStarted
  StreamIsFaithful
  SinksHearTheVerdict
  OneAdministrator
  GuessesAreBounded
  SecretsStayReadable
  UnfinishedKeyHasWriter
  StaleMeansNotPolled
  OrphansComeFromOverlap
  DeletedStaysDeleted
  OnboardedIsReachable
  GoodRunsSatisfyTheChecks
  ProvisionedIsReachable
  LinkedPushesVerify
CHECK_DEADLOCK FALSE
