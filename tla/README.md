# A verification project for Winify

Winify is a self-hosted control center: one Go process that takes webhooks and
clicks, builds and releases projects on Windows (IIS, Windows services) and Linux
(Docker) servers, points a Caddy reverse proxy at them, and keeps everything it
knows in one SQLite file. These modules model what happens when its handlers,
worker goroutines, remote calls, processes, crashes and restarts meet in an order
nobody wrote a test for.

Paths below are relative to the repository; `deployer.go` is
`internal/deployment/deployer.go`, `store.go` is `internal/models/store.go`,
`caddy.go` is `internal/proxy/caddy.go`, `docker.go`, `iis.go` and `winservice.go` are
in `internal/deployment`, `admin.go`, `api.go`, `webhook.go`, `handlers.go` and
`deploy_stream.go` in `internal/server`, `auth.go` and `credentials.go` in
`internal/auth`; `main.go` is `cmd/control-center/main.go`.

## 1. Inventory

| Component | State | Operations | Interacts with | Hard part | Correct when |
|---|---|---|---|---|---|
| Deployer pipeline (`deployer.go`) | `inFlight` map, worker goroutines and their jobs | `Trigger`, `Rollback`, `run`, `Stop` | called by handlers; writes history; drives a target; registers a route | two callers racing; a read used after another job ended; errors at every database call; deadlines; shutdown | one job per project, no leaked guard, every row accounted for |
| Deployment history (`store.go`) | `deployments` table | insert, status, finish, list, prune, reconcile at boot | read by rollback and the dashboard | crash between two writes; pruning what a rollback needs | rows end once, in order, and tell the truth about what is live |
| Process life cycle (`main.go`) | process state | boot, graceful stop, crash | handlers, deployer, database | handlers that start workers while the server drains | a clean stop leaves nothing open |
| Reverse proxy client (`caddy.go`) | Caddy's routes, `Caddy.mu` | `Register`, `Deregister` | admin handlers, deployment workers | DELETE and POST are two requests; either can fail or be cancelled | a host is never left without the route it had |
| Project handlers (`admin.go`, `api.go`) | `projects`, `retired_proxy_domains` | save, save environment, delete, deploy | proxy client, deployer | stale rows written back; two projects on one host | stale routes are tracked until removed |
| Webhooks (`webhook.go`) | `webhook_deliveries` | receive a push | deployer | retries, concurrent copies, hang-ups, a crash between two writes | a push deploys once; a duplicate answer is justified |
| Docker target (`docker.go`) | containers, images, Compose projects | deploy, rollback, restore | deployer | restore with an expired deadline; restore that fails | what serves is what the history says |
| IIS target (`iis.go`) | live directory, backups, slots, marker | deploy, rollback, recover, swap | deployer | each script may fail half way; recovery may fail | a failed deployment leaves the old release live |
| Windows service target (`winservice.go`) | service, binaries, backups | deploy, rollback, recover | deployer | as for IIS, plus uploads in chunks | as for IIS |
| Target factory, runners, git credentials | connections | connect, run a script | targets | timeouts the transport ignores | none of its own |
| Shared variables | none (pure) | expand references | deployer | cycles, missing names | expansion is the intended one |
| Sessions, login, registration (`auth.go`) | users, sessions, failure counts | register, log in, log out | handlers | two first registrations; a slow hash between check and record | one first administrator; guessing is bounded |
| Credentials vault (`credentials.go`) | master key file | create, encrypt, decrypt | handlers, deployer, the command line | several processes create the key; a write fails half way | all use one key |
| REST API and tokens (`api.go`, `apitokens.go`) | tokens | the handlers' operations over JSON | as the handlers | as the handlers | as the handlers |
| Server inventory (`main.go`, `admin.go`, `onboard.go`) | `servers`, `projects`, credentials | import at boot, save, delete, onboard | projects refer to servers | a delete racing a save; an import that stops half way | no project on a missing server; the files are imported once |
| Deployment log stream (`deploy_stream.go`) | an offset per viewer | poll, send | the log column | the log is trimmed under the offset; the process dies first | no line lost or repeated; it ends |
| Notifications (`notify/`) | none | send | deployer | one goroutine per event | no sink hears a verdict the history does not have |
| Monitoring (`monitoring/`) | samples | poll, store, prune | runners, database | collectors that hang; ticks dropped | a host that hangs makes no card stale |
| Bootstrap and setup (`bootstrap/`) | recorded step states | check, apply, record | the host, another process | a death between two commands of a step | a run without error satisfies every check |
| Tunnel (`tunnel/`) | none; the provider's tunnels and records | provision | bootstrap, the provider | an answer is lost; two runs | what was provisioned is reachable |
| GitHub App client (`githubapp/`) | webhook secret, link of a project | connect, report a status | handlers, GitHub | secret, hook and project are three writes | pushes of the linked repository verify |
| Project detection, assistant, configuration, audit log, migrations, service wrapper | see `PROJECT.json` | | | | |

`PROJECT.json` lists every component with what is modelled of it and why the rest
is not, and, under `hazards`, what is hard to test in this code, each at its line
with the properties that watch it.

## 2. Modules

| Module | Models | Variables |
|---|---|---|
| `DeployHistory` | the abstract promise about the deployments table | status, owner, responsible workers |
| `Deployer` | `deployer.go`, the table it writes, the process around it | 9 |
| `Deployer_proofs`, `DeployerHistory_proofs` | TLAPS proofs about it: the guard; the table and what is live | |
| `DeployTarget` | what the deployer relies on in a target | 3 |
| `DockerTarget` | `docker.go`: one project's images, Compose file, containers and successes | 14, 2 of history |
| `DockerTarget_proofs` | TLAPS proofs about it | |
| `WindowsTarget` | `iis.go` and `winservice.go`: a project's directories, site, service and backups on its server | 16, 4 of history |
| `WindowsTarget_proofs` | TLAPS proofs about it | |
| `ProxyRoutes` | saves, deletes and deployments against Caddy's routes and retired domains | 12, 4 of history |
| `ProxyRoutes_proofs` | TLAPS proofs about it | |
| `WebhookDelivery` | replay protection of one project's push webhooks | 8 |
| `DeployFeed` | the log of a deployment, its streams and its notifications | 10, 2 of history |
| `Access` | first registration, sign-in and its backoff | 6, 1 of history |
| `MasterKey` | the key file that several processes share | 9, 2 of history |
| `MasterKey_proofs` | TLAPS proofs about it | |
| `Monitoring` | the poller and the age of its samples | 11, 2 of history |
| `Inventory` | servers, projects, credentials: import, editing, onboarding | 14, 5 of history |
| `Installation` | provisioning of a host in checked steps | 8, 2 of history |
| `Tunnel` | provisioning of a tunnel at the provider | 8, 1 of history |
| `GitHubConnect` | linking a project to a repository under a URL of the dashboard | 7, 1 of history |
| `MCDeployer`, `MCProxyRoutes`, `MCDockerTarget`, `MCWindowsTarget`, `MCInventory` | instances of one module | |
| `MCLiveness`, `MCControlPlane` | several modules in one run | |
| `ControlPlane_proofs`, `ControlPlaneStreams_proofs` | TLAPS proofs about the parts of `MCControlPlane` | |

`MCControlPlane` and `MCLiveness` take modules with INSTANCE and put them side by
side. The components in them share no variable, so an interleaving of two of them
shows nothing that each alone does not; the initial state therefore chooses a `part`
and only the actions of that part happen. The assumptions of the instantiated modules
are definitions (`FeedBounds`, `KeyBounds` and so on) that the module of the run
states in an ASSUME.

How the modules fit together: `Deployer` excludes two jobs of one project, which the
targets, `ProxyRoutes` and `DeployFeed` rely on; `DeployTarget` is what `Deployer` says
of a target and `DockerTarget` implements; `WebhookDelivery` sees the deployer as a guard
that is busy or free; `Inventory` holds the rows `ProxyRoutes` edits the domain of.

### 2.1 Deployer

`rows`, `lastId` are the `deployments` table and its AUTOINCREMENT counter,
`inFlight` is the guard map, `call[c]` is where handler `c` stands inside `Trigger`
or `Rollback`, `job[i]` is the worker of row `i` with its `deployJob`, `proc` is the
process. `live[p]` is not a variable of the program: it is the release that serves a
Docker project, which the target's calls change. `lost` records the rows whose
status write failed, so that a property can except exactly those.

One action is one database call, one guard operation or one target call, in the
code's order: `BeginTrigger` (LoadOrStore), `ReadPreviousArtifact`, `CreateDeployment`
or `CreateDeploymentFails` for `Trigger`; `BeginRollback`, `ReadSuccesses`,
`GuardRollback` and the same two for `Rollback`, whose reads come first; `Spawn`,
`SetRunning`, `TargetActs`, `TargetSucceeds` or `TargetFails`, `RecordArtifact`,
`Register`, `Finish`, `Release` for `run`; `Shutdown`, `StopDeployer`, `ExitClean`,
`Killed`, `Boot` for `serve`. Every database call has its failing branch, taken at
most `MaxDbErrors` times; in each the code's reaction is the model's (some return,
some log and go on).

A Windows project records the backup of the release before, and chooses its rollback
source on the server, so `live` is not kept for it; the rest of the pipeline is the
same, and both kinds are in the liveness run.

Abstractions: notifications and log lines change nothing that a later step reads;
commits and image tags are members of `Artifacts`; `TargetActs` lets a running
pipeline leave any candidate, the previous release or nothing live, at any time, so
that failing or dying at any point of it is covered without its steps.

### 2.2 ProxyRoutes

`domain` is the `projects.proxy_domain` column, `retired` the table of retired
domains, `route` what Caddy serves under each route id, `handler` and `job` the
handlers and workers in progress, `mu` the mutex of the client. `RouteId` maps a
domain to its id as `routeID` does: several spellings of a host share one route.
`served`, `named`, `withdrawn` and `untracked` are history variables: where the last
successful job of a project registered it, which domains a project was ever given
or deployed to, which were ever taken from it, and the routes the code forgets.

Each HTTP request to Caddy is a step, can fail before or after it had its effect,
and always fails once its context has been cancelled; `Register` is snapshot,
delete, post and, on failure, restore; `cleanupRetiredProxy` is list, deregister,
delete the mark. A crash can happen between any two of them.

### 2.3 WebhookDelivery

`record` is a row of `webhook_deliveries`, absent, fresh, or stale once
`received_at` is more than ten minutes old; `request` is each HTTP request past its
checks; `busy` is the deployer's guard, which other triggers also take. A hang-up
makes every later database call of the request fail, because the handler uses the
request's context.

### 2.4 WindowsTarget

`dir` is what the live directory and the second slot of a project hold: a build,
nothing, no files, or a torn mixture left by a copy that broke. `site` is the IIS
site's physical path and `marker` the slot the marker file names; `up` says whether
the app pool, the service or the static Caddy runs; `definition` is the release whose
settings NSSM was given and `loaded` what the running process started with, both only
for services; `backup` is what `latestBackupScript` would choose. `job` is the deployment
or rollback in progress, a position in one of the script lists of `Scripts`, which are
the pipelines of `Deploy`, `Rollback`, `deployBlueGreen`, `rollbackBlueGreen`,
`recoverLive` and `swapBack` in the code's order. Jobs of one project do not overlap,
which is `SingleFlight` of `Deployer`.

One action is one script. It works, or breaks with none or part of its effect done
(`Works` and `Breaks`; `MaxFailures` bounds the latter and the crashes), and the job
then returns or goes to its recovery as the code does. A smoke test may fail and
a service may not come up without counting as broken: that is the release's fault.
`SwitchBlueGreen` saves the project with the other value of `iis_blue_green`.

`released` and `previous` are history: what the last successful job left, and what was
released before it as long as a rollback should find it. The code does not undo every
failure, and the ones it does not undo are named, one by one, where they happen
(`excuse`, `excused`): a recovery script that breaks, a crash after the first live
change, a failed rollback to a backup, which recovers with that backup and not with
what was live, a service that was given its new settings, an existing site
repointed by `ensureIISScript` before validation, and a blue-green job that found a
marker naming a slot the site does not serve. An excuse lasts until the next
successful job.

### 2.5 DockerTarget and DeployTarget

`images` maps a tag to the environment it was built with, `file` is what the Compose
file in the project's directory would run, `running` what the containers run, `checkout`
whether the directory is a clone. A job is a position in a list of remote commands
(`Scripts`), per source and kind, in the order of `deployImage`, `deployDockerfile`,
`deployCompose` and their rollbacks. Each command works, or breaks with none or part of
its effect, and breaks for certain once the job's context has expired. A deployment
whose `up` or health check failed becomes a restore (`Restored`): the rollback script of
the artifact the deployer read at the trigger, under its own deadline. The environment
is data the properties tell apart, because a restore runs an old artifact with the
project's present environment; `RestoreRunsPrevious` promises the artifact only.

The deployer around the target is modelled as far as it decides what is restored: `tags`
are the artifacts the newest two successes have in the history. A deployment is given
the newest of them, or none when the read fails (deployer.go:92); a success stores its
artifact in one write, which may fail and is only logged (deployer.go:268); a failed proxy
registration, or a failed last write, makes a failed row of a release that is up
(deployer.go:273). A rollback takes the row `previousSuccessful` chooses (`RollbackRow`) and
refuses one without an artifact, but for a Compose project whose row has its commit
(`RowArtifact`, `Refuse`). `excused` is set by the failures the code does not undo: a
rollback or restore that fails, a deployment that was given nothing to restore, a release
that came up under a failed row. It lasts until the next success or restore. Pruning
(store.go:1116) is left to `Deployer`.

`DeployTarget` has three variables and four actions, and `ImplementsTarget` shows that a
Docker job does nothing else.

### 2.6 DeployFeed

Lines are numbers, so that order and loss are visible, and the log keeps the last
`LogLimit` of them (`CapStoredText`). A stream has an offset into the stored log, as the
handler has; a browser keeps what it was sent. Each notification is a goroutine that
goes from sink to sink (`Multi`); a sink that does not answer uses up the event's
deadline, and those after it may hear nothing. Boot reconciles the row, or fails to, which
is only logged, and tells nobody. The worker is "dead" with its process, which boots again,
or "gone": a worker whose first status write failed gives up in a process that goes on, and
its row stays open (`unwritten`).

### 2.7 Access and MasterKey

`Access` splits a registration at `CreateFirstUser`, whose one statement decides, and a
sign-in at the password hash, which is slow: `LoginRetryAfter` is read before it,
`RecordLoginFailure` or `ClearLoginFailures` runs after it. The clock counts in units
of `LockFor`. `MasterKey` has one action per system call of `LoadMasterKey` (read,
`O_CREATE|O_EXCL`, write, sync) in any number of processes, with failing calls, deaths
and power cuts that lose what was not synced. `withdrawn` records that a key was
removed after another process had read it, which the code does when a sync fails.

### 2.8 Monitoring

The clock stops at a timer that is due, so that a cycle, a deadline and a tick happen
when the code says. A collector that outlives its deadline is abandoned and may hang
for ever: it has no further action. The ticker's channel holds one tick. The card of a
polled server stays fresh only if the configured timeout exceeds neither the interval nor
the retention: a cycle prunes at its end what it stored longer ago than the retention,
and `config.go` asks of the three only that each be positive.

### 2.9 Inventory

`seedInventory` is one statement per action, with the `log.Fatalf` of an invalid entry or an
unknown server. Before it serves, the process may provision the host (`provisionIfNeeded`),
whose step local-target registers the server of this machine, `Local`, if it is not there
(`ProvisionLocal`); `winify bootstrap` does the same from another process (`RunBootstrap`).
A request checks in one step and writes in another; onboarding, under
`onboardMu`, stores the credential and then registers the server. Hosts have a current
password, which somebody may change.

### 2.10 Installation, Tunnel, GitHubConnect

`Installation` runs the list of steps `New` builds, which appends each step the options
ask for; a step has things it leaves (`Leaves`) and things its check looks at (`Probed`),
which for three of them are fewer. Two processes may provision one host at once, and take
from each other: a run that finds a service of that name when it installs its own deletes it
first (`DeleteService`). `uninstalled` has the runs that did so and have not put the service
back; `damaged` is for what an administrator takes away.

`Tunnel` and `GitHubConnect` send one request after the other to an external service
modelled from how the code uses it: any request may fail before or after it took effect, and
an operator may delete things there. A repository has one hook for each URL it was connected
under (`Hooks`): the URL is `public_url`, or else whatever name and scheme the request came
with (github.go:52), and `EnsurePushHook` looks at no other hook.

## 3. What the runs check

| Run | Instance | Question | Result |
|---|---|---|---|
| `deployer_safety` | 1 Docker project, 2 handlers, 2 artifacts, 4 rows, 1 failing call | guard, history, live release under races, failures, crash, restart | holds |
| `liveness` | pipeline: 1 Docker and 1 Windows project, 1 handler, 2 rows, 1 failing call; feed: 1 stream, 2 lines, 2 faults | guards are released, accepted deployments are decided, streams end, but for hung targets and lost status writes | holds |
| `proxy_routes` | 2 projects, 3 spellings of 2 hosts, 2 handlers, 4 requests, 2 failures | which routes and marks are guaranteed | holds |
| `docker_target` | every source, 4 jobs, 2 names, 2 environments, 1 edit, 2 faults (a command, a read or write of the history, a deadline, a crash) | what runs after a success, after a failure; the target implements `DeployTarget` | holds |
| `windows_target` | 3 builds, all strategies, 6 jobs, 3 broken scripts or crashes | what a failed deployment leaves live, what a rollback would find, which directory is written | holds |
| `control_plane` | nine parts, below | one question or two per component | holds |
| `rollback_restores_prior` | 2 handlers, no failing call | a rollback restores what the history says when it is accepted | violated |
| `route_outage` | 1 project, 1 handler, no failing call | a deployed project with a domain has a route | violated |
| `route_restore` | as above | a registration that gives up leaves a route | violated |
| `old_version_keeps_serving` | a Windows service, 2 jobs, nothing broken | a failed deployment leaves the old version serving | violated |
| `rollback_keeps_current` | Docker, 3 jobs, only a health check fails | a failed rollback leaves the current version serving | violated |
| `inventory_reimported` | 1 request at a time, nothing fails | the files are imported on the first run only | violated |

The properties of the deployer are `SingleFlight` and `NoGuardLeak` (the guard),
`CompensationIsCurrent` (the artifact read at the trigger is still the newest
success when a failed pipeline uses it), `OpenRowsHaveWorkers` and
`CleanStopLeavesNothingOpen` (no row is forgotten), `SettledHistoryIsLive` (history
against reality), `SuccessesInOrder` (attempts succeed in the order of their ids),
`ImplementsHistory` (refinement of `DeployHistory`), and the two liveness properties
`GuardEventuallyReleased` and `AcceptedDeploymentEnds`. Those of the routes are
`SnapshotIsCurrent` (what the mutex is for), `UncontestedDomainIsServed`,
`StaleRouteIsTracked` and `MarkOutlivesRoute`; of the Windows targets, `ServedIsLastSuccess`,
`RollbackTargetIsPrevious` and `LiveDirectoryIsSpared`; of the Docker target,
`RecordedReleaseServes`, `RestoreRunsPrevious` and `ImplementsTarget`.

In `control_plane`:

| Part | Instance | Properties |
|---|---|---|
| webhooks | 2 pushes, 3 concurrent requests, 5 arrivals, 1 failure | `OneDeploymentPerWindow`: one deployment while the record of a push is fresh. `DuplicateMeansStarted`: a duplicate answer is justified |
| feed | 1 stream, 2 sinks, 2 lines, 2 faults | `StreamIsFaithful`: in order, at most once, and all of it before the verdict. `SinksHearTheVerdict` |
| accounts | 3 browsers, 2 with the setup token, a lock after 2 failures, time up to 5 locks | `OneAdministrator`, `GuessesAreBounded`: the backoff bounds guessing although requests overtake it |
| vault | 3 processes, 4 keys, 2 faults | `SecretsStayReadable`, `UnfinishedKeyHasWriter` |
| poller | 2 servers, 4 intervals, 1 fault | `StaleMeansNotPolled`: a card is stale only if nobody polls |
| stock | 2 servers, 1 project, 2 requests, 4 edits, 1 restart | `OrphansComeFromOverlap`; `DeletedStaysDeleted`: but for the machine itself; `OnboardedIsReachable` |
| setup | 3 steps, 2 processes, 3 runs, 2 mishaps | `GoodRunsSatisfyTheChecks`: but for a service another run deleted |
| edge | 2 runs, 3 tunnels, 3 failures or deletions | `ProvisionedIsReachable` |
| connecting | 2 requests, 2 repositories under 2 URLs, 4 secrets, 2 errors | `LinkedPushesVerify`: one undisturbed connection heals what failed ones left of its hook |

Each is stated in words above its definition. The exceptions written into a property
are the things the code does not promise, each one visible in a behaviour: rows whose
status write was lost, routes of deleted projects, a mark that could not be written, a
release that failed, a target that hangs, a deployment that was given no artifact to
restore, the server of this machine, a hook of another URL, a service another run deleted, a
key withdrawn after it was read, a project saved while its
server was being deleted, a tunnel deleted under a record that names it.

### Disagreements found

* `RollbackRestoresPrior`: `Rollback` reads the history (deployer.go:131) before it
  takes the guard (deployer.go:138). One asked for while a deployment runs and
  accepted after it restores according to the old history.
* `DeployedProjectIsReachable`: saving a domain in another spelling retires the old
  spelling, which is the same route; the next deployment registers and then removes
  it. So does changing a domain and changing it back.
* `RegistrationIsCompensated`: the restore of a failed registration uses the context
  whose end caused the failure (caddy.go:118).
* `OldVersionKeepsServing`: the recovery of a Windows service does not stop the new
  process before it copies the backup and starts the service (winservice.go:475), so
  a release that came up and failed its smoke test keeps serving.
* `CurrentVersionKeepsServing`: a Docker rollback replaces the containers, then checks
  their health, and restores nothing when the check fails (docker.go:192, docker.go:222).
* `FilesAreNotReimported`: the seed files are imported whenever their table is empty
  (main.go:357, main.go:380), also after an operator emptied it.

Known limits that have no run of their own, each an exception of a property:

* A rollback to a backup while the IIS site is pointed at the second slot (iis.go:167)
  restores files in a directory that is not served, and succeeds.
* The active slot is read from the marker file, which a deployment in place does not
  update (iis.go:284, iis.go:429): a later blue-green deployment may write over the
  directory the site serves (`LiveDirectoryIsSpared`).
* A webhook delivery is new again after ten minutes (store.go:1103), so a resend after
  that deploys again; `OneDeploymentPerWindow` is about the window.
* The checks of the `caddy`, `tunnel` and `self-service` steps look at less than the steps
  leave, so a service whose settings an earlier run failed to write passes.
* `ensureDNS` keeps any record of the host, also one that names a deleted tunnel.
* Onboarding a server that is already registered discards the password it was given.
* A target that hangs keeps the guard and the open row, and its streams open, for as long as
  it hangs: neither the SSH handshake (ssh_client.go:67), nor a local script's open pipes
  (local_runner.go:48), nor WinRM (scheduler.go:127) end with the deadline.
  docs/system-design.md:219 and website/docs/reference/config.md:89 promise a bound.
* A worker whose first status write fails (deployer.go:221) leaves its row open in a running
  process; the next boot decides it, and until then its streams poll.
* A deployment restores nothing when the read of the history failed (deployer.go:92) or the
  last success could not store its artifact (deployer.go:268).
* A boot that provisions registers this machine again after an operator deleted it
  (main.go:653, main.go:688).
* Two runs of the setup may delete each other's service (steps.go:172); one of them may have
  ended without an error.
* A repository connected under another name of the dashboard gets a second hook; the first
  keeps its old secret, and its pushes are refused (githubapp.go:167).
* The log offset of a stream means nothing once the stored log was trimmed.

### Bounds

Four rows let a project succeed, fail, roll back and deploy again, with two of them
accepted around a crash; two handlers are the smallest number that race and, as a
guard is per project, a second project adds no interaction (the proofs below hold
for any number). One failing call suffices to reach every error branch, and the
bound counts over a whole behaviour, restarts included. Two artifacts
distinguish the release to restore from the one that failed. In `proxy_routes` four
requests let a domain change twice around two deployments; two failures let a
request and its compensation both fail. Six Windows jobs let a project
go to blue-green slots, back in place and to slots again with a rollback at each
end, and three failures let a script, its recovery and a later job break; three builds
tell the live release, the one before it and the failed one apart. Four Docker jobs are
two deployments, a failure and a rollback of what came before; two faults let a
deployment and its restore both fail, and one edit changes the source or the environment
between them.

In `control_plane`, five arrivals of two pushes give a retry, a concurrent copy and a
resend of the same push; two lines over a log of two, with the concluding line, make the
log overflow; three browsers put one more request past the backoff check than it takes
to lock, and time lasts for several locks and one window; three processes let one
create the key, one lose the race and one come later, and four keys let a removed one be
replaced; the clock runs four intervals, twice what makes a card stale, with a retention
that is reached; the edits let a server be deleted, added and onboarded around a project
and a restart; the enabled steps are one without parts, one whose last
and one whose middle and last things its check does not see; three tunnels let a run find one it did not make;
four secrets let two requests overlap twice.

Symmetry is used in runs without liveness properties, over model values that the
modules treat alike: handlers, artifacts, projects of one kind, requests, names.
Deadlock is checked in `deployer_safety` and `rollback_restores_prior`; elsewhere the
bounded requests, jobs and faults end behaviours, and in `liveness` what must not stop
is stated as liveness.

### Fairness

`Deployer` makes weakly fair each handler that is inside a call, each worker outside its
target, and the boot. Handlers are goroutines whose database calls return; so do a
worker's, and its calls of Caddy, whose client has a timeout; the service manager restarts a
dead process (packaging/install.sh:109). A call on the target (`AtTarget`) is owed nothing,
although the job's context has a deadline: `newTarget` may sit in an SSH handshake that
takes neither the context nor a deadline, a local script in `cmd.Run`, which waits for its
pipes, and WinRM does not honor cancellation promptly. `GuardEventuallyReleased` and
`AcceptedDeploymentEnds` therefore name a worker that is at its target as the one thing,
next to a lost status write, that may keep a guard or an open row for ever; they say that no
other step, error path, stop or crash does.

New requests, shutdowns, crashes and `TargetActs` are never owed: a stop or a crash can
pre-empt progress for ever, and `AcceptedDeploymentEnds` holds all the same because the boot
decides what a crash interrupted. `StopDeployer` and `ExitClean` carry no fairness either: a
draining process keeps its workers running, and they decide their rows whether or not it
ever exits.

`DeployFeed` makes fair its worker outside the target and the poll of each open stream,
which a ticker drives. A boot is not fair there, because no process is owed its death: a
stream open in a living process must end by what the worker, or an earlier boot, wrote.
`StreamsEnd` excepts a target that does not answer and a status write that failed.
`MCLiveness` states the same fairness for the part that is looked at.

## 4. What is proved

Every invariant and every action property that a passing run checks is also a theorem, for all
values of the constants, and so are both refinements. Each theorem has the form
`Spec => []P` or `Spec => [][A]_vars` and rests on an inductive invariant that contains
the property; below, what that invariant has to say besides and why.

### The deployer (`Deployer_proofs`, `DeployerHistory_proofs`)

For any sets of projects, handlers and artifacts and any bounds, under the assumptions
named in `Deployer`: Docker projects are projects, the null values are none of the real
ones, bounds are naturals.

| Theorem | Proves |
|---|---|
| `TypeCorrect` | `TypeOK` |
| `OneDeploymentPerProject` | `SingleFlight` |
| `GuardNeverLeaks` | `NoGuardLeak` |
| `OpenRowsAreOwned` | `OpenRowsHaveWorkers` |
| `StopIsClean` | `CleanStopLeavesNothingOpen` |
| `CompensationStaysCurrent` | `CompensationIsCurrent` |
| `HistoryIsLive` | `SettledHistoryIsLive` |
| `RowsSucceedInOrder` | `SuccessesInOrder`, an action property |
| `HistoryIsImplemented` | `ImplementsHistory`: `Deployer` refines `DeployHistory` |

`SingleFlight` is not inductive: nothing in it says that a project with an owner is
in the guard map, so a second handler could enter. The inductive invariant is
`IInv == TypeOK /\ GuardInv /\ RowInv /\ HaltInv`. `GuardInv` adds that owners are in
flight and that every project in flight has an owner. `RowInv` says that rows above
`lastId` are unused, which an insert needs to give the guard from the handler to the
worker without disturbing another, and how far a worker is in terms of its row's
status. `HaltInv` says that a process that has ended owns nothing, which a boot
needs. Four lemmas carry the argument: an owner takes the mark, an owner drops it as
a handler or as a worker, or nothing about owners changes; each action is one of
them, except the insert, which moves the mark between owners, and the end of the
process, which clears everything.

`HInv` of `DeployerHistory_proofs` builds on it: since nobody else works on a project
while a worker does, the row of a worker is the newest of its project (`NewestInv`), which
is `SuccessesInOrder` once a row succeeds; a row is decided or its write lost before its
worker releases the guard (`OutcomeInv`); the artifact a worker or a handler has read is
the newest success, the worker's own row aside (`CurrentInv`), because no other row of the
project can succeed meanwhile; and the artifact the newest row recorded is the one that is
live (`LiveInv`). The refinement follows, one lemma for each kind of step.

### Targets and routes

| Theorem | Proves |
|---|---|
| `DockerTypeCorrect`, `RecordedReleaseRuns`, `RestoresAreComplete` | `TypeOK`, `RecordedReleaseServes`, `RestoreRunsPrevious` of `DockerTarget` |
| `TargetIsImplemented` | `ImplementsTarget`: `DockerTarget` refines `DeployTarget` |
| `WindowsTypeCorrect`, `LastSuccessIsServed`, `RollbackFindsPrevious` | `TypeOK`, `ServedIsLastSuccess`, `RollbackTargetIsPrevious` of `WindowsTarget` |
| `ServedSlotIsSpared` | `LiveDirectoryIsSpared`, an action property |
| `RoutesTypeCorrect`, `SnapshotStaysCurrent`, `StaleRoutesAreTracked`, `UncontestedDomainsAreServed` | `TypeOK`, `SnapshotIsCurrent`, `StaleRouteIsTracked`, `UncontestedDomainIsServed` of `ProxyRoutes` |
| `MarksOutliveRoutes` | `MarkOutlivesRoute`, an action property |

Assumed: in `DockerTarget`, that there are names and environments and that `None` is none
of the values it stands in for; in `WindowsTarget`, that the markers that stand for missing
or torn directories are no builds, that `NoDir` is no directory, and which strategies there
are; in `ProxyRoutes`, that `RouteId` maps domains to ids and that the null values are none
of the real ones; everywhere, that bounds are naturals.

A target's job runs a script. `ScriptOrder` of each module states once what the scripts have
in common: which command may follow which. From it, `HostInv` (Docker) and `StageInv`
(Windows) say what a job has made of the host by the time it comes to a command, `SteadyInv`
that the containers are those of the last success until a job touches them, and `OwedInv`
where the release owed to visitors is while a job is under way: served, or in the backup or
the other slot, and where a recovery would take it from. `PrevInv` does the same for the
release before.

In `ProxyRoutes`, `LockInv` says that `Caddy.mu` is held by the one job between its
snapshot and its last request, which makes the snapshot current. `TrackedInv` follows
a route that is not for the configured domain from the save that outdated it to the mark
that removes it, also through the snapshot of another job that may put it back, and
`ServedInv` relates what the last job made public to the names that were given away or
withdrawn since.

### The parts of `MCControlPlane`

`PartsKeepTheirSpecs` proves that the combined run's specification implies that of each
module in it: a step of one part leaves the others' variables alone. So an invariant that a
module's specification implies holds in the run. `Bounds`, assumed of the constants, is the
conjunction of the modules' own bounds. `MasterKey_proofs`, which needs only `KeyBounds`,
is taken in by INSTANCE.

| Theorem | Proves | What makes it inductive |
|---|---|---|
| `SecretsAlwaysReadable`, `CredentialsStayReadable` | `SecretsStayReadable` | `WriterInv`: `O_EXCL` lets one process at a time between creation and close; `KeyInv`: a process past the read has a key, and a power cut leaves whole keys |
| `UnfinishedKeyAlwaysHasWriter`, `UnfinishedKeyIsFinished` | `UnfinishedKeyHasWriter` | the same |
| `PushesStartOnce`, `DuplicatesWereStarted` | `OneDeploymentPerWindow`, `DuplicateMeansStarted` | `OwnerInv`: a record has one owner, stays fresh and has started nothing while it has one |
| `OneFirstAdministrator` | `OneAdministrator` | `AdminInv`: without accounts nobody registered |
| `GuessingIsBounded` | `GuessesAreBounded` | `GuessInv`, below |
| `TunnelsAreReachable` | `ProvisionedIsReachable` | `EdgeInv`: there is at most one tunnel, so what a run saw requests ago is still there unless somebody deleted it |
| `LinkingHeals` | `LinkedPushesVerify` | `AloneIsCurrent`: a request that met no other knows at every step what the vault and the hook of its URL hold |
| `OrphansNeedAnOverlap`, `RestartsResurrectNothing`, `OnboardingStoresThePassword` | `OrphansComeFromOverlap`, `DeletedStaysDeleted`, `OnboardedIsReachable` | `StockInv`: what a request that was checked, an import that was begun or an onboarding half done may still rely on; a deleted server that is back is the machine itself, or the table was emptied |
| `CardsStayFresh` | `StaleMeansNotPolled` | `PollInv`: cycles begin at most an interval apart, and each server has a sample of the last one or is still awaited and has one of the cycle before |
| `StreamsShowTheLog`, `SinksHearTheHistory` | `StreamIsFaithful`, `SinksHearTheVerdict` | `FeedInv`: the stored lines are in order, a stream has sent exactly the prefix it is at, a post says what its row said |
| `SetupIsComplete` | `GoodRunsSatisfyTheChecks` | `SetupInv`: what the checks of the steps behind a run look at, and what it has left of the step it applies, is on the host, or is the service while a run that deleted it has not put it back |
| `TypesAreKept` | `TypeOK` of all parts | `CountInv`: the deployments started for a push and its requests in progress are together no more than arrived |

The bound on guesses is not inductive because requests past the check still add to the
count. `GuessInv` counts them with it: once locked, the count and the requests in progress
together stay below what the time since the first failure allows, and the count alone below
what was allowed at the failure that locked. One round of requests can enter when a lock
runs out, and by then the allowance has grown by one round.

The proof found what the run did not: `StaleMeansNotPolled` did not hold for a retention
shorter than the timeout, a configuration the instance did not have, and the property now
names that condition. `SetupIsComplete` needs the options to ask for at least one of the
eight steps of `New`, which always lists the first two; `InstallationBounds` says so.

### Only model-checked

Liveness (`GuardEventuallyReleased`, `AcceptedDeploymentEnds`, `StreamsEnd`): fairness,
ENABLED and leads-to are out of the prover's reach. The properties that are violated by the
code have runs that show it, and no theorem.

## 5. Plan

All modules of the first plan are in place, and every safety property of the runs is
proved. What remains:

1. The safety part of the liveness arguments: that a worker of the deployer, and a stream of
   the feed, always has a step or has ended, as invariants that need no fairness.
2. Which exceptions the properties of the routes and the targets need: that the histories
   (`withdrawn`, `untracked`, `excused`) are set by the failures they are meant for only.
3. The expansion of shared variables as a function, against a reference definition.

## 6. Not modelled, and why

Encryption, hashing, HTML, command lines and scripts as text; signatures of webhooks
and tokens of requests; the parsing and validation of configuration; the assistant,
which only reads; project detection and the expansion of shared variables, which are
pure; the rows of sessions, tokens and the audit log, each written, read and deleted on
its own; what a sample of a server measures; the chunked upload of `nssm.exe` and the
Caddy in front of a Windows service that also has an executable; connections, which
succeed or fail as a whole. The time of day appears only where a decision depends on it
(the age of a webhook record, the cutoff of pruning, the backoff, the poller). SQLite is
used over one connection, so a statement is atomic. Security properties are not a
subject of this project.

## 7. Running

```
tlc -config MCDeployer.cfg MCDeployer
for m in *_proofs.tla; do tlapm $m; done
```

Each run of `PROJECT.json` names its module and configuration. `mutants` there lists,
for every property, a plausible slip in the code that breaks it; the mutated forms
are the operators next to the ones they replace.
