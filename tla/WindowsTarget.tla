--------------------------- MODULE WindowsTarget ---------------------------
(***************************************************************************)
(* The Windows targets: deployments and rollbacks of one project on one    *)
(* server, as an IIS site (internal/deployment/iis.go), in place or between*)
(* two blue-green slots, as a Windows service or as static files behind    *)
(* the target's own Caddy (winservice.go).                                 *)
(*                                                                         *)
(* A job is a list of PowerShell scripts run one after the other.  Each    *)
(* may fail with part of its effect done; then the job recovers with       *)
(* scripts of their own deadline, which may fail too, and are only logged. *)
(* The control center may die between any two scripts; nothing resumes a   *)
(* job.  Jobs of one project never overlap (SingleFlight of Deployer).     *)
(* Fetching, building and the upload of NSSM touch nothing live: their     *)
(* failures are failures of the first script here without an effect.       *)
(***************************************************************************)
EXTENDS Naturals, Sequences

CONSTANTS
  Builds,        \* releases: build outputs with their service settings
  Strategies,    \* how the project may be configured: "iis", "service", "static"
  NoRelease,     \* no release at all
  NoDir,         \* no directory: no IIS site, no marker file
  NoBackup,      \* no backup folder that holds files
  MaxJobs,       \* bound: jobs in a behaviour
  MaxFailures    \* bound: broken scripts and crashes in a behaviour

Special == {"missing", "empty", "torn"}

ASSUME WindowsAssumption ==
  /\ Special \cap Builds = {} /\ {NoRelease, NoBackup} \cap (Builds \cup Special) = {}
  /\ NoDir \notin {"physical", "blue"}
  /\ Strategies \subseteq {"iis", "service", "static"}
  /\ {MaxJobs, MaxFailures} \subseteq Nat

VARIABLES
  strategy,     \* the project's strategy
  blueGreen,    \* the project's iis_blue_green flag
  dir,          \* what the live directory and the second slot hold
  site,         \* the directory that is served: the IIS site's physicalPath
  marker,       \* the slot the marker file names
  up,           \* the app pool, service or Caddy runs
  definition,   \* the release whose settings the Windows service was given
  loaded,       \* the files and settings the service's process started with
  backup,       \* the newest backup folder that holds files
  job,          \* the job in progress
  released,     \* history: what the last successful job left
  previous,     \* history: what was released before it, if a rollback should find it
  strayed,      \* history: the site was repointed without the marker
  excused,      \* history: a later failure was one the code does not undo
  jobs,         \* jobs so far
  failures      \* broken scripts and crashes so far

server  == <<dir, site, marker, up, definition, loaded, backup>>
history == <<released, previous, strayed, excused>>
vars    == <<strategy, blueGreen, server, job, history, jobs, failures>>

-----------------------------------------------------------------------------

Dirs    == {"physical", "blue"}
Content == Builds \cup Special
Release == [files : Content, settings : Builds \cup {NoRelease}]
Nothing == [files |-> "missing", settings |-> NoRelease]

\* The scripts of each kind of job, and of the two recoveries.
Scripts == [
  none            |-> << >>,
  deployIIS       |-> <<"ensure", "validate", "stop", "backup", "copy", "start", "smoke">>,
  rollbackIIS     |-> <<"stop", "copy", "start", "smoke">>,
  deploySlot      |-> <<"ensure", "validate", "fill", "check", "swap", "smoke">>,
  rollbackSlot    |-> <<"swap", "smoke">>,
  deployService   |-> <<"validate", "stop", "backup", "copy", "install", "start", "smoke">>,
  rollbackService |-> <<"stop", "copy", "start", "smoke">>,
  deployStatic    |-> <<"validate", "backup", "copy", "caddy", "smoke">>,
  rollbackStatic  |-> <<"copy", "smoke">>,
  recoverLive     |-> <<"restore", "restart">>,
  swapBack        |-> <<"swapBack">>]

Rollbacks == {"rollbackIIS", "rollbackSlot", "rollbackService", "rollbackStatic"}
Slots     == {"deploySlot", "rollbackSlot"}

\* build is what the job puts live, backup what its recovery would restore;
\* excuse records that a failure of it need not be undone.
Job == [kind   : DOMAIN Scripts,
        at     : 1..7,
        build  : Content,
        backup : Content \cup {NoBackup},
        active : Dirs \cup {NoDir},
        target : Dirs \cup {NoDir},
        excuse : BOOLEAN]

Idle == [kind |-> "none", at |-> 1, build |-> "missing", backup |-> NoBackup,
         active |-> NoDir, target |-> NoDir, excuse |-> FALSE]

TypeOK ==
  /\ strategy   \in Strategies
  /\ blueGreen  \in BOOLEAN
  /\ dir        \in [Dirs -> Content]
  /\ site       \in Dirs \cup {NoDir}
  /\ marker     \in Dirs \cup {NoDir}
  /\ up         \in BOOLEAN
  /\ definition \in Builds \cup {NoRelease}
  /\ loaded     \in Release
  /\ backup     \in Builds \cup {"torn", NoBackup}
  /\ job        \in Job
  /\ released   \in Release
  /\ previous   \in Content \cup {NoRelease}
  /\ strayed    \in BOOLEAN
  /\ excused    \in BOOLEAN
  /\ jobs       \in 0..MaxJobs
  /\ failures   \in 0..MaxFailures

\* A server the project was never deployed to.
Init ==
  /\ strategy   \in Strategies
  /\ blueGreen  = FALSE
  /\ dir        = [d \in Dirs |-> "missing"]
  /\ site       = IF strategy = "iis" THEN NoDir ELSE "physical"
  /\ marker     = NoDir
  /\ up         = FALSE
  /\ definition = NoRelease
  /\ loaded     = Nothing
  /\ backup     = NoBackup
  /\ job        = Idle
  /\ released   = Nothing
  /\ previous   = NoRelease
  /\ strayed    = FALSE
  /\ excused    = FALSE
  /\ jobs       = 0
  /\ failures   = 0

\* What answers the project's port.
Serving ==
  IF ~up THEN Nothing
  ELSE IF strategy = "service" THEN loaded
  ELSE [files |-> dir[site], settings |-> NoRelease]

\* blueGreenActiveScript and blueGreenInactive.
Active ==
  IF marker \in Dirs /\ dir[marker] # "missing" THEN marker
  ELSE IF dir["physical"] # "missing" THEN "physical" ELSE NoDir

Inactive(d) == IF d \in {NoDir, "blue"} THEN "physical" ELSE "blue"

HasFiles(c) == c \notin {"missing", "empty"}

-----------------------------------------------------------------------------
(* How a script ends.                                                      *)

At(script) == job.kind # "none" /\ Scripts[job.kind][job.at] = script

Works  == UNCHANGED failures
Breaks == failures < MaxFailures /\ failures' = failures + 1

Advance(j) == [j EXCEPT !.at = @ + 1]
Recover(j) == [j EXCEPT !.kind = IF @ \in Slots THEN "swapBack" ELSE "recoverLive", !.at = 1]

Proceed == job' = Advance(job) /\ UNCHANGED excused

\* The job returns its error with nothing to recover, or goes to recover.
Return(j) == job' = Idle /\ excused' = (excused \/ j.excuse)

Error(j)  == job' = Recover(j) /\ UNCHANGED excused

\* A failed service deployment does not put its old settings back, and does not
\* stop the new process; a failed rollback recovers with the backup, not with
\* what was live.
Excuse(j, script) ==
  [j EXCEPT !.excuse = \/ @
                       \/ j.kind \in Rollbacks \ Slots
                       \/ j.kind = "deployService" /\ script \in {"install", "start", "smoke"}]

-----------------------------------------------------------------------------
(* A job begins.                                                           *)

Begin(new) == /\ job = Idle /\ jobs < MaxJobs
              /\ jobs' = jobs + 1
              /\ job'  = new
              /\ UNCHANGED <<strategy, blueGreen, server, history, failures>>

StartDeploy(b) ==
  Begin([Idle EXCEPT !.build = b,
                     !.kind = CASE strategy = "service" -> "deployService"
                                [] strategy = "static"  -> "deployStatic"
                                [] strategy = "iis"     -> IF blueGreen THEN "deploySlot"
                                                                        ELSE "deployIIS"])

\* latestBackupScript: the newest folder with files, or an error.
RollbackToBackup ==
  /\ backup # NoBackup /\ ~(strategy = "iis" /\ blueGreen)
  /\ Begin([Idle EXCEPT !.build = backup, !.backup = backup,
                        !.kind = CASE strategy = "service" -> "rollbackService"
                                   [] strategy = "static"  -> "rollbackStatic"
                                   [] strategy = "iis"     -> "rollbackIIS"])

RollbackToSlot ==
  /\ strategy = "iis" /\ blueGreen /\ Active # NoDir
  /\ Begin([Idle EXCEPT !.kind = "rollbackSlot", !.build = dir[Inactive(Active)],
                        !.active = Active, !.target = Inactive(Active), !.excuse = site # Active])

\* The project is saved with the other value of the flag.  A job works on its own
\* copy of the project: a switch during one is a switch after it.
SwitchBlueGreen ==
  /\ strategy = "iis" /\ job = Idle
  /\ blueGreen' = ~blueGreen
  /\ previous' = NoRelease
  /\ UNCHANGED <<strategy, server, job, released, strayed, excused, jobs, failures>>

-----------------------------------------------------------------------------
(* The scripts of a deployment and of a rollback.                          *)

\* An existing site is repointed by a blue-green deployment, too.
EnsureSiteAlways ==
  /\ At("ensure") /\ Works /\ Proceed
  /\ dir'  = [dir EXCEPT !["physical"] = IF @ = "missing" THEN "empty" ELSE @]
  /\ site' = "physical"
  /\ up'   = (up \/ site = NoDir)
  /\ UNCHANGED <<strategy, blueGreen, marker, definition, loaded, backup, released,
                 previous, strayed, jobs>>

\* ensureIISScript: create the directory, the started pool and the site; a
\* deployment in place points an existing site back at the live directory.
EnsureSite ==
  LET made     == [dir EXCEPT !["physical"] = IF @ = "missing" THEN "empty" ELSE @]
      pointed  == IF site = NoDir \/ job.kind = "deployIIS" THEN "physical" ELSE site
      repoints == site \in Dirs /\ site' # site
  IN  /\ At("ensure")
      /\ \/ /\ Works
            /\ dir' = made /\ site' = pointed /\ up' = (up \/ site = NoDir)
            /\ job' = Advance([job EXCEPT !.excuse = repoints])
            /\ UNCHANGED excused
         \/ /\ Breaks
            /\ dir' \in {dir, made} /\ site' \in {site, pointed} /\ up' \in {up, up \/ site = NoDir}
            /\ site' # site => dir' = made /\ up'
            /\ Return([job EXCEPT !.excuse = repoints])
      /\ strayed' = (strayed \/ repoints)
      /\ UNCHANGED <<strategy, blueGreen, marker, definition, loaded, backup, released,
                     previous, jobs>>

\* Validation of the sources, or of the filled slot: it changes nothing.
Validate ==
  /\ At("validate") \/ At("check")
  /\ Proceed \/ Return(job)
  /\ UNCHANGED <<strategy, blueGreen, server, released, previous, strayed, jobs, failures>>

\* A service is given 30 seconds to stop, then the job goes on without it.
Stop ==
  /\ At("stop")
  /\ \/ Works /\ up' = FALSE /\ Proceed
     \/ strategy = "service" /\ Breaks /\ UNCHANGED up /\ Proceed
     \/ Breaks /\ up' \in {up, FALSE} /\ Error(Excuse(job, "stop"))
  /\ UNCHANGED <<strategy, blueGreen, dir, site, marker, definition, loaded, backup,
                 released, previous, strayed, jobs>>

\* The copy is made of the new files instead of the live ones.
BackupTooLate ==
  /\ At("backup") /\ Works
  /\ job' = Advance([job EXCEPT !.backup = job.build])
  /\ backup' = job.build
  /\ previous' = NoRelease
  /\ UNCHANGED <<strategy, blueGreen, dir, site, marker, up, definition, loaded, released,
                 strayed, excused, jobs>>

\* The newest folder counts as a backup whatever it holds.
BackupOfAnything ==
  /\ At("backup") /\ Works
  /\ job' = Advance([job EXCEPT !.backup = dir["physical"]])
  /\ backup' = dir["physical"]
  /\ previous' = NoRelease
  /\ UNCHANGED <<strategy, blueGreen, dir, site, marker, up, definition, loaded, released,
                 strayed, excused, jobs>>

\* backupScript: a copy of the live directory in a new folder, NO_BACKUP without
\* one.  A copy that breaks leaves its folder behind.
Backup ==
  LET live == dir["physical"]
      copy == IF live = "missing" THEN NoBackup ELSE live
  IN  /\ At("backup")
      /\ \/ /\ Works
            /\ job' = Advance([job EXCEPT !.backup = copy])
            /\ backup' = IF HasFiles(live) THEN live ELSE backup
            /\ UNCHANGED excused
         \/ /\ Breaks
            /\ Error(job)
            /\ backup' \in {backup} \cup (IF HasFiles(live) THEN {"torn"} ELSE {})
      /\ previous' = NoRelease
      /\ UNCHANGED <<strategy, blueGreen, dir, site, marker, up, definition, loaded, released,
                     strayed, jobs>>

\* copyScript of the build, or of the backup a rollback restores.
Copy ==
  /\ At("copy")
  /\ \/ Works  /\ dir' = [dir EXCEPT !["physical"] = job.build] /\ Proceed
     \/ Breaks /\ dir' \in {dir, [dir EXCEPT !["physical"] = "torn"]} /\ Error(Excuse(job, "copy"))
  /\ UNCHANGED <<strategy, blueGreen, site, marker, up, definition, loaded, backup,
                 released, previous, strayed, jobs>>

\* installServiceScript and serviceEnvScript, one setting at a time.
Install ==
  /\ At("install")
  /\ \/ Works  /\ definition' = job.build /\ Proceed
     \/ Breaks /\ definition' \in {definition, job.build} /\ Error(Excuse(job, "install"))
  /\ UNCHANGED <<strategy, blueGreen, dir, site, marker, up, loaded, backup,
                 released, previous, strayed, jobs>>

\* A service that runs, or was never installed, cannot be started.
Startable == strategy = "service" => ~up /\ definition # NoRelease

Started == /\ up' = TRUE
           /\ loaded' = IF strategy = "service"
                        THEN [files |-> dir["physical"], settings |-> definition] ELSE loaded

\* startScript, startServiceScript: a release may not come up.
Start ==
  /\ At("start")
  /\ \/ Works /\ Startable /\ Started /\ Proceed
     \/ Works /\ strategy = "service" /\ UNCHANGED <<up, loaded>> /\ Error(Excuse(job, "start"))
     \/ Breaks /\ Startable /\ Started /\ Error(Excuse(job, "start"))
     \/ Breaks /\ up' = FALSE /\ UNCHANGED loaded /\ Error(Excuse(job, "start"))
  /\ UNCHANGED <<strategy, blueGreen, dir, site, marker, definition, backup,
                 released, previous, strayed, jobs>>

\* configureCaddy: write the Caddyfile, install the service once, reload it.
ConfigureCaddy ==
  /\ At("caddy")
  /\ \/ Works  /\ up' = TRUE /\ Proceed
     \/ Breaks /\ up' \in {up, TRUE} /\ Error(job)
  /\ UNCHANGED <<strategy, blueGreen, dir, site, marker, definition, loaded, backup,
                 released, previous, strayed, jobs>>

-----------------------------------------------------------------------------
(* Blue-green slots.                                                       *)

\* deployBlueGreen: find the active slot and copy the build to the other one.
Fill ==
  LET target == Inactive(Active)
      chosen == [job EXCEPT !.active = Active, !.target = target,
                            !.excuse = @ \/ site = target]
  IN  /\ At("fill")
      /\ \/ Works  /\ dir' = [dir EXCEPT ![target] = job.build]
                   /\ job' = Advance(chosen) /\ UNCHANGED excused
         \/ Breaks /\ dir' \in {dir, [dir EXCEPT ![target] = "torn"]} /\ Return(chosen)
      /\ previous' = NoRelease
      /\ UNCHANGED <<strategy, blueGreen, site, marker, up, definition, loaded, backup, released,
                     strayed, jobs>>

\* blueGreenSwapScript: repoint the site, restart the pool, write the marker.
SwapDone(d)   == HasFiles(dir[d]) /\ site' = d /\ up' = TRUE /\ marker' = d /\ strayed' = FALSE

SwapBroken(d) ==
  \/ UNCHANGED <<site, up, marker, strayed>>
  \/ /\ HasFiles(dir[d]) /\ site' = d /\ up' \in BOOLEAN /\ UNCHANGED marker
     /\ strayed' = (strayed \/ site' # site)

\* A swap that breaks in a rollback is not swapped back.
Swap ==
  LET stays == job.kind = "rollbackSlot"
  IN  /\ At("swap")
      /\ \/ Works /\ SwapDone(job.target) /\ Proceed
         \/ /\ \/ Breaks /\ SwapBroken(job.target)
               \/ Works /\ ~HasFiles(dir[job.target]) /\ UNCHANGED <<site, up, marker, strayed>>
            /\ IF stays THEN Return([job EXCEPT !.excuse = @ \/ site' # site \/ up' # up])
                        ELSE Error(job)
      /\ UNCHANGED <<strategy, blueGreen, dir, definition, loaded, backup, released,
                     previous, jobs>>

-----------------------------------------------------------------------------
(* The end of a job.                                                       *)

\* smokeTest passes, or is disabled: the job is successful.  A rollback to a backup
\* neither points the site back at the live directory nor starts a missing Caddy.
SmokePasses ==
  /\ At("smoke")
  /\ job' = Idle
  /\ released' = [files    |-> job.build,
                  settings |-> IF strategy = "service" THEN definition ELSE NoRelease]
  /\ previous' = IF job.kind \in Rollbacks \/ job.excuse \/ excused \/ released = Nothing
                 THEN NoRelease ELSE released.files
  /\ excused' = (job.kind \in Rollbacks \ Slots /\ (site # "physical" \/ ~up))
  /\ UNCHANGED <<strategy, blueGreen, server, strayed, jobs, failures>>

SmokeFails ==
  /\ At("smoke")
  /\ Error(Excuse(job, "smoke"))
  /\ UNCHANGED <<strategy, blueGreen, server, released, previous, strayed, jobs, failures>>

\* recoverLive forgets the files.
RestoreNothing ==
  /\ At("restore") /\ Works /\ Proceed
  /\ UNCHANGED <<strategy, blueGreen, server, released, previous, strayed, jobs>>

\* recoverLive: put the backup back, if there is one.  The files of a running
\* service are locked, so the copy may stop half way for no other reason.
Restore ==
  LET copied == [dir EXCEPT !["physical"] = job.backup]
      torn   == [dir EXCEPT !["physical"] = "torn"]
  IN  /\ At("restore")
      /\ \/ job.backup = NoBackup /\ Works /\ UNCHANGED dir /\ Proceed
         \/ job.backup # NoBackup /\ Works /\ dir' = copied /\ Proceed
         \/ /\ job.backup # NoBackup
            /\ Breaks \/ (strategy = "service" /\ up /\ Works)
            /\ dir' \in {dir, torn}
            /\ job' = Advance([job EXCEPT !.excuse = TRUE])
            /\ UNCHANGED excused
      /\ UNCHANGED <<strategy, blueGreen, site, marker, up, definition, loaded, backup,
                     released, previous, strayed, jobs>>

\* recoverLive: start what was stopped.  There is nothing to start for static
\* files; errors are logged.
Restart ==
  /\ At("restart")
  /\ \/ Works /\ strategy # "static" /\ Startable /\ Started /\ Return(job)
     \/ Works /\ (strategy = "static" \/ ~Startable) /\ UNCHANGED <<up, loaded>> /\ Return(job)
     \/ /\ strategy # "static" /\ Breaks
        /\ up' \in {up, FALSE} /\ UNCHANGED loaded
        /\ Return([job EXCEPT !.excuse = TRUE])
  /\ UNCHANGED <<strategy, blueGreen, dir, site, marker, definition, backup,
                 released, previous, strayed, jobs>>

\* swapBack: errors, and the refusal of an empty slot, are logged.
SwapBack ==
  /\ At("swapBack")
  /\ \/ Works /\ SwapDone(job.active) /\ Return(job)
     \/ /\ \/ Breaks /\ SwapBroken(job.active)
           \/ Works /\ ~HasFiles(dir[job.active]) /\ UNCHANGED <<site, up, marker, strayed>>
        /\ Return([job EXCEPT !.excuse = TRUE])
  /\ UNCHANGED <<strategy, blueGreen, dir, definition, loaded, backup, released, previous, jobs>>

\* The control center dies: the job stops where it is.
Crash ==
  LET untouched == {"ensure", "validate", "stop", "fill", "check", "swap"}
  IN  /\ job # Idle /\ Breaks
      /\ Return([job EXCEPT !.excuse = @ \/ Scripts[job.kind][job.at] \notin untouched])
      /\ UNCHANGED <<strategy, blueGreen, server, released, previous, strayed, jobs>>

Script ==
  \/ EnsureSite \/ Validate \/ Stop \/ Backup \/ Copy \/ Install \/ Start \/ ConfigureCaddy
  \/ Fill \/ Swap
  \/ SmokePasses \/ SmokeFails
  \/ Restore \/ Restart \/ SwapBack

Next ==
  \/ \E b \in Builds : StartDeploy(b)
  \/ RollbackToBackup
  \/ RollbackToSlot
  \/ SwitchBlueGreen
  \/ Script
  \/ Crash

Spec == Init /\ [][Next]_vars

-----------------------------------------------------------------------------
(* Properties.                                                             *)

\* Between jobs the project serves what its last successful job left, whatever
\* deployments failed since and wherever they did ("On any failure: restore
\* backup + restart", website/docs/concepts/targets.md), but for the failures
\* excused above: a broken recovery or a crash after the stop, a failed rollback,
\* a service that got its new settings, a site repointed before validation.
ServedIsLastSuccess ==
  job = Idle /\ released # Nothing /\ ~excused => Serving = released

\* After a successful deployment a rollback would restore the release before it:
\* the newest backup, or the other slot, holds it until another job has made a
\* backup or filled a slot.
RollbackTargetIsPrevious ==
  job = Idle /\ previous # NoRelease /\ ~excused =>
    IF strategy = "iis" /\ blueGreen
    THEN dir[Inactive(Active)] = previous
    ELSE backup = previous

\* A blue-green job writes to the served directory only after the site was
\* repointed without its marker: by a deployment in place or by half a swap.
LiveDirectoryIsSpared ==
  [][job.kind = "deploySlot" /\ site \in Dirs /\ dir'[site] # dir[site]
       => strayed \/ dir[site] = "missing"]_dir

\* "Nothing live is touched until validation passes. On failure winify restores
\* the previous release [...] The old version keeps serving" (docs/
\* winify-walkthrough.md).
OldVersionKeepsServing ==
  job = Idle /\ released # Nothing => Serving.files = released.files
=============================================================================
