---------------------------- MODULE DockerTarget ----------------------------
(***************************************************************************)
(* The Docker target (internal/deployment/docker.go): deployments,         *)
(* rollbacks and automatic restores of one project on one server, from a   *)
(* Dockerfile, a registry image or the repository's own Compose file.      *)
(*                                                                         *)
(* A job is a list of remote commands.  Each fails once the job's context  *)
(* has ended, and may fail with part of its effect done.  A deployment     *)
(* that fails after it replaced the containers runs the last successful    *)
(* artifact again, under a deadline of its own, if it was given one: the   *)
(* deployer reads it from the history when the job is asked for, and the   *)
(* read, or the write that should have stored it, may have failed.  The    *)
(* control center may die between two commands; nothing resumes a job.     *)
(* Jobs of one project never overlap (SingleFlight of Deployer), and a     *)
(* cancelled command has ended when its error is returned.                 *)
(***************************************************************************)
EXTENDS Naturals, Sequences, FiniteSets

CONSTANTS
  Names,         \* commits and image references
  Values,        \* what the project's environment may be
  None,          \* no artifact, no image, no file
  MaxJobs,       \* bound: jobs in a behaviour
  MaxFailures,   \* bound: broken commands, failing calls, passed deadlines and crashes
  MaxSaves       \* bound: edits of the project in a behaviour

ASSUME DockerAssumption ==
  /\ Names # {} /\ Values # {} /\ None \notin Names \cup Values
  /\ {MaxJobs, MaxFailures, MaxSaves} \subseteq Nat

VARIABLES
  source,       \* the project's source
  settings,     \* the project's environment, build arguments included
  images,       \* the environment each local image was built with
  checkout,     \* the working directory is a clone
  file,         \* what the Compose file there would run, with which environment
  running,      \* what the project's containers run
  job,          \* the job in progress
  tags,         \* the image_tag of the newest two successes in the history, newest first
  recorded,     \* history: the releases those two left running
  latest,       \* the newest row of the history is a success
  excused,      \* history: a failure since then is one the code does not undo
  jobs, failures, saves

project == <<source, settings>>
host    == <<images, checkout, file, running>>
history == <<tags, recorded, latest, excused>>
counts  == <<jobs, failures, saves>>
vars    == <<project, host, job, history, counts>>

-----------------------------------------------------------------------------

Sources   == {"dockerfile", "image", "compose"}
Artifacts == [source : Sources, name : Names]

\* Containers of an artifact, the environment they were built with and run with.
Release == [artifact : Artifacts, build : Values \cup {None}, env : Values \cup {None}]
File    == [artifact : Artifacts, env : Values \cup {None}]

ASSUME NoneAssumption == None \notin Artifacts \cup Release \cup File

\* The containers are replaced before the environment is written.
ScriptsUpFirst == [
  none     |-> [s \in Sources |-> << >>],
  deploy   |-> [dockerfile |-> <<"auth", "clone", "build", "write", "up", "check">>,
                image      |-> <<"write", "up", "check">>,
                compose    |-> <<"auth", "clone", "up", "write", "check">>],
  rollback |-> [dockerfile |-> <<"write", "up", "check">>,
                image      |-> <<"write", "up", "check">>,
                compose    |-> <<"auth", "clone", "write", "up", "check">>]]

\* The commands of each kind of job.
Scripts == [
  none     |-> [s \in Sources |-> << >>],
  deploy   |-> [dockerfile |-> <<"auth", "clone", "build", "write", "up", "check">>,
                image      |-> <<"write", "up", "check">>,
                compose    |-> <<"auth", "clone", "write", "up", "check">>],
  rollback |-> [dockerfile |-> <<"write", "up", "check">>,
                image      |-> <<"write", "up", "check">>,
                compose    |-> <<"auth", "clone", "write", "up", "check">>]]

\* A job works on the project as it was; asked is what it may put live: the pushed
\* commit, whatever the branch names, or the configured image.  A restore is the
\* rollback script with restores set.
Job == [kind     : {"none", "deploy", "rollback"},
        source   : Sources,
        env      : Values \cup {None},
        asked    : SUBSET Artifacts,
        artifact : Artifacts \cup {None},
        previous : Artifacts \cup {None},
        restores : BOOLEAN,
        expired  : BOOLEAN,
        at       : 1..6]

Idle == [kind |-> "none", source |-> "image", env |-> None,
         asked |-> {}, artifact |-> None, previous |-> None, restores |-> FALSE,
         expired |-> FALSE, at |-> 1]

TypeOK ==
  /\ source   \in Sources
  /\ settings \in Values
  /\ images   \in [Names -> Values \cup {None}]
  /\ checkout \in BOOLEAN
  /\ file     \in File \cup {None}
  /\ running  \in Release \cup {None}
  /\ job      \in Job
  /\ \E n \in 0..2 : /\ tags     \in [1..n -> Artifacts \cup {None}]
                    /\ recorded \in [1..n -> Release]
  /\ latest   \in BOOLEAN
  /\ excused  \in BOOLEAN
  /\ jobs     \in 0..MaxJobs
  /\ failures \in 0..MaxFailures
  /\ saves    \in 0..MaxSaves

\* A project that was never deployed.
Init ==
  /\ source   \in Sources
  /\ settings \in Values
  /\ images   = [n \in Names |-> None]
  /\ checkout = FALSE
  /\ file     = None
  /\ running  = None
  /\ job      = Idle
  /\ tags     = << >>
  /\ recorded = << >>
  /\ latest   = FALSE
  /\ excused  = FALSE
  /\ jobs = 0 /\ failures = 0 /\ saves = 0

-----------------------------------------------------------------------------
(* The project and its jobs.                                               *)

\* The project is saved with another environment or another source.
SaveProject ==
  /\ saves < MaxSaves /\ saves' = saves + 1
  /\ \/ settings' \in Values \ {settings} /\ UNCHANGED source
     \/ source' \in Sources \ {source} /\ UNCHANGED settings
  /\ UNCHANGED <<host, job, history, jobs, failures>>

\* What the history holds for deployJob.previousArtifact, the newest success; a rollback
\* goes to the success before it when the last attempt succeeded.
Newest      == IF tags = << >> THEN None ELSE tags[1]
RollbackRow == IF latest THEN 2 ELSE 1

Start(j) == /\ job = Idle /\ jobs < MaxJobs
            /\ jobs' = jobs + 1
            /\ job' = [j EXCEPT !.source = source, !.env = settings]
            /\ UNCHANGED <<project, host, history, saves>>

\* deployRevision: the pushed commit, or what the branch names when it is cloned.  A
\* failed read of the history counts as an empty one.
StartDeploy ==
  LET releases == {a \in Artifacts : a.source = source}
  IN  \E asked \in {{a} : a \in releases} \cup (IF source = "image" THEN {} ELSE {releases}),
        previous \in {Newest, None} :
        /\ Start([Idle EXCEPT !.kind = "deploy", !.asked = asked, !.previous = previous,
                              !.artifact = IF source = "image" THEN CHOOSE a \in asked : TRUE
                                                               ELSE None])
        /\ IF previous = Newest THEN UNCHANGED failures
           ELSE failures < MaxFailures /\ failures' = failures + 1

\* What a rollback to a row starts with: its image_tag; a Compose project falls back on
\* the commit the row was pushed with, if it was.
RowArtifact(i) ==
  IF tags[i] = None /\ source = "compose"
  THEN {None, [recorded[i].artifact EXCEPT !.source = "compose"]} ELSE {tags[i]}

\* Nothing tells a first deployment from a rollback.
StartRollbackUnchecked ==
  /\ Start([Idle EXCEPT !.kind = "rollback", !.asked = {Newest}, !.artifact = Newest])
  /\ UNCHANGED failures

\* A rollback runs with the source the project has now.
StartRollback ==
  /\ RollbackRow <= Len(tags)
  /\ \E a \in RowArtifact(RollbackRow) :
       Start([Idle EXCEPT !.kind = "rollback", !.artifact = a,
                          !.asked = {IF a = None THEN recorded[RollbackRow].artifact ELSE a}])
  /\ UNCHANGED failures

-----------------------------------------------------------------------------
(* How a command ends.                                                     *)

\* A rollback to a row without an artifact.
Pointless == job.kind = "rollback" /\ job.artifact = None

At(command) ==
  /\ job.kind # "none" /\ ~Pointless
  /\ Scripts[job.kind][job.source][job.at] = command

Works  == ~job.expired /\ UNCHANGED failures
Breaks == \/ job.expired /\ UNCHANGED failures
          \/ failures < MaxFailures /\ failures' = failures + 1

Proceed(j) == job' = [j EXCEPT !.at = @ + 1] /\ UNCHANGED history

\* The job returns its error.
Return(excuse) == /\ job' = Idle /\ latest' = FALSE
                  /\ excused' = (excused \/ excuse)
                  /\ UNCHANGED <<tags, recorded>>

\* Nothing undoes the failure of a restore; one that was given no time of its own
\* is no excuse.
Unrecovered == job.restores /\ ~job.expired

\* The restore runs in the context of the job.
RestoredInJobContext ==
  [job EXCEPT !.kind = "rollback", !.restores = TRUE, !.at = 1, !.artifact = job.previous]

Restored ==
  [job EXCEPT !.kind = "rollback", !.restores = TRUE, !.at = 1, !.artifact = job.previous,
              !.expired = FALSE]

\* restorePrevious: only a deployment that may have replaced containers, and only when
\* it was given a successful artifact.  A rollback is not undone.
Recover ==
  IF job.kind = "deploy" /\ job.previous # None
  THEN job' = Restored /\ UNCHANGED history
  ELSE Return(Unrecovered \/ ~job.restores)

-----------------------------------------------------------------------------
(* The commands.                                                           *)

\* rollbackImage and rollbackCompose refuse an empty artifact before the first command.
Refuse ==
  /\ Pointless
  /\ Return(FALSE)
  /\ UNCHANGED <<project, host, counts>>

\* PrepareGitAuth: it changes nothing the project runs.
PrepareGitAuth ==
  /\ At("auth")
  /\ \/ Works  /\ Proceed(job)
     \/ Breaks /\ Return(Unrecovered)
  /\ UNCHANGED <<project, host, jobs, saves>>

\* The branch is checked out whatever commit was pushed.
CloneBranch ==
  /\ At("clone") /\ Works /\ (checkout \/ file = None)
  /\ checkout' = TRUE
  /\ \E a \in {r \in Artifacts : r.source = job.source} :
       /\ file' = IF job.source = "compose" THEN [artifact |-> a, env |-> None] ELSE None
       /\ Proceed([job EXCEPT !.artifact = a])
  /\ UNCHANGED <<project, images, running, jobs, saves>>

\* cloneRepo: fetch, check out and clean.  What it finds in a working directory that
\* is not a clone is in its way; an artifact of another source is no revision.
Clone ==
  LET revisions == {a \in IF job.artifact = None THEN job.asked ELSE {job.artifact} :
                      a.source = job.source}
      possible  == (checkout \/ file = None) /\ revisions # {}
      cleaned   == {None} \cup [artifact : revisions, env : {None}]
  IN  /\ At("clone")
      /\ \/ /\ Works /\ possible /\ checkout' = TRUE
            /\ \E a \in revisions :
                 /\ file' = IF job.source = "compose" THEN [artifact |-> a, env |-> None] ELSE None
                 /\ Proceed([job EXCEPT !.artifact = a])
         \/ /\ Breaks /\ possible /\ checkout' \in {checkout, TRUE}
            /\ file' \in {file} \cup (IF checkout' THEN cleaned ELSE {})
            /\ Return(Unrecovered)
         \/ /\ Works /\ ~possible
            /\ UNCHANGED <<checkout, file, failures>>
            /\ Return(Unrecovered)
      /\ UNCHANGED <<project, images, running, jobs, saves>>

\* cloneAndBuild: docker build replaces whatever image had the tag.
Build ==
  /\ At("build")
  /\ \/ Works  /\ images' = [images EXCEPT ![job.artifact.name] = job.env] /\ Proceed(job)
     \/ Breaks /\ UNCHANGED images /\ Return(Unrecovered)
  /\ UNCHANGED <<project, checkout, file, running, jobs, saves>>

\* writeGeneratedCompose, or writeEnvFile next to the repository's own file.
Write ==
  LET written == [artifact |-> IF job.source = "compose" /\ file # None THEN file.artifact
                                                                    ELSE job.artifact,
                  env |-> job.env]
  IN  /\ At("write")
      /\ \/ Works  /\ file' = written /\ Proceed(job)
         \/ Breaks /\ file' \in {file, written} /\ Return(Unrecovered)
      /\ UNCHANGED <<project, images, checkout, running, jobs, saves>>

\* What docker compose up makes of the file; a revision is no image.
Runnable == /\ file # None
            /\ (job.source = "compose") = (file.artifact.source = "compose")
Made     == LET built == CASE file.artifact.source = "dockerfile" -> images[file.artifact.name]
                           [] file.artifact.source = "compose"    -> file.env
                           [] file.artifact.source = "image"      -> None
            IN  [artifact |-> file.artifact, build |-> built, env |-> file.env]

\* composeUp, composeUpRepo.
Up ==
  /\ At("up")
  /\ \/ Works /\ Runnable /\ running' = Made /\ Proceed(job)
     \/ Breaks /\ Recover /\ running' \in {running, None} \cup (IF Runnable THEN {Made} ELSE {})
     \/ Works /\ ~Runnable /\ Recover /\ UNCHANGED running
  /\ UNCHANGED <<project, images, checkout, file, jobs, saves>>

\* What the history keeps of a success.
Keep(tag) ==
  LET release == [artifact |-> job.artifact, env |-> job.env,
                  build |-> IF running = None THEN None ELSE running.build]
  IN  /\ latest' = TRUE /\ excused' = FALSE
      /\ tags'     = IF tags = << >> THEN <<tag>> ELSE <<tag, tags[1]>>
      /\ recorded' = IF recorded = << >> THEN <<release>> ELSE <<release, recorded[1]>>

\* The image_tag of the job's row: a rollback's is there from the start.
RowTag == IF job.kind = "deploy" THEN None ELSE tags[RollbackRow]

\* The end of run, once the target has returned the artifact: its write may fail and is
\* only logged; a failed proxy registration fails the row, and so does, at the next
\* start, a failed last write.
Succeed ==
  /\ job' = Idle
  /\ \/ /\ job.restores
        /\ latest' = FALSE /\ excused' = FALSE /\ UNCHANGED <<tags, recorded, failures>>
     \/ ~job.restores /\ Keep(job.artifact) /\ UNCHANGED failures
     \/ /\ ~job.restores /\ failures < MaxFailures /\ failures' = failures + 1
        /\ \/ Keep(RowTag)
           \/ latest' = FALSE /\ excused' = TRUE /\ UNCHANGED <<tags, recorded>>

Check ==
  /\ At("check")
  /\ \/ ~job.expired /\ Succeed
     \/ UNCHANGED failures /\ Recover
  /\ UNCHANGED <<project, host, jobs, saves>>

-----------------------------------------------------------------------------
(* Faults.                                                                 *)

\* The deadline of the job or of the restore passes, or the control center stops.
Expire == /\ job # Idle /\ ~job.expired
          /\ failures < MaxFailures /\ failures' = failures + 1
          /\ job' = [job EXCEPT !.expired = TRUE]
          /\ excused' = (excused \/ job.restores)
          /\ UNCHANGED <<project, host, tags, recorded, latest, jobs, saves>>

\* The control center dies; before the containers were touched it changes nothing.
Crash == /\ job # Idle
         /\ failures < MaxFailures /\ failures' = failures + 1
         /\ Return(job.restores \/ At("up") \/ At("check"))
         /\ UNCHANGED <<project, host, jobs, saves>>

Command == Refuse \/ PrepareGitAuth \/ Clone \/ Build \/ Write \/ Up \/ Check

Next == SaveProject \/ StartDeploy \/ StartRollback \/ Command \/ Expire \/ Crash

Spec == Init /\ [][Next]_vars

-----------------------------------------------------------------------------
(* Properties.                                                             *)

\* What a successful job recorded is what runs until the next job begins, with the
\* environment the project had when it was asked for.
RecordedReleaseServes ==
  job = Idle /\ latest => running = recorded[1]

\* After a failed job the last successful artifact runs, whatever the job had done
\* and however its deadline passed ("The old version keeps serving", docs/
\* winify-walkthrough.md).  What the code does not undo is excused until the next
\* success or restore: a rollback or a restore that fails itself, a deployment that
\* was given no artifact since the read of the history, or the write of that success's
\* artifact, had failed, and a job whose release came up but whose proxy registration
\* or last write failed.  Then, too, what is restored later is the last success.
RestoreRunsPrevious ==
  job = Idle /\ recorded # << >> /\ ~excused =>
    running # None /\ running.artifact = recorded[1].artifact

\* "The current version keeps serving if the rollback fails." (the confirmation in
\* internal/static/templates/resource.html)
CurrentVersionKeepsServing ==
  [][job.kind = "rollback" /\ ~job.restores /\ job' = Idle /\ ~latest' /\ latest
       => running' = recorded[1]]_vars

\* The target does what the deployer relies on.
Abstract == INSTANCE DeployTarget WITH
  Artifacts <- Artifacts,
  None      <- None,
  live      <- IF running = None THEN None ELSE running.artifact,
  outcome   <- IF latest THEN recorded[1].artifact ELSE None,
  task      <- IF job = Idle THEN [wanted |-> {}, previous |-> None]
                             ELSE [wanted |-> job.asked, previous |-> job.previous]

ImplementsTarget == Abstract!Spec
=============================================================================
