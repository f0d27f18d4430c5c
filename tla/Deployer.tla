------------------------------ MODULE Deployer ------------------------------
(***************************************************************************)
(* The deployer (internal/deployment/deployer.go) with the deployments     *)
(* table it writes (internal/models/store.go) and the process life cycle   *)
(* around it (serve in cmd/control-center/main.go).                        *)
(*                                                                         *)
(* Request handlers call Trigger and Rollback concurrently; each accepted  *)
(* call leaves a row in the table and a worker goroutine that runs the     *)
(* pipeline.  Every database call of a handler or worker is a step of its  *)
(* own and may fail; the process may stop gracefully, be killed, and boot  *)
(* again.  What a Docker target does to the running release is abstracted  *)
(* to what serves the project from then on: a new release, the recorded    *)
(* previous one, or nothing that works.  The artifact a Windows target     *)
(* records is the backup of the release before, which it never restores    *)
(* from history, so its running release is not modelled here.              *)
(***************************************************************************)
EXTENDS Naturals

CONSTANTS
  Projects,          \* configured projects
  HistoryProjects,   \* those whose rollback target comes from history (Docker)
  Callers,           \* HTTP handlers that call Trigger or Rollback
  Artifacts,         \* image tags or commits a deployment can record
  NoProject,         \* the project of an absent row and of an idle caller
  NoArtifact,        \* the empty image_tag; also "no working release is live"
  MaxRows,           \* bound: rows the deployments table can ever hold
  MaxDbErrors        \* bound: failing database calls in a behaviour

ASSUME ProjectsAssumption  == HistoryProjects \subseteq Projects /\ NoProject \notin Projects
ASSUME ArtifactsAssumption == NoArtifact \notin Artifacts
ASSUME BoundsAssumption    == MaxRows \in Nat /\ MaxDbErrors \in Nat

VARIABLES
  rows,       \* the deployments table, by id
  lastId,     \* SQLite's AUTOINCREMENT counter for it
  inFlight,   \* Deployer.inFlight: the projects that hold the guard
  call,       \* what each handler is doing inside Trigger or Rollback
  job,        \* the worker goroutine of each row and its deployJob
  live,       \* the artifact that serves each Docker project
  proc,       \* life cycle of the control-center process
  dbErrors,   \* failing database calls so far
  lost        \* rows left open because a status write of theirs failed

vars == <<rows, lastId, inFlight, call, job, live, proc, dbErrors, lost>>

-----------------------------------------------------------------------------

Ids      == 1..MaxRows
Open     == {"queued", "running"}
Terminal == {"success", "failed"}
Ops      == {"deploy", "rollback"}
Recorded == Artifacts \cup {NoArtifact}

Status   == {"absent"} \cup Open \cup Terminal

Row == [project  : Projects \cup {NoProject},
        op       : Ops,
        status   : Status,
        artifact : Recorded]

AbsentRow == [project |-> NoProject, op |-> "deploy", status |-> "absent",
              artifact |-> NoArtifact]

\* A handler: "latest" and "chosen" are Rollback's two reads before it takes
\* the guard; "guarded" is Trigger holding the guard before its read;
\* "ready" holds the guard and is about to insert the row.
Call == [stage    : {"idle", "latest", "chosen", "guarded", "ready"},
         project  : Projects \cup {NoProject},
         op       : Ops,
         artifact : Recorded,
         latestOk : BOOLEAN]

IdleCall == [stage |-> "idle", project |-> NoProject, op |-> "deploy",
             artifact |-> NoArtifact, latestOk |-> FALSE]

\* A worker: "spawn" is the row inserted but the goroutine not started yet.
Stages == {"none", "spawn", "start", "target", "record", "proxy", "finishOk",
           "finishFailed", "release"}

Job == [stage    : Stages,
        artifact : Recorded,
        previous : Recorded]

NoJob == [stage |-> "none", artifact |-> NoArtifact, previous |-> NoArtifact]

\* "draining" is httpServer.Shutdown, "stopping" and "aborting" are
\* Deployer.Stop after a clean and after a timed-out drain; "stopped" is an
\* exit for which both waited to the end, "killed" any other end.
Processes == {"up", "draining", "stopping", "aborting", "stopped", "killed"}
Alive     == proc \in {"up", "draining", "stopping", "aborting"}

TypeOK ==
  /\ rows     \in [Ids -> Row]
  /\ lastId   \in 0..MaxRows
  /\ inFlight \subseteq Projects
  /\ call     \in [Callers -> Call]
  /\ \A c \in Callers : call[c] # IdleCall => call[c].project \in Projects
  /\ job      \in [Ids -> Job]
  /\ live     \in [HistoryProjects -> Recorded]
  /\ proc     \in Processes
  /\ dbErrors \in 0..MaxDbErrors
  /\ lost     \subseteq Ids

Init ==
  /\ rows     = [i \in Ids |-> AbsentRow]
  /\ lastId   = 0
  /\ inFlight = {}
  /\ call     = [c \in Callers |-> IdleCall]
  /\ job      = [i \in Ids |-> NoJob]
  /\ live     = [p \in HistoryProjects |-> NoArtifact]
  /\ proc     = "up"
  /\ dbErrors = 0
  /\ lost     = {}

-----------------------------------------------------------------------------
(* Who is responsible for a project.                                       *)

Active(i)  == job[i].stage # "none"
Holding(c) == call[c].stage \in {"guarded", "ready"}

HasOwner(p) == \/ \E i \in Ids : Active(i) /\ rows[i].project = p
               \/ \E c \in Callers : Holding(c) /\ call[c].project = p

-----------------------------------------------------------------------------
(* The queries of the store.                                               *)

Attempts(p) == {i \in Ids : rows[i].project = p}

SuccessfulDeployments(p) == {i \in Attempts(p) : rows[i].status = "success"}

\* ORDER BY id DESC LIMIT 1: a singleton, or empty like S.
Newest(S) == {i \in S : \A j \in S : j <= i}

LatestSucceeded(p) == \E i \in Newest(Attempts(p)) : rows[i].status = "success"

\* previousSuccessful: the row Rollback may restore; it refuses without one.
PreviousSuccessful(p, latestOk) ==
  LET newest == Newest(SuccessfulDeployments(p))
  IN  IF latestOk THEN Newest(SuccessfulDeployments(p) \ newest) ELSE newest

DbFails == /\ dbErrors < MaxDbErrors
           /\ dbErrors' = dbErrors + 1

DbWorks == UNCHANGED dbErrors

-----------------------------------------------------------------------------
(* Trigger (deployer.go): a handler takes the guard, reads the release to   *)
(* compensate with, inserts the row and starts the worker.  A project whose *)
(* guard is taken is refused with ErrDeployInProgress, which changes        *)
(* nothing.  Handlers start only while the server accepts requests.         *)

SetCall(c, new) == call' = [call EXCEPT ![c] = new]

\* The guard is stored without looking whether it was there.
BeginTriggerUnchecked(c, p) ==
  /\ proc = "up" /\ call[c] = IdleCall
  /\ inFlight' = inFlight \cup {p}
  /\ SetCall(c, [IdleCall EXCEPT !.stage = "guarded", !.project = p])
  /\ UNCHANGED <<rows, lastId, job, live, proc, dbErrors, lost>>

BeginTrigger(c, p) ==
  /\ proc = "up" /\ call[c] = IdleCall
  /\ p \notin inFlight
  /\ inFlight' = inFlight \cup {p}
  /\ SetCall(c, [IdleCall EXCEPT !.stage = "guarded", !.project = p])
  /\ UNCHANGED <<rows, lastId, job, live, proc, dbErrors, lost>>

\* An error of the query is treated like an empty history.
ReadPreviousArtifact(c) ==
  LET successes == SuccessfulDeployments(call[c].project)
      ready     == [call[c] EXCEPT !.stage = "ready"]
  IN  /\ Alive /\ call[c].stage = "guarded"
      /\ \/ /\ DbWorks
            /\ \E i \in Newest(successes) :
                 SetCall(c, [ready EXCEPT !.artifact = rows[i].artifact])
         \/ successes = {} /\ DbWorks /\ SetCall(c, ready)
         \/ DbFails /\ SetCall(c, ready)
      /\ UNCHANGED <<rows, lastId, inFlight, job, live, proc, lost>>

(* Rollback: the reads that choose the artifact come before the guard.      *)

BeginRollback(c, p) ==
  /\ proc = "up" /\ call[c] = IdleCall
  /\ LET asked == [IdleCall EXCEPT !.project = p, !.op = "rollback"]
     IN  \/ /\ p \in HistoryProjects
            /\ SetCall(c, [asked EXCEPT !.stage = "latest",
                                        !.latestOk = LatestSucceeded(p)])
            /\ UNCHANGED inFlight
         \/ /\ p \notin HistoryProjects \cup inFlight
            /\ SetCall(c, [asked EXCEPT !.stage = "ready"])
            /\ inFlight' = inFlight \cup {p}
  /\ UNCHANGED <<rows, lastId, job, live, proc, dbErrors, lost>>

\* Either query may fail, and the choice may be empty: Rollback returns the
\* error to its caller.
ReadSuccesses(c) ==
  LET choice == PreviousSuccessful(call[c].project, call[c].latestOk)
  IN  /\ Alive /\ call[c].stage = "latest"
      /\ \/ DbWorks /\ choice = {} /\ SetCall(c, IdleCall)
         \/ /\ DbWorks
            /\ \E i \in choice :
                 SetCall(c, [call[c] EXCEPT !.stage = "chosen", !.latestOk = FALSE,
                                            !.artifact = rows[i].artifact])
         \/ DbFails /\ SetCall(c, IdleCall)
      /\ UNCHANGED <<rows, lastId, inFlight, job, live, proc, lost>>

GuardRollback(c) ==
  /\ Alive /\ call[c].stage = "chosen"
  /\ \/ /\ call[c].project \in inFlight
        /\ SetCall(c, IdleCall)
        /\ UNCHANGED inFlight
     \/ /\ call[c].project \notin inFlight
        /\ SetCall(c, [call[c] EXCEPT !.stage = "ready"])
        /\ inFlight' = inFlight \cup {call[c].project}
  /\ UNCHANGED <<rows, lastId, job, live, proc, dbErrors, lost>>

\* Trigger records no image_tag and keeps the artifact it read for
\* compensation; Rollback records and deploys the artifact it read.
CreateDeployment(c) ==
  LET id       == lastId + 1
      rollback == call[c].op = "rollback"
      artifact == IF rollback THEN call[c].artifact ELSE NoArtifact
      previous == IF rollback THEN NoArtifact ELSE call[c].artifact
  IN  /\ Alive /\ call[c].stage = "ready" /\ lastId < MaxRows
      /\ rows' = [rows EXCEPT ![id] = [project |-> call[c].project, op |-> call[c].op,
                                       status |-> "queued", artifact |-> artifact]]
      /\ job'  = [job EXCEPT ![id] = [stage |-> "spawn", artifact |-> artifact,
                                      previous |-> previous]]
      /\ lastId' = id
      /\ SetCall(c, IdleCall)
      /\ UNCHANGED <<inFlight, live, proc, dbErrors, lost>>

\* The error return forgets the guard.
CreateDeploymentKeepsGuard(c) ==
  /\ Alive /\ call[c].stage = "ready"
  /\ DbFails
  /\ SetCall(c, IdleCall)
  /\ UNCHANGED <<inFlight, rows, lastId, job, live, proc, lost>>

\* The insert fails; a table at its bound fails it too.
CreateDeploymentFails(c) ==
  /\ Alive /\ call[c].stage = "ready"
  /\ \/ DbFails
     \/ lastId = MaxRows /\ DbWorks
  /\ inFlight' = inFlight \ {call[c].project}
  /\ SetCall(c, IdleCall)
  /\ UNCHANGED <<rows, lastId, job, live, proc, lost>>

CallerStep(c) ==
  \/ ReadPreviousArtifact(c)
  \/ ReadSuccesses(c)
  \/ GuardRollback(c)
  \/ CreateDeployment(c)
  \/ CreateDeploymentFails(c)

-----------------------------------------------------------------------------
(* The worker goroutine: run, with the deferred release of the guard.       *)

Goto(i, from, to) == /\ Alive /\ job[i].stage = from
                     /\ job' = [job EXCEPT ![i].stage = to]

SetStatus(i, status) == rows' = [rows EXCEPT ![i].status = status]

\* workers.Add(1) and the go statement.
Spawn(i) ==
  /\ Goto(i, "spawn", "start")
  /\ UNCHANGED <<rows, lastId, inFlight, call, live, proc, dbErrors, lost>>

\* SetDeploymentStatus(running): on an error the worker gives up at once.
SetRunning(i) ==
  /\ \/ /\ Goto(i, "start", "target") /\ DbWorks
        /\ rows' = [rows EXCEPT ![i].status = "running", ![i].artifact = job[i].artifact]
        /\ UNCHANGED lost
     \/ /\ Goto(i, "start", "release") /\ DbFails
        /\ lost' = lost \cup {i}
        /\ UNCHANGED rows
  /\ UNCHANGED <<lastId, inFlight, call, live, proc>>

\* What a Docker target may start: Deploy a release it fetched or built, Rollback
\* the artifact of the job.  Without one, images refuse and Compose takes the commit.
Candidates(i) == IF rows[i].op = "rollback" /\ job[i].artifact # NoArtifact
                 THEN {job[i].artifact} ELSE Artifacts

\* Before it returns, or dies, the pipeline may have started another release,
\* broken the running one, or restored the previous one.
TargetActs(i) ==
  LET p == rows[i].project
  IN  /\ Alive /\ job[i].stage = "target" /\ p \in HistoryProjects
      /\ \E now \in Candidates(i) \cup {NoArtifact, job[i].previous} :
           live' = [live EXCEPT ![p] = now]
      /\ UNCHANGED <<rows, lastId, inFlight, call, job, proc, dbErrors, lost>>

\* The pipeline returns its artifact: for Docker the release it has left running
\* and found healthy, for Windows a backup, or none for a first deployment.
TargetSucceeds(i, a) ==
  LET p == rows[i].project
  IN  /\ Alive /\ job[i].stage = "target"
      /\ job' = IF a = NoArtifact THEN [job EXCEPT ![i].stage = "proxy"]
                ELSE [job EXCEPT ![i].stage = "record", ![i].artifact = a]
      /\ \/ p \in HistoryProjects /\ a \in Candidates(i) /\ live' = [live EXCEPT ![p] = a]
         \/ p \notin HistoryProjects /\ UNCHANGED live
      /\ UNCHANGED <<rows, lastId, inFlight, call, proc, dbErrors, lost>>

\* The worker returns on the error without recording it.
TargetFailsSilently(i) ==
  /\ Goto(i, "target", "release")
  /\ UNCHANGED <<rows, lastId, inFlight, call, live, proc, dbErrors, lost>>

\* The error of the pipeline is overwritten before it is looked at.
TargetErrorIgnored(i) ==
  /\ Goto(i, "target", "record")
  /\ UNCHANGED <<rows, lastId, inFlight, call, live, proc, dbErrors, lost>>

\* The pipeline fails, is cancelled or times out, whatever it has done by then.
TargetFails(i) ==
  /\ Goto(i, "target", "finishFailed")
  /\ UNCHANGED <<rows, lastId, inFlight, call, live, proc, dbErrors, lost>>

\* SetDeploymentStatus with the artifact: an error is only logged.
RecordArtifact(i) ==
  /\ Goto(i, "record", "proxy")
  /\ \/ DbWorks /\ rows' = [rows EXCEPT ![i].status = "running",
                                        ![i].artifact = job[i].artifact]
     \/ DbFails /\ UNCHANGED rows
  /\ UNCHANGED <<lastId, inFlight, call, live, proc, lost>>

\* registerProxy; cleanupRetiredProxy never fails a deployment.
Register(i) ==
  /\ \/ Goto(i, "proxy", "finishOk")
     \/ Goto(i, "proxy", "finishFailed")
  /\ UNCHANGED <<rows, lastId, inFlight, call, live, proc, dbErrors, lost>>

\* A failed deployment is finished but the pipeline carries on.
FinishFallsThrough(i, outcome, at) ==
  /\ Goto(i, at, IF outcome = "failed" THEN "finishOk" ELSE "release") /\ DbWorks
  /\ SetStatus(i, outcome)
  /\ UNCHANGED <<lastId, inFlight, call, live, proc, lost>>

\* FinishDeployment, of fail and of the success path: an error is only logged.
Finish(i, outcome, at) ==
  /\ Goto(i, at, "release")
  /\ \/ DbWorks /\ SetStatus(i, outcome) /\ UNCHANGED lost
     \/ DbFails /\ lost' = lost \cup {i} /\ UNCHANGED rows
  /\ UNCHANGED <<lastId, inFlight, call, live, proc>>

\* The guard is dropped as soon as the worker runs, not when it returns.
ReleaseEarly(i) ==
  /\ Alive /\ Active(i)
  /\ inFlight' = inFlight \ {rows[i].project}
  /\ job' = IF job[i].stage = "release" THEN [job EXCEPT ![i] = NoJob] ELSE job
  /\ UNCHANGED <<rows, lastId, call, live, proc, dbErrors, lost>>

\* The deferred inFlight.Delete and workers.Done.
Release(i) ==
  /\ Alive /\ job[i].stage = "release"
  /\ job' = [job EXCEPT ![i] = NoJob]
  /\ inFlight' = inFlight \ {rows[i].project}
  /\ UNCHANGED <<rows, lastId, call, live, proc, dbErrors, lost>>

WorkerStep(i) ==
  \/ Spawn(i)
  \/ SetRunning(i)
  \/ \E a \in Recorded : TargetSucceeds(i, a)
  \/ TargetFails(i)
  \/ RecordArtifact(i)
  \/ Register(i)
  \/ Finish(i, "success", "finishOk")
  \/ Finish(i, "failed", "finishFailed")
  \/ Release(i)

-----------------------------------------------------------------------------
(* The process: serve's shutdown sequence, a crash, and the next boot.      *)

Drained  == \A c \in Callers : call[c] = IdleCall
NoWorker == \A i \in Ids : ~Active(i)

Shutdown ==
  /\ proc = "up"
  /\ proc' = "draining"
  /\ UNCHANGED <<rows, lastId, inFlight, call, job, live, dbErrors, lost>>

\* httpServer.Shutdown returns when every handler has, or after 10 seconds.
StopDeployer ==
  /\ proc = "draining"
  /\ \/ /\ Drained /\ \A i \in Ids : job[i].stage # "spawn"
        /\ proc' = "stopping"
     \/ proc' = "aborting"
  /\ UNCHANGED <<rows, lastId, inFlight, call, job, live, dbErrors, lost>>

\* The end of the process takes its handlers, workers and guards with it.
Ends == /\ inFlight' = {}
        /\ call' = [c \in Callers |-> IdleCall]
        /\ job'  = [i \in Ids |-> NoJob]
        /\ UNCHANGED <<rows, lastId, live, dbErrors, lost>>

\* Stop cancels the workers but does not wait for them.
ExitCleanWithoutWaiting ==
  /\ proc = "stopping"
  /\ proc' = "stopped"
  /\ Ends

\* Deployer.Stop returns because workers.Wait did.
ExitClean ==
  /\ proc = "stopping" /\ NoWorker
  /\ proc' = "stopped"
  /\ Ends

\* A crash, or Deployer.Stop giving up after 30 seconds.
Killed ==
  /\ Alive
  /\ proc' = "killed"
  /\ Ends

\* FailInterruptedDeployments (an error is only logged), then PruneDeployments
\* of the terminal rows started before the cutoff.
Boot ==
  /\ ~Alive
  /\ proc' = "up"
  /\ \E cutoff \in 0..lastId :
       LET open      == {i \in Ids : rows[i].status \in Open}
           Close(r)  == IF r.status \in Open THEN [r EXCEPT !.status = "failed"] ELSE r
           Prune(i, r) == IF i <= cutoff /\ r.status \in Terminal THEN AbsentRow ELSE r
       IN  \/ /\ DbWorks
              /\ rows' = [i \in Ids |-> Prune(i, Close(rows[i]))]
              /\ lost' = {}
           \/ /\ DbFails
              /\ rows' = [i \in Ids |-> Prune(i, rows[i])]
              /\ lost' = open
  /\ UNCHANGED <<lastId, inFlight, call, job, live>>

Next ==
  \/ \E c \in Callers, p \in Projects : BeginTrigger(c, p) \/ BeginRollback(c, p)
  \/ \E c \in Callers : CallerStep(c)
  \/ \E i \in Ids : WorkerStep(i) \/ TargetActs(i)
  \/ Shutdown
  \/ StopDeployer
  \/ ExitClean
  \/ Killed
  \/ Boot

\* The worker of a row is inside the calls that reach the target.
AtTarget(i) == job[i].stage = "target"

\* The calls on the database return, the Caddy client has a timeout, and the
\* service manager restarts the process.  A call on the target need not return:
\* the deadline of the job reaches neither the SSH handshake, nor WinRM at once,
\* nor the pipes a local script left open.  Requests, shutdowns and crashes are
\* never owed.
Fairness ==
  /\ \A c \in Callers : WF_vars(CallerStep(c))
  /\ \A i \in Ids : WF_vars(~AtTarget(i) /\ WorkerStep(i))
  /\ WF_vars(Boot)

Spec     == Init /\ [][Next]_vars
FairSpec == Spec /\ Fairness

-----------------------------------------------------------------------------
(* Properties.                                                             *)

\* No two handlers or workers are ever past the guard of one project: "Only
\* one deploy runs per project at a time" (website/docs/how-to/
\* deploy-rollback.md), across Trigger, Rollback, failing inserts and errors
\* in the worker.
SingleFlight ==
  /\ \A i, j \in Ids :
       Active(i) /\ Active(j) /\ rows[i].project = rows[j].project => i = j
  /\ \A c, d \in Callers :
       Holding(c) /\ Holding(d) /\ call[c].project = call[d].project => c = d
  /\ \A i \in Ids, c \in Callers :
       Active(i) /\ Holding(c) => rows[i].project # call[c].project

\* A project is marked in flight exactly while somebody is responsible for
\* clearing the mark: no return path leaks the guard, which would refuse every
\* later deployment of the project until a restart.
NoGuardLeak == inFlight = {p \in Projects : HasOwner(p)}

\* The artifact a deployment would restore on failure, read once when it was
\* triggered, is still the newest successful release of the project whenever
\* the pipeline may use it: no other job has finished in between.
CompensationIsCurrent ==
  \A i \in Ids :
    Active(i) /\ job[i].previous # NoArtifact =>
      \E j \in Ids :
        /\ rows[j].project = rows[i].project /\ rows[j].status = "success"
        /\ rows[j].artifact = job[i].previous
        /\ \A k \in Ids \ {i} : rows[k].project = rows[i].project
                                 /\ rows[k].status = "success" => k <= j

\* While the service runs, an open row without a worker is one whose status
\* write failed: every return path of run and every shutdown accounts for its row.
OpenRowsHaveWorkers ==
  Alive => \A i \in Ids : rows[i].status \in Open => Active(i) \/ i \in lost

\* If Deployer.Stop saw every worker return after every handler had, the
\* process leaves no open row behind but those whose write failed: "Call it
\* before closing the database during service shutdown" (deployer.go).
CleanStopLeavesNothingOpen ==
  proc = "stopped" => {i \in Ids : rows[i].status \in Open} \subseteq lost

\* When nothing is in flight and the newest attempt of a Docker project is a
\* success with a recorded artifact, that artifact is the release that is live.
SettledHistoryIsLive ==
  \A p \in HistoryProjects :
    p \notin inFlight /\ LatestSucceeded(p) =>
      \A i \in Newest(Attempts(p)) : rows[i].artifact \in {live[p], NoArtifact}

\* Attempts of one project succeed in the order of their ids, so the newest row
\* tells how the project's last deployment ended: Rollback and the dashboard
\* both rely on it.
SuccessesInOrder ==
  [][\A i \in Ids : rows[i].status # "success" /\ rows'[i].status = "success" =>
       \A j \in Ids : rows[j].project = rows[i].project => j <= i]_rows

\* Nothing but a call on the target can hold a project for good: the guard is
\* released in the end, or a worker of the project is inside such a call, before
\* the target is reached and after it has answered alike, whatever else fails.
GuardEventuallyReleased ==
  \A p \in Projects :
    p \in inFlight ~> \/ p \notin inFlight
                       \/ \E i \in Ids : AtTarget(i) /\ rows[i].project = p

\* Every accepted deployment is decided in the end, by its worker or by the next
\* boot, unless its target does not answer or a status write of it failed.
AcceptedDeploymentEnds ==
  \A i \in Ids : rows[i].status \in Open
                   ~> rows[i].status \notin Open \/ AtTarget(i) \/ i \in lost

\* The deployer implements the abstract history of deployments.
History == INSTANCE DeployHistory WITH
  status <- [i \in Ids |-> rows[i].status],
  owner  <- [i \in Ids |-> rows[i].project],
  active <- {i \in Ids : Active(i)}

ImplementsHistory == History!Spec

\* When a rollback is accepted, it restores what previousSuccessful says of the
\* history at that moment: the newest success after a failed attempt, the
\* success before it after a successful one (deployer.go).
RollbackRestoresPrior ==
  [][\A i \in Ids :
       /\ rows[i].status = "absent" /\ rows'[i].status = "queued"
       /\ rows'[i].op = "rollback" /\ rows'[i].project \in HistoryProjects
       => LET p == rows'[i].project
          IN  \E j \in PreviousSuccessful(p, LatestSucceeded(p)) :
                rows[j].artifact = rows'[i].artifact]_rows

=============================================================================
