------------------------ MODULE DeployerHistory_proofs ------------------------
(***************************************************************************)
(* What the deployments table says about the deployments, for any          *)
(* projects, handlers and bounds.                                          *)
(*                                                                         *)
(* Everything here rests on the guard (IInv of Deployer_proofs): nobody    *)
(* else works on a project while a worker does.  So the row of a worker is *)
(* the newest of its project (NewestInv); from there, a row is decided or  *)
(* its write was lost before its worker returns (OutcomeInv), the release  *)
(* a worker may restore stays the newest success (CurrentInv), and the     *)
(* newest success is what is live (LiveInv).                               *)
(***************************************************************************)
EXTENDS Deployer_proofs

NewestInv ==
  \A i \in Ids : Active(i) =>
    \A j \in Ids : rows[j].project = rows[i].project => j <= i

OutcomeInv ==
  /\ \A i \in Ids : job[i].stage = "release" => rows[i].status \in Terminal \/ i \in lost
  /\ OpenRowsHaveWorkers
  /\ CleanStopLeavesNothingOpen

\* a is the artifact of the newest success of p, the row "but" left aside.
IsNewestSuccess(a, p, but) ==
  \E j \in Ids \ {but} :
    /\ rows[j].project = p /\ rows[j].status = "success" /\ rows[j].artifact = a
    /\ \A k \in Ids \ {but} : rows[k].project = p /\ rows[k].status = "success" => k <= j

CurrentInv ==
  /\ \A i \in Ids : Active(i) /\ job[i].previous # NoArtifact =>
       IsNewestSuccess(job[i].previous, rows[i].project, i)
  /\ \A c \in Callers :
       /\ call[c].stage = "guarded" => call[c].artifact = NoArtifact
       /\ call[c].stage \in {"latest", "chosen"} => call[c].op = "rollback"
       /\ call[c].stage = "ready" /\ call[c].op = "deploy" /\ call[c].artifact # NoArtifact
            => IsNewestSuccess(call[c].artifact, call[c].project, 0)

\* The artifact recorded for row i, if any, is the release that is live.
RecordsLive(i) == rows[i].artifact \in {live[rows[i].project], NoArtifact}

LiveRow(i) ==
  /\ job[i].stage \in {"spawn", "start", "target"} /\ rows[i].op = "deploy"
       => job[i].artifact = NoArtifact
  /\ job[i].stage = "target" => rows[i].artifact = job[i].artifact
  /\ rows[i].project \in HistoryProjects =>
       /\ job[i].stage = "record" => job[i].artifact = live[rows[i].project]
       /\ job[i].stage \in {"record", "proxy", "finishOk"} => RecordsLive(i)
       /\ rows[i].status = "success" /\ i \in Newest(Attempts(rows[i].project))
            => RecordsLive(i)

LiveInv == \A i \in Ids : LiveRow(i)

HInv == NewestInv /\ OutcomeInv /\ CurrentInv /\ LiveInv

-----------------------------------------------------------------------------
(* What the steps leave alone.                                             *)

\* The steps after which the table, the workers and the releases are as before.
Quiet == UNCHANGED <<rows, job, live, lost, lastId>>

\* Every step is one of these.
LEMMA StepKinds ==
  ASSUME [Next]_vars
  PROVE  \/ UNCHANGED vars
         \/ \E c \in Callers, p \in Projects : BeginTrigger(c, p) \/ BeginRollback(c, p)
         \/ \E c \in Callers : ReadPreviousArtifact(c) \/ ReadSuccesses(c) \/ GuardRollback(c)
                               \/ CreateDeploymentFails(c)
         \/ \E c \in Callers : CreateDeployment(c)
         \/ \E i \in Ids : WorkerStep(i)
         \/ \E i \in Ids : TargetActs(i)
         \/ Shutdown \/ StopDeployer
         \/ ExitClean \/ Killed
         \/ Boot
  BY DEF Next, CallerStep

\* A handler that does not insert, and the process until it ends, are quiet.
LEMMA QuietSteps ==
  /\ UNCHANGED vars => Quiet
  /\ \A c \in Callers, p \in Projects : BeginTrigger(c, p) \/ BeginRollback(c, p) => Quiet
  /\ \A c \in Callers : ReadPreviousArtifact(c) \/ ReadSuccesses(c) \/ GuardRollback(c)
                        \/ CreateDeploymentFails(c) => Quiet
  /\ Shutdown \/ StopDeployer => Quiet
  BY DEF Quiet, vars, BeginTrigger, BeginRollback, ReadPreviousArtifact, ReadSuccesses,
         GuardRollback, CreateDeploymentFails, Shutdown, StopDeployer

\* A worker writes its own row and job only, and never their project, operation
\* or release to compensate with.
LEMMA WorkerFrame ==
  ASSUME IInv, NEW i \in Ids, WorkerStep(i)
  PROVE  /\ Alive /\ Active(i) /\ UNCHANGED <<call, lastId, proc>>
         /\ \A j \in Ids \ {i} : job'[j] = job[j] /\ rows'[j] = rows[j]
         /\ rows'[i].project = rows[i].project /\ rows'[i].op = rows[i].op
         /\ Active(i)' => job'[i].previous = job[i].previous
<1> USE DEF IInv, TypeOK, Active, Goto, NoJob
<1>1. CASE Spawn(i)
  BY <1>1 DEF Spawn, Job
<1>2. CASE SetRunning(i)
  BY <1>2 DEF SetRunning, Job, Row
<1>3. ASSUME NEW a \in Recorded, TargetSucceeds(i, a)
      PROVE  /\ Alive /\ Active(i) /\ UNCHANGED <<call, lastId, proc>>
             /\ \A j \in Ids \ {i} : job'[j] = job[j] /\ rows'[j] = rows[j]
             /\ rows'[i].project = rows[i].project /\ rows'[i].op = rows[i].op
             /\ Active(i)' => job'[i].previous = job[i].previous
  BY <1>3 DEF TargetSucceeds, Job
<1>4. CASE TargetFails(i)
  BY <1>4 DEF TargetFails, Job
<1>5. CASE RecordArtifact(i)
  BY <1>5 DEF RecordArtifact, Job, Row
<1>6. CASE Register(i)
  BY <1>6 DEF Register, Job
<1>7. CASE Finish(i, "success", "finishOk") \/ Finish(i, "failed", "finishFailed")
  BY <1>7 DEF Finish, SetStatus, Job, Row
<1>8. CASE Release(i)
  BY <1>8 DEF Release
<1>9. QED
  BY <1>1, <1>2, <1>3, <1>4, <1>5, <1>6, <1>7, <1>8 DEF WorkerStep

\* An insert adds a row above every other, of a project nobody works on.
LEMMA CreateFrame ==
  ASSUME IInv, NEW c \in Callers, CreateDeployment(c)
  PROVE  \E i \in Ids :
           /\ i = lastId + 1 /\ rows[i] = AbsentRow /\ job[i] = NoJob /\ Alive
           /\ \A j \in Ids : j > i => rows[j] = AbsentRow
           /\ rows'[i].project = call[c].project /\ call[c].project \in Projects
           /\ rows'[i].status = "queued" /\ rows'[i].op = call[c].op
           /\ job'[i].stage = "spawn" /\ job'[i].artifact = rows'[i].artifact
           /\ call[c].op = "deploy" => job'[i].artifact = NoArtifact
           /\ job'[i].previous = IF call[c].op = "rollback" THEN NoArtifact
                                                           ELSE call[c].artifact
           /\ \A j \in Ids \ {i} : job'[j] = job[j] /\ rows'[j] = rows[j]
           /\ \A j \in Ids : Active(j) => rows[j].project # call[c].project
           /\ Holding(c) /\ call'[c] = IdleCall
           /\ \A d \in Callers \ {c} : call'[d] = call[d]
           /\ UNCHANGED <<live, proc, lost>>
<1>0. TypeOK /\ RowInv /\ SingleFlight
  BY DEF IInv, GuardInv
<1>1. lastId + 1 \in Ids /\ \A j \in Ids : j > lastId + 1 => j > lastId
  BY <1>0, BoundsAssumption DEF TypeOK, CreateDeployment, Ids
<1>2. PICK i \in Ids : i = lastId + 1
  BY <1>1
<1>3. i > lastId
  BY <1>0, <1>2, BoundsAssumption DEF TypeOK
<1>4. rows[i] = AbsentRow /\ job[i] = NoJob /\ \A j \in Ids : j > i => rows[j] = AbsentRow
  BY <1>0, <1>1, <1>2, <1>3 DEF RowInv
<1>5. Holding(c) /\ call[c].project \in Projects /\ call[c] \in Call
  BY <1>0 DEF TypeOK, CreateDeployment, Holding, IdleCall
<1>6. \A j \in Ids : Active(j) => rows[j].project # call[c].project
  BY <1>0, <1>5 DEF SingleFlight
<1>7. /\ rows'[i] = [project |-> call[c].project, op |-> call[c].op, status |-> "queued",
                     artifact |-> IF call[c].op = "rollback" THEN call[c].artifact
                                                             ELSE NoArtifact]
      /\ job'[i] = [stage |-> "spawn",
                    artifact |-> IF call[c].op = "rollback" THEN call[c].artifact
                                                            ELSE NoArtifact,
                    previous |-> IF call[c].op = "rollback" THEN NoArtifact
                                                            ELSE call[c].artifact]
      /\ \A j \in Ids \ {i} : job'[j] = job[j] /\ rows'[j] = rows[j]
      /\ UNCHANGED <<live, proc, lost>> /\ Alive
  BY <1>0, <1>2 DEF TypeOK, CreateDeployment
<1>8. call'[c] = IdleCall /\ \A d \in Callers \ {c} : call'[d] = call[d]
  BY <1>0 DEF TypeOK, CreateDeployment, SetCall
<1>9. QED
  BY <1>2, <1>4, <1>5, <1>6, <1>7, <1>8

\* The end of the process and the next boot leave no worker and no handler.
LEMMA NobodyLeft ==
  ASSUME IInv, ExitClean \/ Killed \/ Boot
  PROVE  /\ \A i \in Ids : job'[i] = NoJob /\ ~Active(i)'
         /\ \A c \in Callers : call'[c] = IdleCall
         /\ UNCHANGED <<live, lastId>>
<1>1. /\ \A i \in Ids : job'[i] = NoJob
      /\ \A c \in Callers : call'[c] = IdleCall
      /\ UNCHANGED <<live, lastId>>
  BY DEF IInv, HaltInv, ExitClean, Killed, Ends, Boot
<1>2. QED
  BY <1>1 DEF Active, NoJob

\* A boot keeps a success as it is, together with everything above it.
LEMMA BootFrame ==
  ASSUME IInv, Boot
  PROVE  /\ \A i \in Ids : rows'[i].status = "success" =>
              /\ rows'[i] = rows[i]
              /\ \A j \in Ids : j > i => rows'[j].project = rows[j].project
         /\ \A i \in Ids : rows'[i].status \in Open => i \in lost'
<1> USE DEF IInv, TypeOK, Open, Terminal, AbsentRow
<1>1. PICK cutoff \in 0..lastId :
        LET open      == {i \in Ids : rows[i].status \in Open}
            Close(r)  == IF r.status \in Open THEN [r EXCEPT !.status = "failed"] ELSE r
            Prune(i, r) == IF i <= cutoff /\ r.status \in Terminal THEN AbsentRow ELSE r
        IN  \/ /\ DbWorks
               /\ rows' = [i \in Ids |-> Prune(i, Close(rows[i]))]
               /\ lost' = {}
            \/ /\ DbFails
               /\ rows' = [i \in Ids |-> Prune(i, rows[i])]
               /\ lost' = open
  BY DEF Boot
<1>2. cutoff \in Nat /\ Ids \subseteq Nat
  BY <1>1 DEF Ids
<1>3. \A i \in Ids : rows[i] \in Row
  OBVIOUS
<1>4. \A i \in Ids : /\ rows'[i].status = "success" => rows'[i] = rows[i] /\ i > cutoff
                     /\ rows'[i].status \in Open => i \in lost'
                     /\ i > cutoff => rows'[i].project = rows[i].project
  BY <1>1, <1>2, <1>3 DEF Row
<1>5. QED
  BY <1>2, <1>4

-----------------------------------------------------------------------------
(* The row of a worker is the newest of its project.                       *)

LEMMA NextNewest ==
  ASSUME IInv, IInv', NewestInv, [Next]_vars
  PROVE  NewestInv'
<1>1. CASE Quiet
  BY <1>1 DEF Quiet, NewestInv, Active
<1>2. ASSUME NEW i \in Ids, TargetActs(i)
      PROVE  NewestInv'
  BY <1>2 DEF TargetActs, NewestInv, Active
<1>3. ASSUME NEW i \in Ids, WorkerStep(i)
      PROVE  NewestInv'
  BY <1>3, WorkerFrame DEF NewestInv, Active
<1>4. ASSUME NEW c \in Callers, CreateDeployment(c)
      PROVE  NewestInv'
  <2>1. PICK i \in Ids :
           /\ \A j \in Ids : j > i => rows[j] = AbsentRow
           /\ rows'[i].project = call[c].project /\ call[c].project \in Projects
           /\ \A j \in Ids \ {i} : job'[j] = job[j] /\ rows'[j] = rows[j]
           /\ \A j \in Ids : Active(j) => rows[j].project # call[c].project
    BY <1>4, CreateFrame
  <2>2. \A j \in Ids : rows'[j].project = rows'[i].project => j <= i
    BY <2>1, ProjectsAssumption, BoundsAssumption DEF AbsentRow, Ids
  <2>3. QED
    BY <2>1, <2>2 DEF NewestInv, Active
<1>5. CASE ExitClean \/ Killed \/ Boot
  BY <1>5, NobodyLeft DEF NewestInv
<1>6. QED
  BY <1>1, <1>2, <1>3, <1>4, <1>5, StepKinds, QuietSteps

-----------------------------------------------------------------------------
(* A row is decided, or its write was lost, before its worker returns.     *)

\* The part of OutcomeInv a worker's step has to keep.
LEMMA WorkerOutcome ==
  ASSUME IInv, OutcomeInv, NEW i \in Ids, WorkerStep(i)
  PROVE  /\ job'[i].stage = "release" => rows'[i].status \in Terminal \/ i \in lost'
         /\ ~Active(i)' => rows'[i].status \notin Open \/ i \in lost'
         /\ lost \subseteq lost'
<1> USE DEF IInv, TypeOK, Active, Goto, NoJob, Terminal
<1>1. CASE Spawn(i)
  BY <1>1 DEF Spawn, Job
<1>2. CASE SetRunning(i)
  BY <1>2 DEF SetRunning, Job
<1>3. ASSUME NEW a \in Recorded, TargetSucceeds(i, a)
      PROVE  job'[i].stage \in {"proxy", "record"} /\ lost' = lost
  BY <1>3 DEF TargetSucceeds, Job
<1>4. CASE TargetFails(i)
  BY <1>4 DEF TargetFails, Job
<1>5. CASE RecordArtifact(i)
  BY <1>5 DEF RecordArtifact, Job
<1>6. CASE Register(i)
  BY <1>6 DEF Register, Job
<1>7. CASE Finish(i, "success", "finishOk") \/ Finish(i, "failed", "finishFailed")
  BY <1>7 DEF Finish, SetStatus, Job, Row
<1>8. CASE Release(i)
  BY <1>8 DEF Release, OutcomeInv, Open, Row
<1>9. QED
  BY <1>1, <1>2, <1>3, <1>4, <1>5, <1>6, <1>7, <1>8 DEF WorkerStep

LEMMA NextOutcome ==
  ASSUME IInv, IInv', OutcomeInv, [Next]_vars
  PROVE  OutcomeInv'
<1> USE DEF OutcomeInv, OpenRowsHaveWorkers, CleanStopLeavesNothingOpen
<1>1. CASE Quiet /\ UNCHANGED proc
  BY <1>1 DEF Quiet, Active, Alive
<1>2. CASE Shutdown \/ StopDeployer
  BY <1>2 DEF Shutdown, StopDeployer, Active, Alive
<1>3. ASSUME NEW i \in Ids, TargetActs(i)
      PROVE  OutcomeInv'
  BY <1>3 DEF TargetActs, Active, Alive
<1>4. ASSUME NEW i \in Ids, WorkerStep(i)
      PROVE  OutcomeInv'
  <2>1. /\ Alive /\ UNCHANGED proc
        /\ \A j \in Ids \ {i} : job'[j] = job[j] /\ rows'[j] = rows[j]
    BY <1>4, WorkerFrame
  <2>2. QED
    BY <1>4, <2>1, WorkerOutcome DEF Active, Alive
<1>5. ASSUME NEW c \in Callers, CreateDeployment(c)
      PROVE  OutcomeInv'
  <2>1. PICK i \in Ids :
           /\ Alive /\ job'[i].stage = "spawn"
           /\ \A j \in Ids \ {i} : job'[j] = job[j] /\ rows'[j] = rows[j]
           /\ UNCHANGED <<live, proc, lost>>
    BY <1>5, CreateFrame
  <2>2. QED
    BY <2>1 DEF Active, Alive
<1>6. CASE ExitClean \/ Killed
  BY <1>6, NobodyLeft DEF ExitClean, Killed, Ends, NoWorker, Alive, NoJob
<1>7. CASE Boot
  <2>1. proc' = "up" /\ \A i \in Ids : rows'[i].status \in Open => i \in lost'
    BY <1>7, BootFrame DEF Boot
  <2>2. QED
    BY <1>7, <2>1, NobodyLeft DEF NoJob
<1>8. QED
  <2>1. ASSUME \/ UNCHANGED vars
               \/ \E c \in Callers, p \in Projects : BeginTrigger(c, p) \/ BeginRollback(c, p)
               \/ \E c \in Callers : ReadPreviousArtifact(c) \/ ReadSuccesses(c)
                                     \/ GuardRollback(c) \/ CreateDeploymentFails(c)
        PROVE  Quiet /\ UNCHANGED proc
    BY <2>1, QuietSteps DEF vars, BeginTrigger, BeginRollback, ReadPreviousArtifact,
       ReadSuccesses, GuardRollback, CreateDeploymentFails
  <2>2. QED
    BY <1>1, <1>2, <1>3, <1>4, <1>5, <1>6, <1>7, <2>1, StepKinds

-----------------------------------------------------------------------------
(* The release a deployment would restore stays the newest success.        *)

\* The part of CurrentInv that concerns one handler.
CallCurrent(c) ==
  /\ call[c].stage = "guarded" => call[c].artifact = NoArtifact
  /\ call[c].stage \in {"latest", "chosen"} => call[c].op = "rollback"
  /\ call[c].stage = "ready" /\ call[c].op = "deploy" /\ call[c].artifact # NoArtifact
       => IsNewestSuccess(call[c].artifact, call[c].project, 0)

\* A handler reads the newest success while it holds the guard.
LEMMA ReadIsCurrent ==
  ASSUME IInv, CurrentInv, NEW c \in Callers, ReadPreviousArtifact(c)
  PROVE  CallCurrent(c)'
<1> DEFINE ready == [call[c] EXCEPT !.stage = "ready"]
<1>1. /\ call[c] \in Call /\ call \in [Callers -> Call] /\ call[c].artifact = NoArtifact
      /\ UNCHANGED rows
  BY DEF IInv, TypeOK, CurrentInv, ReadPreviousArtifact
<1>2. \/ call'[c] = ready
      \/ \E i \in Newest(SuccessfulDeployments(call[c].project)) :
           call'[c] = [ready EXCEPT !.artifact = rows[i].artifact]
  BY <1>1 DEF ReadPreviousArtifact, SetCall
<1>3. CASE call'[c] = ready
  BY <1>1, <1>3 DEF CallCurrent, Call
<1>4. ASSUME NEW i \in Newest(SuccessfulDeployments(call[c].project)),
             call'[c] = [ready EXCEPT !.artifact = rows[i].artifact]
      PROVE  CallCurrent(c)'
  <2>1. /\ call'[c].stage = "ready" /\ call'[c].project = call[c].project
        /\ call'[c].artifact = rows[i].artifact
    BY <1>1, <1>4 DEF Call
  <2>2. 0 \notin Ids
    BY BoundsAssumption DEF Ids
  <2>3. IsNewestSuccess(rows[i].artifact, call[c].project, 0)
    BY <2>2 DEF Newest, SuccessfulDeployments, Attempts, IsNewestSuccess
  <2>4. IsNewestSuccess(call[c].artifact, call[c].project, 0)'
    BY <1>1, <2>1, <2>3 DEF IsNewestSuccess
  <2>5. QED
    BY <2>1, <2>4 DEF CallCurrent
<1>5. QED
  BY <1>2, <1>3, <1>4

\* The other steps of a handler lead nowhere near a compensation.
LEMMA HandlerIsCurrent ==
  ASSUME IInv, CurrentInv, NEW c \in Callers,
         \/ \E p \in Projects : BeginTrigger(c, p) \/ BeginRollback(c, p)
         \/ ReadSuccesses(c) \/ GuardRollback(c) \/ CreateDeploymentFails(c)
  PROVE  CallCurrent(c)'
<1>0. call \in [Callers -> Call] /\ call[c] \in Call
  BY DEF IInv, TypeOK
<1>1. ASSUME NEW p \in Projects, BeginTrigger(c, p)
      PROVE  CallCurrent(c)'
  BY <1>0, <1>1 DEF BeginTrigger, SetCall, IdleCall, CallCurrent
<1>2. ASSUME NEW p \in Projects, BeginRollback(c, p)
      PROVE  CallCurrent(c)'
  <2>1. call'[c].op = "rollback" /\ call'[c].stage \in {"latest", "ready"}
    BY <1>0, <1>2 DEF BeginRollback, SetCall, IdleCall
  <2>2. QED
    BY <2>1 DEF CallCurrent
<1>3. CASE ReadSuccesses(c)
  <2>1. call[c].op = "rollback"
    BY <1>3 DEF CurrentInv, ReadSuccesses
  <2>2. \/ call'[c] = IdleCall
        \/ \E a : call'[c] = [call[c] EXCEPT !.stage = "chosen", !.latestOk = FALSE,
                                             !.artifact = a]
    BY <1>0, <1>3 DEF ReadSuccesses, SetCall
  <2>3. CASE call'[c] = IdleCall
    BY <2>3 DEF CallCurrent, IdleCall
  <2>4. ASSUME NEW a, call'[c] = [call[c] EXCEPT !.stage = "chosen", !.latestOk = FALSE,
                                                 !.artifact = a]
        PROVE  CallCurrent(c)'
    <3>1. call'[c].stage = "chosen" /\ call'[c].op = "rollback"
      BY <1>0, <2>1, <2>4 DEF Call
    <3>2. QED
      BY <3>1 DEF CallCurrent
  <2>5. QED
    BY <2>2, <2>3, <2>4
<1>4. CASE GuardRollback(c)
  <2>1. call[c].op = "rollback"
    BY <1>4 DEF CurrentInv, GuardRollback
  <2>2. call'[c] = IdleCall \/ (call'[c].stage = "ready" /\ call'[c].op = "rollback")
    BY <1>0, <1>4, <2>1 DEF GuardRollback, SetCall, Call
  <2>3. QED
    BY <2>2 DEF CallCurrent, IdleCall
<1>5. CASE CreateDeploymentFails(c)
  BY <1>0, <1>5 DEF CreateDeploymentFails, SetCall, IdleCall, CallCurrent
<1>6. QED
  BY <1>1, <1>2, <1>3, <1>4, <1>5

LEMMA NextCurrent ==
  ASSUME IInv, IInv', CurrentInv, [Next]_vars
  PROVE  CurrentInv'
<1>z. 0 \notin Ids
  BY BoundsAssumption DEF Ids
<1>a. ASSUME UNCHANGED <<rows, job>>,
             \A c \in Callers : call'[c] = call[c] \/ CallCurrent(c)'
      PROVE  CurrentInv'
  BY <1>a DEF CurrentInv, CallCurrent, IsNewestSuccess, Active
<1>1. CASE UNCHANGED vars \/ Shutdown \/ StopDeployer
  BY <1>1, <1>a DEF vars, Shutdown, StopDeployer
<1>2. ASSUME NEW c \in Callers,
             \/ \E p \in Projects : BeginTrigger(c, p) \/ BeginRollback(c, p)
             \/ ReadPreviousArtifact(c) \/ ReadSuccesses(c) \/ GuardRollback(c)
             \/ CreateDeploymentFails(c)
      PROVE  CurrentInv'
  <2>1. UNCHANGED <<rows, job>>
    BY <1>2, QuietSteps DEF Quiet
  <2>2. \A d \in Callers \ {c} : call'[d] = call[d]
    BY <1>2 DEF IInv, TypeOK, BeginTrigger, BeginRollback, ReadPreviousArtifact,
       ReadSuccesses, GuardRollback, CreateDeploymentFails, SetCall
  <2>3. CallCurrent(c)'
    BY <1>2, ReadIsCurrent, HandlerIsCurrent
  <2>4. QED
    BY <1>a, <2>1, <2>2, <2>3
<1>3. ASSUME NEW i \in Ids, TargetActs(i)
      PROVE  CurrentInv'
  BY <1>3, <1>a DEF TargetActs
<1>4. ASSUME NEW i \in Ids, WorkerStep(i)
      PROVE  CurrentInv'
  <2>1. /\ Active(i) /\ UNCHANGED call /\ rows'[i].project = rows[i].project
        /\ \A j \in Ids \ {i} : job'[j] = job[j] /\ rows'[j] = rows[j]
        /\ Active(i)' => job'[i].previous = job[i].previous
    BY <1>4, WorkerFrame
  <2>2. ASSUME NEW j \in Ids, Active(j)', job'[j].previous # NoArtifact
        PROVE  IsNewestSuccess(job[j].previous, rows[j].project, j)'
    <3>1. /\ Active(j) /\ job'[j].previous = job[j].previous
          /\ rows'[j].project = rows[j].project
      BY <2>1, <2>2 DEF Active
    <3>2. IsNewestSuccess(job[j].previous, rows[j].project, j)
      BY <2>2, <3>1 DEF CurrentInv
    <3>3. j # i => rows[j].project # rows[i].project
      BY <2>1, <3>1 DEF IInv, GuardInv, SingleFlight
    <3>4. \A k \in Ids \ {j} : \/ rows'[k] = rows[k]
                              \/ /\ rows[k].project # rows[j].project
                                 /\ rows'[k].project # rows[j].project
      BY <2>1, <3>3
    <3>5. QED
      BY <3>1, <3>2, <3>4 DEF IsNewestSuccess
  <2>3. ASSUME NEW c \in Callers
        PROVE  CallCurrent(c)'
    <3>1. CASE call[c].stage = "ready" /\ call[c].op = "deploy" /\ call[c].artifact # NoArtifact
      <4>1. IsNewestSuccess(call[c].artifact, call[c].project, 0)
        BY <3>1 DEF CurrentInv
      <4>2. rows[i].project # call[c].project
        BY <2>1, <3>1 DEF IInv, GuardInv, SingleFlight, Holding
      <4>3. \A k \in Ids \ {0} : \/ rows'[k] = rows[k]
                                \/ /\ rows[k].project # call[c].project
                                   /\ rows'[k].project # call[c].project
        BY <2>1, <4>2
      <4>4. QED
        BY <2>1, <4>1, <4>3, <3>1 DEF CallCurrent, IsNewestSuccess
    <3>2. CASE ~(call[c].stage = "ready" /\ call[c].op = "deploy"
                 /\ call[c].artifact # NoArtifact)
      BY <2>1, <3>2 DEF CurrentInv, CallCurrent
    <3>3. QED
      BY <3>1, <3>2
  <2>4. QED
    BY <2>2, <2>3 DEF CurrentInv, CallCurrent
<1>5. ASSUME NEW c \in Callers, CreateDeployment(c)
      PROVE  CurrentInv'
  <2>1. PICK i \in Ids :
           /\ rows[i] = AbsentRow /\ rows'[i].project = call[c].project
           /\ call[c].project \in Projects /\ rows'[i].status = "queued"
           /\ job'[i].previous = IF call[c].op = "rollback" THEN NoArtifact
                                                           ELSE call[c].artifact
           /\ \A j \in Ids \ {i} : job'[j] = job[j] /\ rows'[j] = rows[j]
           /\ \A j \in Ids : Active(j) => rows[j].project # call[c].project
           /\ Holding(c) /\ call'[c] = IdleCall
           /\ \A d \in Callers \ {c} : call'[d] = call[d]
    BY <1>5, CreateFrame
  <2>2. rows[i].project # call[c].project /\ call[c] \in Call /\ call[c].stage = "ready"
    BY <1>5, <2>1, ProjectsAssumption DEF AbsentRow, IInv, TypeOK, CreateDeployment
  <2>3. ASSUME NEW j \in Ids, Active(j)', job'[j].previous # NoArtifact
        PROVE  IsNewestSuccess(job[j].previous, rows[j].project, j)'
    <3>1. CASE j = i
      <4>1. call[c].op = "deploy" /\ job'[j].previous = call[c].artifact
        BY <2>1, <2>2, <2>3, <3>1 DEF Call, Ops
      <4>2. IsNewestSuccess(call[c].artifact, call[c].project, 0)
        BY <2>2, <2>3, <4>1 DEF CurrentInv
      <4>3. rows[i].project # call[c].project
        BY <2>2
      <4>4. IsNewestSuccess(call[c].artifact, call[c].project, i)
        BY <4>2, <4>3, <1>z DEF IsNewestSuccess
      <4>5. QED
        BY <2>1, <3>1, <4>1, <4>4 DEF IsNewestSuccess
    <3>2. CASE j # i
      <4>1. Active(j) /\ job'[j] = job[j] /\ rows'[j] = rows[j]
        BY <2>1, <2>3, <3>2 DEF Active
      <4>2. IsNewestSuccess(job[j].previous, rows[j].project, j)
        BY <2>3, <4>1 DEF CurrentInv
      <4>3. rows[j].project # call[c].project
        BY <2>1, <4>1
      <4>4. rows[i].project # rows[j].project \/ rows[i].status # "success"
        BY <2>1 DEF AbsentRow
      <4>5. QED
        BY <2>1, <4>1, <4>2, <4>3, <4>4 DEF IsNewestSuccess
    <3>3. QED
      BY <3>1, <3>2
  <2>4. ASSUME NEW d \in Callers
        PROVE  CallCurrent(d)'
    <3>1. CASE d = c
      BY <2>1, <3>1 DEF CallCurrent, IdleCall
    <3>2. CASE d # c
      <4>1. Holding(d) => call[d].project # call[c].project
        BY <2>1, <3>2 DEF IInv, GuardInv, SingleFlight
      <4>2. call'[d] = call[d] /\ (call[d].stage = "ready" => call[d].project # call[c].project)
        BY <2>1, <3>2, <4>1 DEF Holding
      <4>3. rows[i].status # "success"
        BY <2>1 DEF AbsentRow
      <4>4. QED
        BY <2>1, <4>2, <4>3, <1>z DEF CurrentInv, CallCurrent, IsNewestSuccess
    <3>3. QED
      BY <3>1, <3>2
  <2>5. QED
    BY <2>3, <2>4 DEF CurrentInv, CallCurrent
<1>6. CASE ExitClean \/ Killed \/ Boot
  BY <1>6, NobodyLeft DEF CurrentInv, IdleCall
<1>7. QED
  BY <1>1, <1>2, <1>3, <1>4, <1>5, <1>6, StepKinds

-----------------------------------------------------------------------------
(* The newest success is the release that is live.                         *)

LEMMA WorkerLiveRow ==
  ASSUME IInv, NewestInv, LiveInv, NEW i \in Ids, WorkerStep(i)
  PROVE  /\ LiveRow(i)'
         /\ \A p \in HistoryProjects : p # rows[i].project => live'[p] = live[p]
<1>0. /\ LiveRow(i) /\ rows[i] \in Row /\ job[i] \in Job
      /\ rows \in [Ids -> Row] /\ job \in [Ids -> Job]
      /\ live \in [HistoryProjects -> Recorded]
      /\ rows'[i].project = rows[i].project
  BY WorkerFrame DEF IInv, TypeOK, LiveInv
<1> USE DEF LiveRow, RecordsLive, Goto
<1>1. rows'[i].status = "success" =>
        rows[i].status = "success" \/ Finish(i, "success", "finishOk")
  <2> USE <1>0 DEF IInv, TypeOK, Row
  <2>1. CASE Spawn(i) \/ TargetFails(i) \/ Register(i) \/ Release(i)
    BY <2>1 DEF Spawn, TargetFails, Register, Release
  <2>2. CASE SetRunning(i) \/ RecordArtifact(i)
    BY <2>2 DEF SetRunning, RecordArtifact
  <2>3. CASE \E a \in Recorded : TargetSucceeds(i, a)
    BY <2>3 DEF TargetSucceeds
  <2>4. CASE Finish(i, "failed", "finishFailed")
    BY <2>4 DEF Finish, SetStatus
  <2>5. QED
    BY <2>1, <2>2, <2>3, <2>4 DEF WorkerStep
<1>2. i \in Newest(Attempts(rows[i].project))
  BY WorkerFrame DEF NewestInv, Newest, Attempts
<1>3. rows[i].project \in HistoryProjects /\ rows[i].status = "success" => RecordsLive(i)
  BY <1>0, <1>2
<1>4. CASE Spawn(i)
  BY <1>0, <1>3, <1>4 DEF Spawn, Job
<1>5. CASE SetRunning(i)
  BY <1>0, <1>3, <1>5 DEF SetRunning, Job, Row
<1>6. ASSUME NEW a \in Recorded, TargetSucceeds(i, a)
      PROVE  /\ LiveRow(i)'
             /\ \A p \in HistoryProjects : p # rows[i].project => live'[p] = live[p]
  <2>1. /\ job[i].stage = "target" /\ UNCHANGED rows
        /\ rows[i].artifact = job[i].artifact
        /\ rows[i].op = "deploy" => job[i].artifact = NoArtifact
        /\ rows[i].status = "running"
    BY <1>0, <1>6 DEF TargetSucceeds, IInv, RowInv
  <2>2. \A p \in HistoryProjects : p # rows[i].project => live'[p] = live[p]
    BY <1>0, <1>6 DEF TargetSucceeds
  <2>3. ASSUME rows[i].project \in HistoryProjects
        PROVE  /\ a # NoArtifact /\ live'[rows[i].project] = a
               /\ rows[i].artifact \in {a, NoArtifact}
    <3>1. a \in Candidates(i) /\ live'[rows[i].project] = a
      BY <1>0, <1>6, <2>3 DEF TargetSucceeds
    <3>2. QED
      BY <1>0, <2>1, <3>1, ArtifactsAssumption DEF Candidates, Row, Ops
  <2>4. job'[i].stage \in {"record", "proxy"}
        /\ (job'[i].stage = "record" => job'[i].artifact = a)
    BY <1>0, <1>6 DEF TargetSucceeds, Job
  <2>5. QED
    BY <1>0, <2>1, <2>2, <2>3, <2>4
<1>7. CASE TargetFails(i)
  BY <1>0, <1>3, <1>7 DEF TargetFails, Job
<1>8. CASE RecordArtifact(i)
  BY <1>0, <1>3, <1>8 DEF RecordArtifact, Job, Row
<1>9. CASE Register(i)
  BY <1>0, <1>3, <1>9 DEF Register, Job
<1>10. CASE Finish(i, "success", "finishOk") \/ Finish(i, "failed", "finishFailed")
  BY <1>0, <1>3, <1>10 DEF Finish, SetStatus, Job, Row
<1>11. CASE Release(i)
  BY <1>0, <1>3, <1>11 DEF Release, NoJob
<1>12. QED
  BY <1>4, <1>5, <1>6, <1>7, <1>8, <1>9, <1>10, <1>11 DEF WorkerStep

\* A row whose project nobody works on stays as it was.
LEMMA NextLive ==
  ASSUME IInv, IInv', NewestInv, NewestInv', LiveInv, [Next]_vars
  PROVE  LiveInv'
<1>1. CASE Quiet
  BY <1>1 DEF Quiet, LiveInv, LiveRow, RecordsLive, Newest, Attempts
<1>2. ASSUME NEW i \in Ids, TargetActs(i)
      PROVE  LiveInv'
  <2>1. /\ Active(i) /\ job[i].stage = "target" /\ rows[i].status = "running"
        /\ UNCHANGED <<rows, job>>
        /\ \A p \in HistoryProjects : p # rows[i].project => live'[p] = live[p]
    BY <1>2 DEF TargetActs, IInv, TypeOK, RowInv, Active
  <2>2. ASSUME NEW j \in Ids
        PROVE  LiveRow(j)'
    <3>1. LiveRow(j)
      BY DEF LiveInv
    <3>2. CASE rows[j].project # rows[i].project
      BY <2>1, <3>1, <3>2 DEF LiveRow, RecordsLive, Newest, Attempts
    <3>3. CASE rows[j].project = rows[i].project
      <4>1. i # j => ~Active(j) /\ i > j
        BY <2>1, <3>3, BoundsAssumption DEF IInv, GuardInv, SingleFlight, NewestInv, Ids
      <4>2. i # j => ~(j \in Newest(Attempts(rows[j].project)))
        BY <3>3, <4>1, BoundsAssumption DEF Newest, Attempts, Ids
      <4>3. QED
        BY <2>1, <3>1, <4>1, <4>2 DEF LiveRow, Newest, Attempts, Active
    <3>4. QED
      BY <3>2, <3>3
  <2>3. QED
    BY <2>2 DEF LiveInv
<1>3. ASSUME NEW i \in Ids, WorkerStep(i)
      PROVE  LiveInv'
  <2>1. /\ Active(i)
        /\ \A j \in Ids \ {i} : job'[j] = job[j] /\ rows'[j] = rows[j]
        /\ rows'[i].project = rows[i].project
    BY <1>3, WorkerFrame
  <2>2. ASSUME NEW j \in Ids \ {i}
        PROVE  LiveRow(j)'
    <3>1. LiveRow(j) /\ rows'[j] = rows[j] /\ job'[j] = job[j]
      BY <2>1 DEF LiveInv
    <3>2. j \in Newest(Attempts(rows[j].project))' <=> j \in Newest(Attempts(rows[j].project))
      BY <2>1 DEF Newest, Attempts
    <3>3. CASE rows[j].project # rows[i].project
      BY <1>3, <3>1, <3>2, <3>3, WorkerLiveRow DEF LiveRow, RecordsLive
    <3>4. CASE rows[j].project = rows[i].project
      <4>1. ~Active(j) /\ i > j
        BY <2>1, <3>4, BoundsAssumption DEF IInv, GuardInv, SingleFlight, NewestInv, Ids
      <4>2. ~(j \in Newest(Attempts(rows[j].project)))
        BY <3>4, <4>1, BoundsAssumption DEF Newest, Attempts, Ids
      <4>3. QED
        BY <3>1, <3>2, <4>1, <4>2 DEF LiveRow, Active
    <3>5. QED
      BY <3>3, <3>4
  <2>3. QED
    BY <1>3, <2>2, WorkerLiveRow DEF LiveInv
<1>4. ASSUME NEW c \in Callers, CreateDeployment(c)
      PROVE  LiveInv'
  <2>1. PICK i \in Ids :
           /\ rows[i] = AbsentRow /\ rows'[i].project = call[c].project
           /\ call[c].project \in Projects
           /\ rows'[i].status = "queued" /\ rows'[i].op = call[c].op
           /\ job'[i].stage = "spawn"
           /\ call[c].op = "deploy" => job'[i].artifact = NoArtifact
           /\ \A j \in Ids \ {i} : job'[j] = job[j] /\ rows'[j] = rows[j]
           /\ UNCHANGED live
    BY <1>4, CreateFrame
  <2>2. LiveRow(i)'
    BY <2>1 DEF LiveRow
  <2>3. ASSUME NEW j \in Ids \ {i}
        PROVE  LiveRow(j)'
    <3>1. LiveRow(j) /\ rows'[j] = rows[j] /\ job'[j] = job[j]
      BY <2>1 DEF LiveInv
    <3>2. rows[j].project \in HistoryProjects => rows[j].project # rows[i].project
      BY <2>1, ProjectsAssumption DEF AbsentRow
    <3>3. rows[j].project \in HistoryProjects /\ j \in Newest(Attempts(rows[j].project))'
            => j \in Newest(Attempts(rows[j].project))
      BY <2>1, <3>2 DEF Newest, Attempts
    <3>4. QED
      BY <2>1, <3>1, <3>3 DEF LiveRow, RecordsLive
  <2>4. QED
    BY <2>2, <2>3 DEF LiveInv
<1>5. CASE ExitClean \/ Killed
  <2>1. UNCHANGED <<rows, live>> /\ \A i \in Ids : job'[i].stage = "none"
    BY <1>5, NobodyLeft DEF ExitClean, Killed, Ends, NoJob
  <2>2. QED
    BY <2>1 DEF LiveInv, LiveRow, RecordsLive, Newest, Attempts
<1>6. CASE Boot
  <2>1. UNCHANGED live /\ \A i \in Ids : job'[i].stage = "none"
    BY <1>6, NobodyLeft DEF NoJob
  <2>2. ASSUME NEW i \in Ids, rows'[i].status = "success",
               i \in Newest(Attempts(rows[i].project))'
        PROVE  rows'[i] = rows[i] /\ i \in Newest(Attempts(rows[i].project))
    <3>1. rows'[i] = rows[i] /\ \A j \in Ids : j > i => rows'[j].project = rows[j].project
      BY <1>6, <2>2, BootFrame
    <3>2. QED
      BY <2>2, <3>1, BoundsAssumption DEF Newest, Attempts, Ids
  <2>3. QED
    BY <2>1, <2>2 DEF LiveInv, LiveRow, RecordsLive
<1>7. QED
  BY <1>1, <1>2, <1>3, <1>4, <1>5, <1>6, StepKinds, QuietSteps

-----------------------------------------------------------------------------

LEMMA InitHInv == Init => HInv
  BY DEF Init, HInv, NewestInv, OutcomeInv, OpenRowsHaveWorkers, CleanStopLeavesNothingOpen,
     CurrentInv, LiveInv, LiveRow, Active, NoJob, IdleCall, AbsentRow, Open

LEMMA NextHInv == IInv /\ IInv' /\ HInv /\ [Next]_vars => HInv'
<1> SUFFICES ASSUME IInv, IInv', HInv, [Next]_vars PROVE HInv'
  OBVIOUS
<1>1. NewestInv'
  BY NextNewest DEF HInv
<1>2. OutcomeInv' /\ CurrentInv'
  BY NextOutcome, NextCurrent DEF HInv
<1>3. LiveInv'
  BY <1>1, NextLive DEF HInv
<1>4. QED
  BY <1>1, <1>2, <1>3 DEF HInv

LEMMA HistoryInvariance == Spec => [](IInv /\ HInv)
  BY Invariance, InitHInv, NextHInv, PTL DEF Spec

\* While the service runs, a row is open only if its worker is still at it or
\* its status write failed.
THEOREM OpenRowsAreOwned == Spec => []OpenRowsHaveWorkers
<1>1. HInv => OpenRowsHaveWorkers
  BY DEF HInv, OutcomeInv
<1>2. QED
  BY <1>1, HistoryInvariance, PTL

\* A Deployer.Stop that waited for its workers leaves no open row, but those
\* whose status write failed.
THEOREM StopIsClean == Spec => []CleanStopLeavesNothingOpen
<1>1. HInv => CleanStopLeavesNothingOpen
  BY DEF HInv, OutcomeInv
<1>2. QED
  BY <1>1, HistoryInvariance, PTL

\* What a deployment would restore on failure is the newest success of its
\* project for as long as it may restore it.
THEOREM CompensationStaysCurrent == Spec => []CompensationIsCurrent
<1>1. HInv => CompensationIsCurrent
  BY DEF HInv, CurrentInv, IsNewestSuccess, CompensationIsCurrent
<1>2. QED
  BY <1>1, HistoryInvariance, PTL

\* If the newest attempt of a Docker project succeeded and recorded an artifact,
\* that artifact is live once the project is not being worked on (and before).
THEOREM HistoryIsLive == Spec => []SettledHistoryIsLive
<1>1. HInv => SettledHistoryIsLive
  <2> SUFFICES ASSUME HInv, NEW p \in HistoryProjects, LatestSucceeded(p),
                      NEW i \in Newest(Attempts(p))
               PROVE  rows[i].artifact \in {live[p], NoArtifact}
    BY DEF SettledHistoryIsLive
  <2>1. i \in Ids /\ rows[i].project = p
    BY DEF Newest, Attempts
  <2>2. rows[i].status = "success"
    <3>1. PICK j \in Newest(Attempts(p)) : rows[j].status = "success"
      BY DEF LatestSucceeded
    <3>2. i = j
      BY <3>1, BoundsAssumption DEF Newest, Attempts, Ids
    <3>3. QED
      BY <3>1, <3>2
  <2>3. QED
    BY <2>1, <2>2 DEF HInv, LiveInv, LiveRow, RecordsLive
<1>2. QED
  BY <1>1, HistoryInvariance, PTL

\* A row becomes a success only while it is the newest of its project.
THEOREM RowsSucceedInOrder == Spec => SuccessesInOrder
<1> DEFINE InOrder ==
      \A i \in Ids : rows[i].status # "success" /\ rows'[i].status = "success" =>
        \A j \in Ids : rows[j].project = rows[i].project => j <= i
<1>1. IInv /\ HInv /\ [Next]_vars => InOrder
  <2> SUFFICES ASSUME IInv, HInv, [Next]_vars, NEW i \in Ids,
                      rows[i].status # "success", rows'[i].status = "success"
               PROVE  \A j \in Ids : rows[j].project = rows[i].project => j <= i
    OBVIOUS
  <2>1. Active(i)
    <3>1. CASE Quiet
      BY <3>1 DEF Quiet
    <3>2. ASSUME NEW k \in Ids, TargetActs(k)
          PROVE  FALSE
      BY <3>2 DEF TargetActs
    <3>3. ASSUME NEW k \in Ids, WorkerStep(k)
          PROVE  Active(i)
      BY <3>3, WorkerFrame
    <3>4. ASSUME NEW c \in Callers, CreateDeployment(c)
          PROVE  FALSE
      BY <3>4, CreateFrame
    <3>5. CASE ExitClean \/ Killed
      BY <3>5 DEF ExitClean, Killed, Ends
    <3>6. CASE Boot
      BY <3>6, BootFrame
    <3>7. QED
      BY <3>1, <3>2, <3>3, <3>4, <3>5, <3>6, StepKinds, QuietSteps
  <2>2. QED
    BY <2>1 DEF HInv, NewestInv
<1>2. IInv /\ HInv /\ [Next]_vars => [InOrder]_rows
  BY <1>1
<1>3. QED
  BY <1>2, HistoryInvariance, PTL DEF Spec, SuccessesInOrder

-----------------------------------------------------------------------------
(* The deployer implements the abstract history, step by step.             *)

Statuses == [i \in Ids |-> rows[i].status]
Owners   == [i \in Ids |-> rows[i].project]
Workers  == {i \in Ids : Active(i)}

\* Steps the history does not see.
LEMMA Stutters ==
  ASSUME UNCHANGED <<Statuses, Owners, Workers>>
  PROVE  UNCHANGED History!vars
  BY DEF Statuses, Owners, Workers, History!vars

LEMMA InsertAccepts ==
  ASSUME IInv, NEW c \in Callers, CreateDeployment(c)
  PROVE  \E i \in Ids, p \in Projects : History!Accept(i, p)
<1>1. PICK i \in Ids :
        /\ rows[i] = AbsentRow /\ job[i] = NoJob
        /\ rows'[i].project = call[c].project /\ call[c].project \in Projects
        /\ rows'[i].status = "queued" /\ job'[i].stage = "spawn"
        /\ \A j \in Ids \ {i} : job'[j] = job[j] /\ rows'[j] = rows[j]
        /\ \A j \in Ids : Active(j) => rows[j].project # call[c].project
  BY CreateFrame
<1>2. Statuses[i] = "absent" /\ \A j \in Workers : Owners[j] # call[c].project
  BY <1>1 DEF Statuses, Owners, Workers, AbsentRow
<1>3. Statuses' = [Statuses EXCEPT ![i] = "queued"]
  BY <1>1 DEF Statuses
<1>4. Owners' = [Owners EXCEPT ![i] = call[c].project]
  BY <1>1 DEF Owners
<1>5. Workers' = Workers \cup {i}
  BY <1>1 DEF Workers, Active
<1>6. ASSUME NEW p, p = call[c].project
      PROVE  History!Accept(i, p)
  BY <1>6, <1>2, <1>3, <1>4, <1>5 DEF Statuses, Owners, Workers, History!Accept
<1>7. QED
  BY <1>1, <1>6

\* A worker that moves on is at the stage it went to.
LEMMA WentTo ==
  ASSUME job \in [Ids -> Job], NEW i \in Ids, NEW from, NEW to, Goto(i, from, to)
  PROVE  job'[i].stage = to
  BY DEF Goto, Job

LEMMA WorkerRefines ==
  ASSUME IInv, NEW i \in Ids, WorkerStep(i)
  PROVE  [History!Next]_History!vars
<1>0. /\ rows \in [Ids -> Row] /\ job \in [Ids -> Job] /\ i \in Workers
      /\ \A j \in Ids \ {i} : job'[j] = job[j] /\ rows'[j] = rows[j]
      /\ rows'[i].project = rows[i].project
  BY WorkerFrame DEF IInv, TypeOK, Workers
<1>1. UNCHANGED Owners
  BY <1>0 DEF Owners
<1>a. ASSUME Active(i)' PROVE UNCHANGED Workers
  BY <1>0, <1>a DEF Workers, Active
<1>s. ASSUME Active(i)', rows'[i].status = rows[i].status
      PROVE  UNCHANGED History!vars
  <2>1. UNCHANGED Statuses
    BY <1>0, <1>s DEF Statuses
  <2>2. QED
    BY <1>1, <1>a, <1>s, <2>1, Stutters
<1>2. CASE Spawn(i)
  BY <1>0, <1>2, <1>s, WentTo DEF Spawn, Active
<1>3. CASE SetRunning(i)
  <2>1. Active(i)'
    BY <1>0, <1>3, WentTo DEF SetRunning, Active
  <2>2. CASE UNCHANGED rows
    BY <1>s, <2>1, <2>2
  <2>3. CASE rows' = [rows EXCEPT ![i].status = "running", ![i].artifact = job[i].artifact]
    <3>1. Statuses[i] = "queued"
      BY <1>3 DEF SetRunning, Goto, IInv, RowInv, Statuses
    <3>2. rows'[i].status = "running"
      BY <1>0, <2>3 DEF Row
    <3>3. Statuses' = [Statuses EXCEPT ![i] = "running"]
      BY <1>0, <3>2 DEF Statuses
    <3>4. History!Run(i)
      BY <1>0, <1>1, <1>a, <2>1, <3>1, <3>3 DEF Statuses, Owners, Workers, History!Run
    <3>5. QED
      BY <3>4 DEF History!Next
  <2>4. QED
    BY <1>3, <2>2, <2>3 DEF SetRunning
<1>4. ASSUME NEW a \in Recorded, TargetSucceeds(i, a)
      PROVE  UNCHANGED History!vars
  BY <1>0, <1>4, <1>s DEF TargetSucceeds, Active
<1>5. CASE TargetFails(i)
  BY <1>0, <1>5, <1>s, WentTo DEF TargetFails, Active
<1>6. CASE RecordArtifact(i)
  <2>1. rows[i].status = "running" /\ Active(i)'
    BY <1>0, <1>6, WentTo DEF RecordArtifact, IInv, RowInv, Active, Goto
  <2>2. rows'[i].status = "running"
    BY <1>0, <1>6, <2>1 DEF RecordArtifact, Row
  <2>3. QED
    BY <1>s, <2>1, <2>2
<1>7. CASE Register(i)
  <2>1. Active(i)' /\ UNCHANGED rows
    BY <1>0, <1>7, WentTo DEF Register, Active
  <2>2. QED
    BY <1>s, <2>1
<1>8. ASSUME NEW outcome \in Terminal, NEW at \in {"finishOk", "finishFailed"},
             Finish(i, outcome, at)
      PROVE  [History!Next]_History!vars
  <2>1. rows[i].status = "running" /\ Active(i)'
    BY <1>0, <1>8, WentTo DEF Finish, IInv, RowInv, Active, Goto
  <2>2. CASE UNCHANGED rows
    BY <1>s, <2>1, <2>2
  <2>3. CASE SetStatus(i, outcome)
    <3>1. Statuses[i] = "running" /\ Statuses' = [Statuses EXCEPT ![i] = outcome]
      BY <1>0, <2>1, <2>3 DEF Statuses, SetStatus, Row
    <3>2. History!Finish(i, outcome)
      BY <1>0, <1>1, <1>a, <2>1, <3>1 DEF Statuses, Owners, Workers, History!Finish
    <3>3. QED
      BY <3>2 DEF History!Next, Terminal, History!Terminal
  <2>4. QED
    BY <1>8, <2>2, <2>3 DEF Finish
<1>9. CASE Release(i)
  <2>1. UNCHANGED Statuses /\ job'[i].stage = "none"
    BY <1>0, <1>9 DEF Release, Statuses, NoJob
  <2>2. Workers' = Workers \ {i}
    BY <1>0, <2>1 DEF Workers, Active
  <2>3. History!Relinquish(i)
    BY <1>0, <1>1, <2>1, <2>2 DEF Statuses, Owners, Workers, History!Relinquish
  <2>4. QED
    BY <2>3 DEF History!Next
<1>10. QED
  BY <1>2, <1>3, <1>4, <1>5, <1>6, <1>7, <1>8, <1>9 DEF WorkerStep, Terminal

LEMMA BootRecovers ==
  ASSUME IInv, Boot
  PROVE  \E pruned \in SUBSET Ids, closes \in BOOLEAN : History!Recover(pruned, closes)
<1> USE DEF IInv, TypeOK
<1>1. PICK cutoff \in 0..lastId :
        LET open      == {i \in Ids : rows[i].status \in Open}
            Close(r)  == IF r.status \in Open THEN [r EXCEPT !.status = "failed"] ELSE r
            Prune(i, r) == IF i <= cutoff /\ r.status \in Terminal THEN AbsentRow ELSE r
        IN  \/ /\ DbWorks
               /\ rows' = [i \in Ids |-> Prune(i, Close(rows[i]))]
               /\ lost' = {}
            \/ /\ DbFails
               /\ rows' = [i \in Ids |-> Prune(i, rows[i])]
               /\ lost' = open
  BY DEF Boot
<1>2. Workers = {} /\ Workers' = {}
  BY NobodyLeft DEF Boot, HaltInv, Workers, Active, NoJob
<1>3. \A i \in Ids : rows[i] \in Row
  OBVIOUS
<1>4. ASSUME NEW closes \in BOOLEAN, NEW pruned \in SUBSET Ids,
             \A i \in pruned : rows[i].status \in Terminal
                               \/ (closes /\ rows[i].status \in Open),
             \A i \in Ids :
               /\ rows'[i].status = IF i \in pruned THEN "absent"
                                    ELSE IF closes /\ rows[i].status \in Open THEN "failed"
                                    ELSE rows[i].status
               /\ rows'[i].project = IF i \in pruned THEN NoProject ELSE rows[i].project
      PROVE  History!Recover(pruned, closes)
  BY <1>2, <1>4 DEF Workers, History!Recover, History!Open, History!Terminal, Open, Terminal
<1>5. CASE rows' = [i \in Ids |-> IF i <= cutoff /\ rows[i].status \in Terminal
                                  THEN AbsentRow ELSE rows[i]]
  <2> DEFINE pruned == {i \in Ids : i <= cutoff /\ rows[i].status \in Terminal}
  <2>1. \A i \in Ids :
          /\ rows'[i].status = IF i \in pruned THEN "absent" ELSE rows[i].status
          /\ rows'[i].project = IF i \in pruned THEN NoProject ELSE rows[i].project
    BY <1>5 DEF AbsentRow
  <2>2. History!Recover(pruned, FALSE)
    BY <1>4, <2>1
  <2>3. QED
    BY <2>2
<1>6. CASE rows' = [i \in Ids |->
                      LET r == IF rows[i].status \in Open
                               THEN [rows[i] EXCEPT !.status = "failed"] ELSE rows[i]
                      IN  IF i <= cutoff /\ r.status \in Terminal THEN AbsentRow ELSE r]
  <2> DEFINE pruned == {i \in Ids : i <= cutoff /\ rows[i].status \in Open \cup Terminal}
  <2>1. \A i \in Ids :
          /\ rows'[i].status = IF i \in pruned THEN "absent"
                               ELSE IF rows[i].status \in Open THEN "failed"
                               ELSE rows[i].status
          /\ rows'[i].project = IF i \in pruned THEN NoProject ELSE rows[i].project
    BY <1>3, <1>6 DEF AbsentRow, Row, Open, Terminal
  <2>2. History!Recover(pruned, TRUE)
    BY <1>4, <2>1
  <2>3. QED
    BY <2>2
<1>7. QED
  BY <1>1, <1>5, <1>6

LEMMA InitRefines == Init => History!Init
  BY DEF Init, History!Init, AbsentRow, NoJob, Active

LEMMA StepRefines == IInv /\ [Next]_vars => [History!Next]_History!vars
<1> SUFFICES ASSUME IInv, [Next]_vars PROVE [History!Next]_History!vars
  OBVIOUS
<1>1. CASE Quiet
  BY <1>1, Stutters DEF Quiet, Statuses, Owners, Workers, Active
<1>2. ASSUME NEW i \in Ids, TargetActs(i)
      PROVE  UNCHANGED History!vars
  BY <1>2, Stutters DEF TargetActs, Statuses, Owners, Workers, Active
<1>3. ASSUME NEW c \in Callers, CreateDeployment(c)
      PROVE  History!Next
  BY <1>3, InsertAccepts DEF History!Next
<1>4. CASE ExitClean \/ Killed
  <2>1. UNCHANGED <<Statuses, Owners>> /\ Workers' = {}
    BY <1>4, NobodyLeft DEF ExitClean, Killed, Ends, Statuses, Owners, Workers
  <2>2. History!Halt
    BY <2>1 DEF Statuses, Owners, Workers, History!Halt
  <2>3. QED
    BY <2>2 DEF History!Next
<1>5. CASE Boot
  BY <1>5, BootRecovers DEF History!Next
<1>6. QED
  BY <1>1, <1>2, <1>3, <1>4, <1>5, WorkerRefines, StepKinds, QuietSteps

\* Every behaviour of the deployer is one of the abstract history of deployments.
THEOREM HistoryIsImplemented == Spec => ImplementsHistory
  BY InitRefines, StepRefines, Invariance, PTL DEF Spec, ImplementsHistory, History!Spec

=============================================================================
