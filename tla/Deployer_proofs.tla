--------------------------- MODULE Deployer_proofs ---------------------------
(***************************************************************************)
(* Proofs about the deployer, for any projects, handlers and bounds.       *)
(*                                                                         *)
(* TypeOK alone does not show that the guard works.  The inductive         *)
(* invariant adds, in GuardInv, that the owners of a project are in flight *)
(* and that every project in flight has an owner; in RowInv, how far a     *)
(* worker has come in terms of its row and that rows above lastId are      *)
(* unused; and, in HaltInv, that a process that has ended owns nothing.    *)
(***************************************************************************)
EXTENDS Deployer, TLAPS

OwnersInFlight ==
  /\ \A i \in Ids : Active(i) => rows[i].project \in inFlight
  /\ \A c \in Callers : Holding(c) => call[c].project \in inFlight

GuardInv ==
  /\ SingleFlight
  /\ OwnersInFlight
  /\ \A p \in inFlight : HasOwner(p)

RowInv ==
  /\ \A i \in Ids : i > lastId => rows[i] = AbsentRow /\ job[i] = NoJob
  /\ \A i \in Ids : job[i].stage \in {"spawn", "start"} => rows[i].status = "queued"
  /\ \A i \in Ids :
       job[i].stage \in {"target", "record", "proxy", "finishOk", "finishFailed"}
         => rows[i].status = "running"

HaltInv ==
  ~Alive => /\ inFlight = {}
            /\ \A c \in Callers : call[c] = IdleCall
            /\ \A i \in Ids : job[i] = NoJob

IInv == TypeOK /\ GuardInv /\ RowInv /\ HaltInv

-----------------------------------------------------------------------------
(* Type correctness.                                                       *)

LEMMA InitTypeOK == Init => TypeOK
  BY ProjectsAssumption, ArtifactsAssumption, BoundsAssumption
  DEF Init, TypeOK, Row, AbsentRow, Call, IdleCall, Job, NoJob, Stages, Status, Processes, Ops,
      Recorded, Ids

\* The record updates the actions are made of stay in their types.
LEMMA CallUpdate ==
  ASSUME TypeOK, NEW c \in Callers, NEW new \in Call, SetCall(c, new),
         new = IdleCall \/ new.project \in Projects
  PROVE  /\ call' \in [Callers -> Call]
         /\ \A d \in Callers : call'[d] # IdleCall => call'[d].project \in Projects
  BY DEF TypeOK, SetCall

LEMMA JobUpdate ==
  ASSUME TypeOK, NEW i \in Ids, NEW from, NEW to \in Stages, Goto(i, from, to)
  PROVE  job' \in [Ids -> Job]
  BY DEF TypeOK, Goto, Job

LEMMA StatusUpdate ==
  ASSUME TypeOK, NEW i \in Ids, NEW s \in Status, SetStatus(i, s)
  PROVE  rows' \in [Ids -> Row]
  BY DEF TypeOK, SetStatus, Row

LEMMA RowUpdate ==
  ASSUME TypeOK, NEW i \in Ids, NEW s \in Status, NEW a \in Recorded,
         rows' = [rows EXCEPT ![i].status = s, ![i].artifact = a]
  PROVE  rows' \in [Ids -> Row]
  BY DEF TypeOK, Row

\* A database call either fails within its bound or leaves the count alone.
LEMMA DbCount ==
  ASSUME TypeOK, DbWorks \/ DbFails
  PROVE  dbErrors' \in 0..MaxDbErrors
  BY BoundsAssumption DEF TypeOK, DbWorks, DbFails

LEMMA IdleCallType == IdleCall \in Call
  BY DEF IdleCall, Call, Ops, Recorded

LEMMA NoJobType == NoJob \in Job
  BY DEF NoJob, Job, Stages, Recorded

\* The artifact of a row and of a call are artifacts or empty.
LEMMA ArtifactType ==
  ASSUME TypeOK
  PROVE  /\ \A i \in Ids : rows[i].artifact \in Recorded /\ job[i].artifact \in Recorded
                           /\ job[i].previous \in Recorded
         /\ \A c \in Callers : call[c].artifact \in Recorded
  BY DEF TypeOK, Row, Call, Job

\* A conjunction the lemmas below establish for each step of a handler.
CallTyped == /\ call \in [Callers -> Call]
             /\ \A c \in Callers : call[c] # IdleCall => call[c].project \in Projects

\* A call that enters Trigger or Rollback keeps every variable in its type.
LEMMA BeginTypeOK ==
  ASSUME TypeOK, NEW c \in Callers, NEW p \in Projects,
         BeginTrigger(c, p) \/ BeginRollback(c, p)
  PROVE  TypeOK'
<1>1. CASE BeginTrigger(c, p)
  <2> DEFINE new == [IdleCall EXCEPT !.stage = "guarded", !.project = p]
  <2>1. new \in Call /\ new.project = p
    BY IdleCallType DEF Call
  <2>2. CallTyped'
    BY <1>1, <2>1, CallUpdate DEF BeginTrigger, CallTyped
  <2>3. QED
    BY <1>1, <2>2 DEF BeginTrigger, TypeOK, CallTyped
<1>2. CASE BeginRollback(c, p)
  <2> DEFINE asked == [IdleCall EXCEPT !.project = p, !.op = "rollback"]
             reads == [asked EXCEPT !.stage = "latest", !.latestOk = LatestSucceeded(p)]
             ready == [asked EXCEPT !.stage = "ready"]
  <2>1. reads \in Call /\ reads.project = p /\ ready \in Call /\ ready.project = p
    BY IdleCallType DEF Call, Ops, LatestSucceeded
  <2>2. SetCall(c, reads) \/ SetCall(c, ready)
    BY <1>2 DEF BeginRollback
  <2>3. CallTyped'
    BY <2>1, <2>2, CallUpdate DEF CallTyped
  <2>4. QED
    BY <1>2, <2>3 DEF BeginRollback, TypeOK, CallTyped
<1>3. QED
  BY <1>1, <1>2

\* So does every later step of the call.
LEMMA CallerTypeOK ==
  ASSUME TypeOK, NEW c \in Callers, CallerStep(c)
  PROVE  TypeOK'
<1>0. ASSUME call[c].stage # "idle"
      PROVE  call[c].project \in Projects
  BY <1>0 DEF TypeOK, IdleCall
<1>1. CASE ReadPreviousArtifact(c)
  <2> DEFINE ready == [call[c] EXCEPT !.stage = "ready"]
  <2>1. ready \in Call /\ ready.project \in Projects
    BY <1>1, <1>0 DEF TypeOK, Call, ReadPreviousArtifact
  <2>2. \A i \in Ids : /\ [ready EXCEPT !.artifact = rows[i].artifact] \in Call
                       /\ [ready EXCEPT !.artifact = rows[i].artifact].project = ready.project
    BY <2>1, ArtifactType DEF Call
  <2>3. SetCall(c, ready) \/ \E i \in Ids : SetCall(c, [ready EXCEPT !.artifact = rows[i].artifact])
    BY <1>1 DEF ReadPreviousArtifact, Newest, SuccessfulDeployments, Attempts
  <2>4. CallTyped'
    BY <2>1, <2>2, <2>3, CallUpdate DEF CallTyped
  <2>5. dbErrors' \in 0..MaxDbErrors
    BY <1>1, DbCount DEF ReadPreviousArtifact
  <2>6. QED
    BY <1>1, <2>4, <2>5 DEF ReadPreviousArtifact, TypeOK, CallTyped
<1>2. CASE ReadSuccesses(c)
  <2> DEFINE chosen(i) == [call[c] EXCEPT !.stage = "chosen", !.latestOk = FALSE,
                                          !.artifact = rows[i].artifact]
  <2>1. \A i \in Ids : chosen(i) \in Call /\ chosen(i).project \in Projects
    BY <1>2, <1>0, ArtifactType DEF TypeOK, Call, ReadSuccesses
  <2>2. SetCall(c, IdleCall) \/ \E i \in Ids : SetCall(c, chosen(i))
    BY <1>2 DEF ReadSuccesses, PreviousSuccessful, Newest, SuccessfulDeployments, Attempts
  <2>3. CallTyped'
    <3> HIDE DEF chosen
    <3> QED  BY <2>1, <2>2, IdleCallType, CallUpdate DEF CallTyped
  <2>4. dbErrors' \in 0..MaxDbErrors
    BY <1>2, DbCount DEF ReadSuccesses
  <2>5. QED
    BY <1>2, <2>3, <2>4 DEF ReadSuccesses, TypeOK, CallTyped
<1>3. CASE GuardRollback(c)
  <2> DEFINE ready == [call[c] EXCEPT !.stage = "ready"]
  <2>1. ready \in Call /\ ready.project \in Projects
    BY <1>3, <1>0 DEF TypeOK, Call, GuardRollback
  <2>2. CallTyped'
    BY <1>3, <2>1, IdleCallType, CallUpdate DEF GuardRollback, CallTyped
  <2>3. inFlight' \subseteq Projects
    BY <1>3, <1>0 DEF GuardRollback, TypeOK
  <2>4. QED
    BY <1>3, <2>2, <2>3 DEF GuardRollback, TypeOK, CallTyped
<1>4. CASE CreateDeployment(c)
  <2>1. lastId' \in 0..MaxRows /\ lastId + 1 \in Ids
    BY <1>4, BoundsAssumption DEF CreateDeployment, TypeOK, Ids
  <2>2. rows' \in [Ids -> Row]
    BY <1>4, <2>1, ArtifactType
    DEF CreateDeployment, TypeOK, Row, Call, Recorded, Status, Open
  <2>3. job' \in [Ids -> Job]
    BY <1>4, <2>1, ArtifactType DEF CreateDeployment, TypeOK, Job, Stages, Recorded
  <2>4. CallTyped'
    BY <1>4, IdleCallType, CallUpdate DEF CreateDeployment, CallTyped
  <2>5. QED
    BY <1>4, <2>1, <2>2, <2>3, <2>4 DEF CreateDeployment, TypeOK, CallTyped
<1>5. CASE CreateDeploymentFails(c)
  <2>1. CallTyped'
    BY <1>5, IdleCallType, CallUpdate DEF CreateDeploymentFails, CallTyped
  <2>2. dbErrors' \in 0..MaxDbErrors
    BY <1>5, DbCount DEF CreateDeploymentFails
  <2>3. QED
    BY <1>5, <2>1, <2>2 DEF CreateDeploymentFails, TypeOK, CallTyped
<1>6. QED
  BY <1>1, <1>2, <1>3, <1>4, <1>5 DEF CallerStep

\* So does a step of a worker.
LEMMA WorkerTypeOK ==
  ASSUME TypeOK, NEW i \in Ids, WorkerStep(i)
  PROVE  TypeOK'
<1>1. CASE Spawn(i)
  <2>1. job' \in [Ids -> Job]
    BY <1>1, JobUpdate DEF Spawn, Stages
  <2>2. QED
    BY <1>1, <2>1 DEF Spawn, TypeOK
<1>2. CASE SetRunning(i)
  <2>1. job' \in [Ids -> Job]
    BY <1>2, JobUpdate DEF SetRunning, Stages
  <2>2. rows' \in [Ids -> Row]
    BY <1>2, RowUpdate, ArtifactType DEF SetRunning, TypeOK, Status, Open
  <2>3. dbErrors' \in 0..MaxDbErrors
    BY <1>2, DbCount DEF SetRunning
  <2>4. QED
    BY <1>2, <2>1, <2>2, <2>3 DEF SetRunning, TypeOK
<1>3. ASSUME NEW a \in Recorded, TargetSucceeds(i, a)
      PROVE  TypeOK'
  <2>1. job' \in [Ids -> Job]
    BY <1>3 DEF TargetSucceeds, TypeOK, Job, Stages
  <2>2. live' \in [HistoryProjects -> Recorded]
    BY <1>3 DEF TargetSucceeds, TypeOK
  <2>3. QED
    BY <1>3, <2>1, <2>2 DEF TargetSucceeds, TypeOK
<1>4. CASE TargetFails(i)
  <2>1. job' \in [Ids -> Job]
    BY <1>4, JobUpdate DEF TargetFails, Stages
  <2>2. QED
    BY <1>4, <2>1 DEF TargetFails, TypeOK
<1>5. CASE RecordArtifact(i)
  <2>1. job' \in [Ids -> Job]
    BY <1>5, JobUpdate DEF RecordArtifact, Stages
  <2>2. rows' \in [Ids -> Row]
    BY <1>5, RowUpdate, ArtifactType DEF RecordArtifact, TypeOK, Status, Open
  <2>3. dbErrors' \in 0..MaxDbErrors
    BY <1>5, DbCount DEF RecordArtifact
  <2>4. QED
    BY <1>5, <2>1, <2>2, <2>3 DEF RecordArtifact, TypeOK
<1>6. CASE Register(i)
  <2>1. job' \in [Ids -> Job]
    BY <1>6, JobUpdate DEF Register, Stages
  <2>2. QED
    BY <1>6, <2>1 DEF Register, TypeOK
<1>7. ASSUME NEW outcome \in Terminal, NEW at, Finish(i, outcome, at)
      PROVE  TypeOK'
  <2>1. job' \in [Ids -> Job]
    BY <1>7, JobUpdate DEF Finish, Stages
  <2>2. rows' \in [Ids -> Row]
    BY <1>7, StatusUpdate DEF Finish, TypeOK, Status
  <2>3. dbErrors' \in 0..MaxDbErrors
    BY <1>7, DbCount DEF Finish
  <2>4. QED
    BY <1>7, <2>1, <2>2, <2>3 DEF Finish, TypeOK
<1>8. CASE Release(i)
  BY <1>8, NoJobType DEF Release, TypeOK
<1>9. QED
  BY <1>1, <1>2, <1>3, <1>4, <1>5, <1>6, <1>7, <1>8 DEF WorkerStep, Terminal

\* What a target does to the running release.
LEMMA TargetTypeOK ==
  ASSUME TypeOK, NEW i \in Ids, TargetActs(i)
  PROVE  TypeOK'
<1>1. Candidates(i) \cup {NoArtifact, job[i].previous} \subseteq Recorded
  BY ArtifactType DEF Candidates, Recorded
<1>2. live' \in [HistoryProjects -> Recorded]
  BY <1>1 DEF TargetActs, TypeOK
<1>3. QED
  BY <1>2 DEF TargetActs, TypeOK

\* And the steps of the process itself.
LEMMA ProcessTypeOK ==
  ASSUME TypeOK, Shutdown \/ StopDeployer \/ ExitClean \/ Killed \/ Boot
  PROVE  TypeOK'
<1>1. CASE Shutdown \/ StopDeployer
  BY <1>1 DEF Shutdown, StopDeployer, TypeOK, Processes
<1>2. CASE ExitClean \/ Killed
  <2>1. call' \in [Callers -> Call] /\ job' \in [Ids -> Job]
    BY <1>2, IdleCallType, NoJobType DEF ExitClean, Killed, Ends
  <2>2. QED
    BY <1>2, <2>1 DEF ExitClean, Killed, Ends, TypeOK, Processes
<1>3. CASE Boot
  <2>1. dbErrors' \in 0..MaxDbErrors
    BY <1>3, DbCount DEF Boot
  <2>2. AbsentRow \in Row
    BY DEF AbsentRow, Row, Ops, Recorded, Status
  <2>3. \A i \in Ids : rows[i] \in Row /\ [rows[i] EXCEPT !.status = "failed"] \in Row
    BY DEF TypeOK, Row, Status, Terminal
  <2>4. rows' \in [Ids -> Row]
    BY <1>3, <2>2, <2>3 DEF Boot
  <2>5. lost' \subseteq Ids
    BY <1>3 DEF Boot
  <2>6. QED
    BY <1>3, <2>1, <2>4, <2>5 DEF Boot, TypeOK, Processes
<1>4. QED
  BY <1>1, <1>2, <1>3

LEMMA NextTypeOK == TypeOK /\ [Next]_vars => TypeOK'
<1>1. ASSUME TypeOK, UNCHANGED vars
      PROVE  TypeOK'
  BY <1>1 DEF TypeOK, vars
<1>2. QED
  BY <1>1, BeginTypeOK, CallerTypeOK, WorkerTypeOK, TargetTypeOK, ProcessTypeOK DEF Next

\* Every variable of the deployer keeps its type in every behaviour.
THEOREM TypeCorrect == Spec => []TypeOK
  BY InitTypeOK, NextTypeOK, PTL DEF Spec

-----------------------------------------------------------------------------
(* The guard.                                                              *)

\* Steps that move neither a guard nor an owner.
LEMMA OwnersUnchanged ==
  ASSUME GuardInv, inFlight' = inFlight,
         \A i \in Ids : /\ Active(i)' <=> Active(i)
                        /\ rows'[i].project = rows[i].project,
         \A c \in Callers : /\ Holding(c)' <=> Holding(c)
                            /\ Holding(c) => call'[c].project = call[c].project
  PROVE  GuardInv'
  BY DEF GuardInv, SingleFlight, OwnersInFlight, HasOwner

\* A handler stores the mark of a project that had none.
LEMMA GuardTaken ==
  ASSUME GuardInv, NEW c \in Callers, NEW p, p \notin inFlight, ~Holding(c),
         inFlight' = inFlight \cup {p}, Holding(c)', call'[c].project = p,
         \A d \in Callers \ {c} : call'[d] = call[d],
         UNCHANGED <<rows, job>>
  PROVE  GuardInv'
<1>1. /\ \A i \in Ids : /\ Active(i)' <=> Active(i)
                        /\ Active(i) => rows'[i].project = rows[i].project /\ rows[i].project # p
      /\ \A d \in Callers \ {c} :
            /\ Holding(d)' <=> Holding(d)
            /\ Holding(d) => call'[d].project = call[d].project /\ call[d].project # p
  BY DEF GuardInv, OwnersInFlight, Active, Holding
<1>2. SingleFlight'
  BY <1>1 DEF GuardInv, SingleFlight
<1>3. OwnersInFlight'
  BY <1>1 DEF GuardInv, OwnersInFlight
<1>4. \A q \in inFlight' : HasOwner(q)'
  BY <1>1 DEF GuardInv, HasOwner, Holding
<1>5. QED
  BY <1>2, <1>3, <1>4 DEF GuardInv

\* A handler that could not insert its row clears the mark.
LEMMA GuardDroppedByHandler ==
  ASSUME GuardInv, NEW c \in Callers, Holding(c),
         inFlight' = inFlight \ {call[c].project}, ~Holding(c)',
         \A d \in Callers \ {c} : call'[d] = call[d],
         UNCHANGED <<rows, job>>
  PROVE  GuardInv'
<1>1. /\ \A i \in Ids :
            /\ Active(i)' <=> Active(i)
            /\ Active(i) => rows'[i].project = rows[i].project
                            /\ rows[i].project # call[c].project
      /\ \A d \in Callers \ {c} :
            /\ Holding(d)' <=> Holding(d)
            /\ Holding(d) => call'[d].project = call[d].project
                             /\ call[d].project # call[c].project
  BY DEF GuardInv, SingleFlight, Active, Holding
<1>2. SingleFlight' /\ OwnersInFlight'
  BY <1>1 DEF GuardInv, SingleFlight, OwnersInFlight
<1>3. \A q \in inFlight' : HasOwner(q)'
  BY <1>1 DEF GuardInv, HasOwner
<1>4. QED
  BY <1>2, <1>3 DEF GuardInv

\* A worker that returns clears the mark.
LEMMA GuardDroppedByWorker ==
  ASSUME GuardInv, NEW i \in Ids, Active(i),
         inFlight' = inFlight \ {rows[i].project}, ~Active(i)',
         \A j \in Ids \ {i} : job'[j] = job[j],
         UNCHANGED <<rows, call>>
  PROVE  GuardInv'
<1>1. /\ \A j \in Ids \ {i} : /\ Active(j)' <=> Active(j)
                              /\ Active(j) => rows[j].project # rows[i].project
      /\ \A d \in Callers : /\ Holding(d)' <=> Holding(d)
                            /\ Holding(d) => call[d].project # rows[i].project
  BY DEF GuardInv, SingleFlight, Active, Holding
<1>2. SingleFlight' /\ OwnersInFlight'
  BY <1>1 DEF GuardInv, SingleFlight, OwnersInFlight
<1>3. \A q \in inFlight' : HasOwner(q)'
  BY <1>1 DEF GuardInv, HasOwner
<1>4. QED
  BY <1>2, <1>3 DEF GuardInv

\* The inserted row takes the project over from the handler.
LEMMA GuardHandedOver ==
  ASSUME GuardInv, NEW c \in Callers, Holding(c), NEW i \in Ids, ~Active(i),
         UNCHANGED inFlight, ~Holding(c)', Active(i)',
         rows'[i].project = call[c].project,
         \A d \in Callers \ {c} : call'[d] = call[d],
         \A j \in Ids \ {i} : job'[j] = job[j] /\ rows'[j] = rows[j]
  PROVE  GuardInv'
<1>1. /\ \A j \in Ids \ {i} :
            /\ Active(j)' <=> Active(j)
            /\ rows'[j].project = rows[j].project
            /\ Active(j) => rows[j].project # call[c].project
      /\ \A d \in Callers \ {c} :
            /\ Holding(d)' <=> Holding(d)
            /\ Holding(d) => call'[d].project = call[d].project
                             /\ call[d].project # call[c].project
  BY DEF GuardInv, SingleFlight, Active, Holding
<1>2. SingleFlight'
  BY <1>1 DEF GuardInv, SingleFlight
<1>3. OwnersInFlight'
  BY <1>1 DEF GuardInv, OwnersInFlight
<1>4. \A q \in inFlight' : HasOwner(q)'
  BY <1>1 DEF GuardInv, HasOwner
<1>5. QED
  BY <1>2, <1>3, <1>4 DEF GuardInv

\* Nobody owns anything once the process has ended.
LEMMA NothingOwned ==
  ASSUME inFlight' = {},
         \A i \in Ids : ~Active(i)', \A c \in Callers : ~Holding(c)'
  PROVE  GuardInv'
  BY DEF GuardInv, SingleFlight, OwnersInFlight, HasOwner

-----------------------------------------------------------------------------
(* The steps of Next.                                                      *)

\* Entering Trigger or Rollback.
LEMMA BeginPreserves ==
  ASSUME IInv, NEW c \in Callers, NEW p \in Projects,
         BeginTrigger(c, p) \/ BeginRollback(c, p)
  PROVE  GuardInv' /\ RowInv' /\ HaltInv'
<1>1. GuardInv /\ RowInv /\ ~Holding(c) /\ proc = "up"
  BY DEF IInv, BeginTrigger, BeginRollback, Holding, IdleCall
<1>2. RowInv'
  BY <1>1 DEF RowInv, BeginTrigger, BeginRollback
<1>3. HaltInv'
  BY <1>1 DEF HaltInv, Alive, BeginTrigger, BeginRollback
<1>4. CASE p \notin inFlight /\ inFlight' = inFlight \cup {p} /\ call'[c].project = p
           /\ call'[c].stage \in {"guarded", "ready"}
           /\ \A d \in Callers \ {c} : call'[d] = call[d]
  <2>1. Holding(c)' /\ UNCHANGED <<rows, job>>
    BY <1>4 DEF Holding, BeginTrigger, BeginRollback
  <2>2. GuardInv'
    BY <1>1, <1>4, <2>1, GuardTaken
  <2>3. QED
    BY <1>2, <1>3, <2>2
<1>5. CASE inFlight' = inFlight /\ call'[c].stage = "latest"
           /\ \A d \in Callers \ {c} : call'[d] = call[d]
  <2>1. \A d \in Callers : /\ Holding(d)' <=> Holding(d)
                           /\ Holding(d) => call'[d].project = call[d].project
    BY <1>1, <1>5 DEF Holding
  <2>2. UNCHANGED <<rows, job>>
    BY DEF BeginTrigger, BeginRollback
  <2>3. \A i \in Ids : /\ Active(i)' <=> Active(i)
                      /\ rows'[i].project = rows[i].project
    BY <2>2 DEF Active
  <2>4. GuardInv'
    BY <1>1, <1>5, <2>1, <2>3, OwnersUnchanged
  <2>5. QED
    BY <1>2, <1>3, <2>4
<1>6. QED
  BY <1>2, <1>3, <1>4, <1>5
  DEF IInv, TypeOK, BeginTrigger, BeginRollback, SetCall, IdleCall

\* The later steps of a call.
LEMMA CallerPreserves ==
  ASSUME IInv, NEW c \in Callers, CallerStep(c)
  PROVE  GuardInv' /\ RowInv' /\ HaltInv'
<1>0. GuardInv /\ RowInv /\ Alive /\ UNCHANGED proc
  BY DEF IInv, CallerStep, ReadPreviousArtifact, ReadSuccesses, GuardRollback,
         CreateDeployment, CreateDeploymentFails
<1>h. HaltInv'
  BY <1>0 DEF HaltInv, Alive
<1>1. CASE ReadPreviousArtifact(c) \/ ReadSuccesses(c)
  <2>1. \A d \in Callers \ {c} : call'[d] = call[d]
    BY <1>1 DEF IInv, TypeOK, ReadPreviousArtifact, ReadSuccesses, SetCall
  <2>2. /\ Holding(c)' <=> Holding(c)
        /\ Holding(c) => call'[c].project = call[c].project
    <3>1. CASE ReadPreviousArtifact(c)
      <4> DEFINE ready == [call[c] EXCEPT !.stage = "ready"]
      <4>1. call[c] \in Call /\ call[c].stage = "guarded" /\ call \in [Callers -> Call]
        BY <3>1 DEF IInv, TypeOK, ReadPreviousArtifact
      <4>2. call'[c] = ready \/ \E a : call'[c] = [ready EXCEPT !.artifact = a]
        BY <3>1, <4>1 DEF ReadPreviousArtifact, SetCall
      <4>3. call'[c].stage = "ready" /\ call'[c].project = call[c].project
        BY <4>1, <4>2 DEF Call
      <4>4. QED
        BY <4>1, <4>3 DEF Holding
    <3>2. CASE ReadSuccesses(c)
      <4>1. call[c] \in Call /\ call[c].stage = "latest" /\ call \in [Callers -> Call]
        BY <3>2 DEF IInv, TypeOK, ReadSuccesses
      <4>2. \/ call'[c] = IdleCall
            \/ \E a : call'[c] = [call[c] EXCEPT !.stage = "chosen", !.latestOk = FALSE,
                                                 !.artifact = a]
        BY <3>2, <4>1 DEF ReadSuccesses, SetCall
      <4>3. call'[c].stage \in {"idle", "chosen"}
        <5>1. CASE call'[c] = IdleCall
          BY <5>1 DEF IdleCall
        <5>2. CASE \E a : call'[c] = [call[c] EXCEPT !.stage = "chosen", !.latestOk = FALSE,
                                                    !.artifact = a]
          BY <4>1, <5>2 DEF Call
        <5>3. QED
          BY <4>2, <5>1, <5>2
      <4>4. QED
        BY <4>1, <4>3 DEF Holding
    <3>3. QED
      BY <1>1, <3>1, <3>2
  <2>3. UNCHANGED <<rows, job, inFlight, lastId>>
    BY <1>1 DEF ReadPreviousArtifact, ReadSuccesses
  <2>4. \A d \in Callers : /\ Holding(d)' <=> Holding(d)
                           /\ Holding(d) => call'[d].project = call[d].project
    BY <2>1, <2>2 DEF Holding
  <2>5. \A i \in Ids : /\ Active(i)' <=> Active(i)
                      /\ rows'[i].project = rows[i].project
    BY <2>3 DEF Active
  <2>6. GuardInv'
    BY <1>0, <2>3, <2>4, <2>5, OwnersUnchanged
  <2>7. QED
    BY <1>0, <1>h, <2>3, <2>6 DEF RowInv
<1>2. CASE GuardRollback(c)
  <2>1. UNCHANGED <<rows, job, lastId>> /\ ~Holding(c)
    BY <1>2 DEF GuardRollback, Holding
  <2>2. RowInv'
    BY <1>0, <2>1 DEF RowInv
  <2>3. CASE call[c].project \in inFlight
    <3>1. \A d \in Callers : /\ Holding(d)' <=> Holding(d)
                             /\ Holding(d) => call'[d].project = call[d].project
      BY <1>2, <2>1, <2>3 DEF IInv, TypeOK, GuardRollback, SetCall, IdleCall, Holding
    <3>2. QED
      BY <1>0, <1>h, <1>2, <2>1, <2>2, <2>3, <3>1, OwnersUnchanged DEF Active, GuardRollback
  <2>4. CASE call[c].project \notin inFlight
    <3>1. Holding(c)' /\ call'[c].project = call[c].project
          /\ \A d \in Callers \ {c} : call'[d] = call[d]
      BY <1>2, <2>4 DEF IInv, TypeOK, Call, GuardRollback, SetCall, Holding
    <3>2. inFlight' = inFlight \cup {call[c].project}
      BY <1>2, <2>4 DEF GuardRollback
    <3>3. QED
      BY <1>0, <1>h, <2>1, <2>2, <2>4, <3>1, <3>2, GuardTaken
  <2>5. QED
    BY <2>3, <2>4
<1>3. CASE CreateDeployment(c)
  <2>0. PICK i \in Ids : i = lastId + 1
    BY <1>3, BoundsAssumption DEF IInv, TypeOK, CreateDeployment, Ids
  <2>1. ~Active(i) /\ Holding(c)
    BY <1>0, <1>3, <2>0
    DEF IInv, TypeOK, RowInv, CreateDeployment, Ids, Active, NoJob, Holding
  <2>2. /\ ~Holding(c)' /\ \A d \in Callers \ {c} : call'[d] = call[d]
        /\ Active(i)' /\ rows'[i].project = call[c].project
        /\ rows'[i].status = "queued" /\ job'[i].stage = "spawn"
        /\ \A j \in Ids \ {i} : job'[j] = job[j] /\ rows'[j] = rows[j]
        /\ UNCHANGED inFlight /\ lastId' = i
    <3>1. /\ UNCHANGED inFlight /\ lastId' = i
          /\ \A j \in Ids \ {i} : job'[j] = job[j] /\ rows'[j] = rows[j]
          /\ rows'[i].project = call[c].project /\ rows'[i].status = "queued"
          /\ job'[i].stage = "spawn"
      BY <1>3, <2>0 DEF IInv, TypeOK, CreateDeployment
    <3>2. call'[c] = IdleCall /\ \A d \in Callers \ {c} : call'[d] = call[d]
      BY <1>3 DEF IInv, TypeOK, CreateDeployment, SetCall
    <3>3. QED
      BY <3>1, <3>2 DEF IdleCall, Holding, Active
  <2>3. GuardInv'
    BY <1>0, <2>1, <2>2, GuardHandedOver
  <2>4. RowInv'
    <3>1. \A j \in Ids : j > i => j > lastId /\ j # i
      BY <2>0 DEF IInv, TypeOK, Ids
    <3>2. QED
      BY <1>0, <2>2, <3>1 DEF RowInv
  <2>5. QED
    BY <1>h, <2>3, <2>4
<1>4. CASE CreateDeploymentFails(c)
  <2>1. Holding(c) /\ ~Holding(c)' /\ \A d \in Callers \ {c} : call'[d] = call[d]
    BY <1>4 DEF IInv, TypeOK, CreateDeploymentFails, SetCall, IdleCall, Holding
  <2>2. UNCHANGED <<rows, job, lastId>> /\ inFlight' = inFlight \ {call[c].project}
    BY <1>4 DEF CreateDeploymentFails
  <2>3. QED
    BY <1>0, <1>h, <2>1, <2>2, GuardDroppedByHandler DEF RowInv
<1>5. QED
  BY <1>1, <1>2, <1>3, <1>4 DEF CallerStep

\* The part of RowInv that concerns one row.
RowOK(i) ==
  /\ i > lastId => rows[i] = AbsentRow /\ job[i] = NoJob
  /\ job[i].stage \in {"spawn", "start"} => rows[i].status = "queued"
  /\ job[i].stage \in {"target", "record", "proxy", "finishOk", "finishFailed"}
       => rows[i].status = "running"

\* A step of a worker that is not its return touches its own row and job only,
\* stays active, and keeps the row in step with the job.
LEMMA WorkerAdvances ==
  ASSUME IInv, NEW i \in Ids, WorkerStep(i), ~Release(i)
  PROVE  /\ Active(i) /\ Active(i)' /\ UNCHANGED <<inFlight, call, lastId, proc>> /\ Alive
         /\ \A j \in Ids \ {i} : job'[j] = job[j] /\ rows'[j] = rows[j]
         /\ rows'[i].project = rows[i].project
         /\ RowOK(i)'
<1> USE DEF IInv, TypeOK, RowInv, RowOK, Active, Goto, NoJob
<1>1. CASE Spawn(i)
  BY <1>1 DEF Spawn, Job
<1>2. CASE SetRunning(i)
  BY <1>2 DEF SetRunning, Job, Row
<1>3. ASSUME NEW a \in Recorded, TargetSucceeds(i, a)
      PROVE  /\ Active(i) /\ Active(i)' /\ UNCHANGED <<inFlight, call, lastId, proc>> /\ Alive
             /\ \A j \in Ids \ {i} : job'[j] = job[j] /\ rows'[j] = rows[j]
             /\ rows'[i].project = rows[i].project
             /\ RowOK(i)'
  BY <1>3 DEF TargetSucceeds, Job
<1>4. CASE TargetFails(i)
  BY <1>4 DEF TargetFails, Job
<1>5. CASE RecordArtifact(i)
  BY <1>5 DEF RecordArtifact, Job, Row
<1>6. CASE Register(i)
  BY <1>6 DEF Register, Job
<1>7. CASE Finish(i, "success", "finishOk") \/ Finish(i, "failed", "finishFailed")
  BY <1>7 DEF Finish, SetStatus, Job, Row
<1>8. QED
  BY <1>1, <1>2, <1>3, <1>4, <1>5, <1>6, <1>7 DEF WorkerStep

LEMMA WorkerPreserves ==
  ASSUME IInv, NEW i \in Ids, WorkerStep(i)
  PROVE  GuardInv' /\ RowInv' /\ HaltInv'
<1>1. CASE Release(i)
  <2>1. Alive /\ Active(i) /\ ~Active(i)' /\ inFlight' = inFlight \ {rows[i].project}
    BY <1>1 DEF Release, Active, NoJob, IInv, TypeOK
  <2>2. job'[i] = NoJob /\ \A j \in Ids \ {i} : job'[j] = job[j]
    BY <1>1 DEF Release, IInv, TypeOK
  <2>3. UNCHANGED <<rows, call, lastId, proc>>
    BY <1>1 DEF Release
  <2>4. GuardInv'
    BY <2>1, <2>2, <2>3, GuardDroppedByWorker DEF IInv
  <2>5. RowInv'
    BY <2>2, <2>3 DEF IInv, RowInv, NoJob
  <2>6. HaltInv'
    BY <2>1, <2>3 DEF HaltInv, Alive
  <2>7. QED
    BY <2>4, <2>5, <2>6
<1>2. CASE ~Release(i)
  <2>1. GuardInv'
    BY <1>2, WorkerAdvances, OwnersUnchanged DEF IInv, Active, Holding
  <2>2. RowInv'
    BY <1>2, WorkerAdvances DEF IInv, RowInv, RowOK
  <2>3. HaltInv'
    BY <1>2, WorkerAdvances DEF HaltInv, Alive
  <2>4. QED
    BY <2>1, <2>2, <2>3
<1>3. QED
  BY <1>1, <1>2

LEMMA ProcessPreserves ==
  ASSUME IInv, Shutdown \/ StopDeployer \/ ExitClean \/ Killed \/ Boot
  PROVE  GuardInv' /\ RowInv' /\ HaltInv'
<1>1. CASE Shutdown \/ StopDeployer
  <2>1. UNCHANGED <<rows, job, call, inFlight, lastId>> /\ Alive'
    BY <1>1 DEF Shutdown, StopDeployer, Alive
  <2>2. QED
    BY <2>1, OwnersUnchanged DEF IInv, RowInv, HaltInv, Active, Holding
<1>2. CASE ExitClean \/ Killed
  <2>1. /\ inFlight' = {} /\ UNCHANGED <<rows, lastId>>
        /\ \A i \in Ids : job'[i] = NoJob
        /\ \A c \in Callers : call'[c] = IdleCall
    BY <1>2 DEF ExitClean, Killed, Ends
  <2>2. GuardInv'
    BY <2>1, NothingOwned DEF Active, Holding, NoJob, IdleCall
  <2>3. RowInv'
    BY <2>1 DEF IInv, RowInv, NoJob
  <2>4. QED
    BY <2>1, <2>2, <2>3 DEF HaltInv
<1>3. CASE Boot
  <2>1. /\ inFlight' = {} /\ UNCHANGED lastId /\ Alive'
        /\ \A i \in Ids : job'[i] = NoJob
        /\ \A c \in Callers : call'[c] = IdleCall
    BY <1>3 DEF Boot, IInv, HaltInv, Alive
  <2>2. GuardInv'
    BY <2>1, NothingOwned DEF Active, Holding, NoJob, IdleCall
  <2>3. \A i \in Ids : rows[i] = AbsentRow => rows'[i] = AbsentRow
    BY <1>3 DEF Boot, AbsentRow, Open
  <2>4. RowInv'
    BY <2>1, <2>3 DEF IInv, RowInv, NoJob
  <2>5. QED
    BY <2>1, <2>2, <2>4 DEF HaltInv
<1>4. QED
  BY <1>1, <1>2, <1>3

-----------------------------------------------------------------------------

LEMMA InitIInv == Init => IInv
<1> SUFFICES ASSUME Init PROVE IInv
  OBVIOUS
<1>1. TypeOK
  BY InitTypeOK
<1>2. GuardInv
  BY DEF Init, GuardInv, SingleFlight, OwnersInFlight, Active, Holding, NoJob, IdleCall
<1>3. RowInv /\ HaltInv
  BY DEF Init, RowInv, HaltInv, NoJob, Alive
<1>4. QED
  BY <1>1, <1>2, <1>3 DEF IInv

LEMMA NextIInv == IInv /\ [Next]_vars => IInv'
<1>1. ASSUME IInv, UNCHANGED vars
      PROVE  GuardInv' /\ RowInv' /\ HaltInv'
  BY <1>1, OwnersUnchanged DEF IInv, vars, RowInv, HaltInv, Alive, Active, Holding
<1>2. ASSUME IInv, NEW i \in Ids, TargetActs(i)
      PROVE  GuardInv' /\ RowInv' /\ HaltInv'
  BY <1>2, OwnersUnchanged DEF TargetActs, IInv, RowInv, HaltInv, Alive, Active, Holding
<1>3. ASSUME IInv, Next
      PROVE  GuardInv' /\ RowInv' /\ HaltInv'
  BY <1>2, <1>3, BeginPreserves, CallerPreserves, WorkerPreserves, ProcessPreserves DEF Next
<1>4. QED
  BY <1>1, <1>3, NextTypeOK DEF IInv

LEMMA Invariance == Spec => []IInv
  BY InitIInv, NextIInv, PTL DEF Spec

\* Only one deployment or rollback of a project is ever past the guard.
THEOREM OneDeploymentPerProject == Spec => []SingleFlight
<1>1. IInv => SingleFlight
  BY DEF IInv, GuardInv
<1>2. QED
  BY <1>1, Invariance, PTL

\* The guard is held exactly by the projects somebody is responsible for.
THEOREM GuardNeverLeaks == Spec => []NoGuardLeak
<1>1. IInv => NoGuardLeak
  BY DEF IInv, GuardInv, OwnersInFlight, HasOwner, NoGuardLeak, TypeOK
<1>2. QED
  BY <1>1, Invariance, PTL

=============================================================================
