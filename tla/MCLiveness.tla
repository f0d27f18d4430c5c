----------------------------- MODULE MCLiveness -----------------------------
(***************************************************************************)
(* What must end: deployments and the guard (Deployer), and the streams    *)
(* that follow a deployment (DeployFeed), under the fairness each module   *)
(* states.  The initial state chooses which of the two is looked at.       *)
(***************************************************************************)
EXTENDS Naturals

CONSTANTS
  Projects, HistoryProjects, Callers, Artifacts, NoProject, NoArtifact, MaxRows, MaxDbErrors,
  Viewers, Sinks, LogLimit, MaxLines, MaxFaults

VARIABLES
  part,
  rows, lastId, inFlight, call, job, live, proc, dbErrors, lost,
  worker, status, log, written, viewer, posts, heard, trimmed, unwritten, faults

deployerVars == <<rows, lastId, inFlight, call, job, live, proc, dbErrors, lost>>
feedVars     == <<worker, status, log, written, viewer, posts, heard, trimmed, unwritten, faults>>
allVars      == <<part, deployerVars, feedVars>>

Pipeline == INSTANCE Deployer
Feed     == INSTANCE DeployFeed

Init == part \in {"pipeline", "feed"} /\ Pipeline!Init /\ Feed!Init

\* A step of the part that is looked at; the other stands still.
InPipeline(A) == part = "pipeline" /\ A /\ UNCHANGED <<part, feedVars>>
InFeed(A)     == part = "feed" /\ A /\ UNCHANGED <<part, deployerVars>>

Deploys == InPipeline(Pipeline!Next)
Follows == InFeed(Feed!Next)

Next == Deploys \/ Follows

\* Fairness of Deployer and of DeployFeed, while that part is looked at.
Fairness ==
  /\ \A c \in Callers : WF_allVars(InPipeline(Pipeline!CallerStep(c)))
  /\ \A i \in 1..MaxRows :
       WF_allVars(InPipeline(~Pipeline!AtTarget(i) /\ Pipeline!WorkerStep(i)))
  /\ WF_allVars(InPipeline(Pipeline!Boot))
  /\ WF_allVars(InFeed(~Feed!AtTarget /\ Feed!WorkerStep))
  /\ \A v \in Viewers : WF_allVars(InFeed(Feed!Poll(v)))

FairSpec == Init /\ [][Next]_allVars /\ Fairness

-----------------------------------------------------------------------------
(* The properties of the modules, where they are explained.                *)

\* A project is deployable again in the end, or its target does not answer
\* (Deployer.Trigger, run).
GuardEventuallyReleased == Pipeline!GuardEventuallyReleased

\* An accepted deployment is decided in the end, unless its target does not answer
\* (Deployer.run, FailInterruptedDeployments).
AcceptedDeploymentEnds == Pipeline!AcceptedDeploymentEnds

\* An event stream ends once its deployment has left the target (deploy_stream.go).
StreamsEnd == Feed!StreamsEnd
=============================================================================
