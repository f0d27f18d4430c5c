---------------------------- MODULE DeployTarget ----------------------------
(***************************************************************************)
(* What the deployer relies on in a target (the Target interface of        *)
(* internal/deployment/target.go): between jobs nothing changes what runs; *)
(* a job may put a release it was asked for live, the one it was told to   *)
(* go back to, or leave nothing running; a job that succeeds leaves the    *)
(* artifact it returns running.  TargetActs, TargetSucceeds and            *)
(* TargetFails of Deployer are these steps for each Docker project.        *)
(***************************************************************************)
CONSTANTS
  Artifacts,   \* what a job can record: an image tag, an image or a commit
  None         \* no artifact: nothing runs, or no successful deployment

VARIABLES
  live,      \* the artifact that runs
  task,      \* what the job in progress may put live, or Idle
  outcome    \* the artifact the last job returned, None if it failed

vars  == <<live, task, outcome>>
Idle  == [wanted |-> {}, previous |-> None]
Tasks == [wanted : SUBSET Artifacts, previous : Artifacts \cup {None}]

TypeOK == /\ {live, outcome} \subseteq Artifacts \cup {None}
          /\ task \in Tasks

Init == live = None /\ task = Idle /\ outcome = None

Begin(wanted, previous) ==
  /\ task = Idle
  /\ task' = [wanted |-> wanted, previous |-> previous]
  /\ UNCHANGED <<live, outcome>>

Possible == task.wanted \cup {task.previous, None}

Act == task # Idle /\ live' \in Possible /\ UNCHANGED <<task, outcome>>

Succeed(a) == /\ a \in task.wanted
              /\ live' = a /\ task' = Idle /\ outcome' = a

\* A job may fail in the act.
Fail == /\ task # Idle
        /\ live' \in {live} \cup Possible
        /\ task' = Idle /\ outcome' = None

Next ==
  \/ \E w \in (SUBSET Artifacts) \ {{}}, p \in Artifacts \cup {None} : Begin(w, p)
  \/ Act
  \/ \E a \in Artifacts : Succeed(a)
  \/ Fail

Spec == Init /\ [][Next]_vars
=============================================================================
