---------------------------- MODULE DeployHistory ----------------------------
(***************************************************************************)
(* What the deployer promises about the deployments table, with none of    *)
(* its machinery: a record is accepted, runs, and reaches one terminal     *)
(* status; at most one record of a project is being worked on; a terminal  *)
(* record changes only by being pruned when the service boots.  The        *)
(* promise allows what the code allows: a record whose status write was    *)
(* lost is abandoned while still open, and the next boot closes it.        *)
(***************************************************************************)
EXTENDS Naturals

CONSTANTS
  Ids,         \* identifiers of deployment records
  Projects,    \* configured projects
  NoProject    \* the project of a record that does not exist

VARIABLES
  status,      \* status of each record
  owner,       \* the project each record belongs to
  active       \* the records some handler or worker is responsible for

vars == <<status, owner, active>>

Open     == {"queued", "running"}
Terminal == {"success", "failed"}
Status   == {"absent"} \cup Open \cup Terminal

TypeOK ==
  /\ status \in [Ids -> Status]
  /\ owner  \in [Ids -> Projects \cup {NoProject}]
  /\ active \subseteq Ids

Init ==
  /\ status = [i \in Ids |-> "absent"]
  /\ owner  = [i \in Ids |-> NoProject]
  /\ active = {}

\* A record is created for a project nobody is working on.
Accept(i, p) ==
  /\ status[i] = "absent"
  /\ \A j \in active : owner[j] # p
  /\ status' = [status EXCEPT ![i] = "queued"]
  /\ owner'  = [owner EXCEPT ![i] = p]
  /\ active' = active \cup {i}

Run(i) ==
  /\ i \in active
  /\ status[i] = "queued"
  /\ status' = [status EXCEPT ![i] = "running"]
  /\ UNCHANGED <<owner, active>>

Finish(i, outcome) ==
  /\ i \in active
  /\ status[i] = "running"
  /\ status' = [status EXCEPT ![i] = outcome]
  /\ UNCHANGED <<owner, active>>

\* The worker is done with the record, whatever its status is by then.
Relinquish(i) ==
  /\ i \in active
  /\ active' = active \ {i}
  /\ UNCHANGED <<status, owner>>

\* The process ends, taking every worker with it.
Halt ==
  /\ active' = {}
  /\ UNCHANGED <<status, owner>>

\* A boot closes the open records (unless the write fails) and prunes a set
\* of terminal ones.
Recover(pruned, closes) ==
  LET reconciled == [i \in Ids |-> IF closes /\ status[i] \in Open
                                   THEN "failed" ELSE status[i]]
  IN  /\ active = {}
      /\ \A i \in pruned : reconciled[i] \in Terminal
      /\ status' = [i \in Ids |-> IF i \in pruned THEN "absent" ELSE reconciled[i]]
      /\ owner'  = [i \in Ids |-> IF i \in pruned THEN NoProject ELSE owner[i]]
      /\ UNCHANGED active

Next ==
  \/ \E i \in Ids, p \in Projects : Accept(i, p)
  \/ \E i \in Ids : Run(i) \/ Relinquish(i)
  \/ \E i \in Ids, outcome \in Terminal : Finish(i, outcome)
  \/ Halt
  \/ \E pruned \in SUBSET Ids, closes \in BOOLEAN : Recover(pruned, closes)

Spec == Init /\ [][Next]_vars
=============================================================================
