---------------------------- MODULE Installation ----------------------------
(***************************************************************************)
(* Provisioning of a host in idempotent steps (internal/bootstrap): each   *)
(* step is checked, applied when its check fails, and recorded in          *)
(* app_meta; the first failure ends the run.  The server runs it at boot   *)
(* and from the Setup page, one run at a time; `winify bootstrap' is       *)
(* another process, which shares the host and the records with it.         *)
(*                                                                         *)
(* A step leaves several things on the host, one after the other, and its  *)
(* check looks at some of them.  Commands fail, processes die, and an      *)
(* administrator may remove what a step left.                              *)
(***************************************************************************)
EXTENDS Integers, Sequences, SequencesExt

CONSTANTS
  Enabled,     \* the steps the options ask for
  Runners,     \* processes that run them
  MaxMishaps,  \* bound: failures, deaths, removals
  MaxRuns      \* bound: runs

\* What the constants are assumed to be; the MC module that instantiates them states it.
InstallationBounds ==
  /\ Enabled # {}
  /\ Enabled \subseteq {"dirs", "nssm", "winrm", "self-service", "local-target", "caddy",
                        "firewall", "tunnel"}
  /\ {MaxMishaps, MaxRuns} \subseteq Nat

VARIABLES
  host,        \* what the steps have left on the host
  recorded,    \* app_meta: the recorded state of each step
  run,         \* the step each runner is at (0: none), how many of its things it has left
               \* (-1: not checked), and whether it only previews
  outcome,     \* how each runner's last run ended
  damaged,     \* history: an administrator took something off the host since the runs began
  uninstalled, \* history: runners that took the service away since then, and did not put it back
  mishaps,     \* failures so far
  runs         \* runs so far

installationVars == <<host, recorded, run, outcome, damaged, uninstalled, mishaps, runs>>

-----------------------------------------------------------------------------

\* New appends each step the options ask for to the steps before it.
Asked(s) == IF s \in Enabled THEN <<s>> ELSE << >>
Steps    == Asked("dirs") \o Asked("nssm") \o Asked("winrm") \o Asked("self-service")
              \o Asked("local-target") \o Asked("caddy") \o Asked("firewall") \o Asked("tunnel")

\* What Apply leaves, in order.
Leaves(s) ==
  CASE s = "self-service" -> <<"service", "recovery">>
    [] s = "caddy"        -> <<"caddy.exe", "Caddyfile", "caddy service", "caddy settings">>
    [] s = "tunnel"       -> <<"cloudflared.exe", "token", "tunnel service", "tunnel settings">>
    [] OTHER              -> <<s>>

\* What Check looks at.
Probed(s) ==
  CASE s = "self-service" -> {"service"}
    [] s = "caddy"        -> {"caddy.exe", "caddy service"}
    [] s = "tunnel"       -> {"cloudflared.exe", "token", "tunnel service"}
    [] OTHER              -> {s}

Needs(s)     == ToSet(Leaves(s))
Satisfied(s) == Probed(s) \subseteq host
Things       == UNION {Needs(s) : s \in Enabled}
NoRun        == [at |-> 0, left |-> -1, dry |-> FALSE]

TypeOK ==
  /\ host \subseteq Things
  /\ recorded \in [Enabled -> {"", "done", "error"}]
  /\ run \in [Runners -> [at : 0..Len(Steps), left : -1..4, dry : BOOLEAN]]
  /\ outcome \in [Runners -> {"none", "satisfied", "previewed", "failed"}]
  /\ damaged \in BOOLEAN /\ uninstalled \subseteq Runners
  /\ mishaps \in 0..MaxMishaps /\ runs \in 0..MaxRuns

Init ==
  /\ host = {} /\ recorded = [s \in Enabled |-> ""]
  /\ run = [r \in Runners |-> NoRun] /\ outcome = [r \in Runners |-> "none"]
  /\ damaged = FALSE /\ uninstalled = {} /\ mishaps = 0 /\ runs = 0

-----------------------------------------------------------------------------

Step(r)  == Steps[run[r].at]
Checks(r)   == run[r].at # 0 /\ run[r].left = -1
Applying(r) == run[r].at # 0 /\ run[r].left >= 0
Mishap      == mishaps < MaxMishaps /\ mishaps' = mishaps + 1

\* Run: provisionIfNeeded, the Setup page, or the command, which can preview.
Start(r) ==
  /\ run[r].at = 0 /\ runs < MaxRuns /\ runs' = runs + 1
  /\ \E dry \in BOOLEAN : run' = [run EXCEPT ![r] = [at |-> 1, left |-> -1, dry |-> dry]]
  /\ IF \A q \in Runners : run[q].at = 0
     THEN outcome' = [q \in Runners |-> "none"] /\ damaged' = FALSE /\ uninstalled' = {}
     ELSE outcome' = [outcome EXCEPT ![r] = "none"] /\ UNCHANGED <<damaged, uninstalled>>
  /\ UNCHANGED <<host, recorded, mishaps>>

\* The next step, or the end of the run.
Onto(r) ==
  IF run[r].at < Len(Steps)
  THEN run' = [run EXCEPT ![r].at = @ + 1, ![r].left = -1] /\ UNCHANGED outcome
  ELSE /\ run' = [run EXCEPT ![r] = NoRun]
       /\ outcome' = [outcome EXCEPT ![r] = IF run[r].dry THEN "previewed" ELSE "satisfied"]

\* record: a state that cannot be written is logged.
Record(s, state) == recorded' \in {recorded, [recorded EXCEPT ![s] = state]}

\* The run goes on after a failure.
GoOn(r) == Record(Step(r), "error") /\ Onto(r)

\* A failure ends the run.
GiveUp(r) ==
  /\ Record(Step(r), "error")
  /\ run' = [run EXCEPT ![r] = NoRun] /\ outcome' = [outcome EXCEPT ![r] = "failed"]

CheckDone(r) ==
  /\ Checks(r) /\ Satisfied(Step(r))
  /\ Record(Step(r), "done") /\ Onto(r)
  /\ UNCHANGED <<host, damaged, uninstalled, mishaps, runs>>

\* A preview goes on with the next step; anything else applies this one.
CheckPending(r) ==
  /\ Checks(r) /\ ~Satisfied(Step(r))
  /\ IF run[r].dry THEN Onto(r)
     ELSE run' = [run EXCEPT ![r].left = 0] /\ UNCHANGED outcome
  /\ UNCHANGED <<host, recorded, damaged, uninstalled, mishaps, runs>>

\* selfServiceStep.Apply deletes a service of that name, which is there when another
\* process installed it after the check.
InTheWay(r) == Step(r) = "self-service" /\ run[r].left = 0 /\ "service" \in host

DeleteService(r) ==
  /\ Applying(r) /\ InTheWay(r)
  /\ host' = host \ Needs("self-service") /\ uninstalled' = uninstalled \cup {r}
  /\ UNCHANGED <<recorded, run, outcome, damaged, mishaps, runs>>

\* Apply, one command at a time.
ApplyNext(r) ==
  /\ Applying(r) /\ run[r].left < Len(Leaves(Step(r))) /\ ~InTheWay(r)
  /\ run' = [run EXCEPT ![r].left = @ + 1]
  /\ LET thing == Leaves(Step(r))[run[r].left + 1]
     IN  /\ host' = host \cup {thing}
         /\ uninstalled' = IF thing = "service" THEN uninstalled \ {r} ELSE uninstalled
  /\ UNCHANGED <<recorded, outcome, damaged, mishaps, runs>>

Applied(r) ==
  /\ Applying(r) /\ run[r].left = Len(Leaves(Step(r)))
  /\ Record(Step(r), "done") /\ Onto(r)
  /\ UNCHANGED <<host, damaged, uninstalled, mishaps, runs>>

\* A check or a command of Apply fails.
Fails(r) ==
  /\ Checks(r) \/ (Applying(r) /\ run[r].left < Len(Leaves(Step(r))))
  /\ Mishap
  /\ GiveUp(r)
  /\ UNCHANGED <<host, damaged, uninstalled, runs>>

Dies(r) ==
  /\ run[r].at # 0 /\ Mishap
  /\ run' = [run EXCEPT ![r] = NoRun]
  /\ UNCHANGED <<host, recorded, outcome, damaged, uninstalled, runs>>

\* A deleted binary or a removed service.
Lose(thing) ==
  /\ thing \in host /\ Mishap
  /\ host' = host \ {thing} /\ damaged' = TRUE
  /\ UNCHANGED <<recorded, run, outcome, uninstalled, runs>>

Next ==
  \/ \E r \in Runners :
       \/ Start(r) \/ CheckDone(r) \/ CheckPending(r) \/ DeleteService(r) \/ ApplyNext(r)
       \/ Applied(r)
       \/ Fails(r) \/ Dies(r)
  \/ \E thing \in Things : Lose(thing)

Spec == Init /\ [][Next]_installationVars

-----------------------------------------------------------------------------
(* Properties.                                                             *)

Quiet == ~damaged /\ \A r \in Runners : run[r].at = 0

\* "A nil error means all steps are satisfied" (internal/bootstrap/bootstrap.go): a run that
\* ends well leaves every check satisfied, whatever earlier runs died of and whatever another
\* process provisioned at the same time, once every run has ended.  The service alone may be
\* missing, when another run that found it in its way deleted it and did not put it back.  The
\* checks see less than the steps leave: a service whose settings an earlier run failed to
\* write counts as complete.
GoodRunsSatisfyTheChecks ==
  Quiet => \A r \in Runners : outcome[r] = "satisfied" =>
             \A s \in Enabled : Satisfied(s) \/ (s = "self-service" /\ uninstalled # {})
=============================================================================
