----------------------------- MODULE Monitoring -----------------------------
(***************************************************************************)
(* The poller (internal/monitoring/scheduler.go, collector.go), the        *)
(* samples it stores (internal/models/store.go) and the card the page      *)
(* makes of the latest one (handleMonitoring of                            *)
(* internal/server/handlers.go).                                           *)
(*                                                                         *)
(* A cycle samples every server at once and ends when all have answered or *)
(* run out of time.  The clock does not pass a timer that is due.  Servers *)
(* come and go, a write may fail and the process may restart.              *)
(***************************************************************************)
EXTENDS Integers

CONSTANTS
  Targets,     \* server ids
  Interval,    \* monitoring.interval_seconds
  Timeout,     \* monitoring.timeout_seconds
  Retention,   \* monitoring.retention_hours
  MaxClock,    \* bound: how far the clock goes
  MaxLost      \* bound: samples that cannot be written, restarts

\* What the constants are assumed to be; the MC module that instantiates them states it.
MonitoringBounds ==
  {Interval, Timeout, Retention} \subseteq Nat \ {0} /\ {MaxClock, MaxLost} \subseteq Nat

VARIABLES
  clock,       \* time
  watched,     \* the servers table
  since,       \* history: when the poller first could know of a server
  due,         \* when the ticker fires next
  ticked,      \* the ticker's channel holds a tick
  began,       \* when the running cycle began
  waiting,     \* servers whose collector has not been heard in it
  polling,     \* a cycle is running
  latest,      \* when the newest stored sample of each server was taken
  unstored,    \* history: a sample was not stored
  lost         \* faults so far

timer          == <<due, ticked>>
cycle          == <<began, waiting, polling>>
monitoringVars == <<clock, watched, since, timer, cycle, latest, unstored, lost>>

-----------------------------------------------------------------------------

NoSample == -1

TypeOK ==
  /\ clock \in 0..MaxClock
  /\ watched \subseteq Targets /\ waiting \subseteq Targets
  /\ since \in [Targets -> 0..MaxClock]
  /\ due \in 0..MaxClock + Interval /\ ticked \in BOOLEAN
  /\ began \in 0..MaxClock /\ polling \in BOOLEAN
  /\ latest \in [Targets -> NoSample..MaxClock]
  /\ unstored \in BOOLEAN /\ lost \in 0..MaxLost

\* Start: the first cycle is immediate, then the ticker decides.
Init ==
  /\ clock = 0
  /\ watched = Targets /\ since = [s \in Targets |-> 0]
  /\ due = Interval /\ ticked = TRUE
  /\ began = 0 /\ waiting = {} /\ polling = FALSE
  /\ latest = [s \in Targets |-> NoSample]
  /\ unstored = FALSE /\ lost = 0

-----------------------------------------------------------------------------

\* PollAll: one collector for each server listed now.
BeginCycle ==
  /\ ~polling /\ ticked
  /\ ticked' = FALSE /\ polling' = TRUE
  /\ began' = clock /\ waiting' = watched
  /\ UNCHANGED <<clock, watched, since, due, latest, unstored, lost>>

\* The servers cannot be listed: no cycle until the next tick.
SkipCycle ==
  /\ ~polling /\ ticked
  /\ lost < MaxLost /\ lost' = lost + 1
  /\ ticked' = FALSE /\ unstored' = TRUE
  /\ UNCHANGED <<clock, watched, since, due, cycle, latest>>

\* InsertMetric; a sample that cannot be stored is logged.
InsertMetric(s, ts) ==
  \/ latest' = [latest EXCEPT ![s] = ts] /\ UNCHANGED <<unstored, lost>>
  \/ lost < MaxLost /\ lost' = lost + 1 /\ unstored' = TRUE /\ UNCHANGED latest

\* Collect ends in time: the sample bears the time it was begun.  A server that cannot be
\* reached, or whose output means nothing, has a sample that says so.
Collected(s) ==
  /\ s \in waiting /\ clock <= began + Timeout
  /\ waiting' = waiting \ {s}
  /\ InsertMetric(s, began)
  /\ UNCHANGED <<clock, watched, since, timer, began, polling>>

\* The transport decides when the call ends: nothing is ever due.
NeverExpired(s) == s \in waiting /\ clock > MaxClock

\* The cycle has waited long enough for this server.
Expired(s) == s \in waiting /\ clock >= began + Timeout

\* pollOne abandons a collector at the deadline, and its server is down.
Abandon(s) ==
  /\ Expired(s)
  /\ waiting' = waiting \ {s}
  /\ InsertMetric(s, clock)
  /\ UNCHANGED <<clock, watched, since, timer, began, polling>>

\* PruneMetrics after the last sample of the cycle.
EndCycle ==
  /\ polling /\ waiting = {}
  /\ polling' = FALSE
  /\ latest' = [s \in Targets |-> IF latest[s] < clock - Retention THEN NoSample ELSE latest[s]]
  /\ UNCHANGED <<clock, watched, since, timer, began, waiting, unstored, lost>>

-----------------------------------------------------------------------------

\* A timer that is due is served before time goes on.
Urgent ==
  \/ ~polling /\ ticked
  \/ polling /\ waiting = {}
  \/ \E s \in waiting : Expired(s)

\* The ticker keeps one tick while a cycle runs and drops the others.
Tick ==
  /\ clock < MaxClock /\ ~Urgent
  /\ clock' = clock + 1
  /\ IF clock + 1 = due THEN due' = due + Interval /\ ticked' = TRUE ELSE UNCHANGED timer
  /\ UNCHANGED <<watched, since, cycle, latest, unstored, lost>>

\* UpsertServer and DeleteServer.
AddServer(s) ==
  /\ s \notin watched
  /\ watched' = watched \cup {s} /\ since' = [since EXCEPT ![s] = clock]
  /\ UNCHANGED <<clock, timer, cycle, latest, unstored, lost>>

RemoveServer(s) ==
  /\ s \in watched
  /\ watched' = watched \ {s}
  /\ UNCHANGED <<clock, since, timer, cycle, latest, unstored, lost>>

\* The process stops, waiting for no cycle, and starts again.
Restart ==
  /\ lost < MaxLost /\ lost' = lost + 1
  /\ due' = clock + Interval /\ ticked' = TRUE
  /\ polling' = FALSE /\ waiting' = {}
  /\ since' = [s \in Targets |-> clock]
  /\ UNCHANGED <<clock, watched, began, latest, unstored>>

Next ==
  \/ BeginCycle \/ SkipCycle
  \/ \E s \in Targets : Collected(s) \/ Abandon(s) \/ AddServer(s) \/ RemoveServer(s)
  \/ EndCycle
  \/ Tick
  \/ Restart

Spec == Init /\ [][Next]_monitoringVars

-----------------------------------------------------------------------------
(* Properties.                                                             *)

\* handleMonitoring: the card of a server whose newest sample is too old.
Stale(s) == latest[s] # NoSample /\ clock - latest[s] > 2 * Interval

\* "Two missed intervals means the poller is no longer updating us" (handlers.go): while it
\* polls, no host that hangs makes a card stale or leaves it waiting, its own or another's,
\* unless samples cannot be stored, the timeout is longer than the interval, or it is longer
\* than samples are kept: the end of such a cycle prunes what the cycle has stored.
StaleMeansNotPolled ==
  Timeout <= Interval /\ Timeout <= Retention /\ ~unstored =>
    \A s \in watched : clock - since[s] > 2 * Interval => latest[s] # NoSample /\ ~Stale(s)
=============================================================================
