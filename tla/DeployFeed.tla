------------------------------ MODULE DeployFeed ------------------------------
(***************************************************************************)
(* What others see of one deployment: its row and bounded log              *)
(* (internal/models/store.go), the event streams that poll them            *)
(* (internal/server/deploy_stream.go) and the notifications that are sent  *)
(* by a goroutine each (notify of internal/deployment/deployer.go,         *)
(* internal/notify).                                                       *)
(*                                                                         *)
(* Deployer models what the worker decides; here it only writes lines,     *)
(* ends one way or the other and tells the sinks.  Its writes may fail,    *)
(* which is logged and ignored, and the process may die and boot again.    *)
(***************************************************************************)
EXTENDS Naturals, Sequences

CONSTANTS
  Viewers,     \* browsers that may open the stream
  Sinks,       \* how many notification sinks are configured
  LogLimit,    \* lines the log keeps (maxDeploymentLogBytes)
  MaxLines,    \* bound: lines the target writes
  MaxFaults    \* bound: failing writes, sinks that do not answer, crashes

\* What the constants are assumed to be; the MC module that instantiates them states it.
FeedBounds == {Sinks, LogLimit, MaxLines, MaxFaults} \subseteq Nat /\ LogLimit > 0

VARIABLES
  worker,      \* how far Deployer.run is, "gone" after it gave up, or "dead" with the process
  status,      \* deployments.status
  log,         \* deployments.log, by line numbers
  written,     \* lines written so far
  viewer,      \* what each stream has sent and each browser shows
  posts,       \* the event each notification goroutine carries, and to which sink
  heard,       \* what each sink was told, in order
  trimmed,     \* history: the log has outgrown its limit
  unwritten,   \* history: a write failed without which the row is not ended
  faults       \* faults so far

row      == <<status, log, written, trimmed>>
outside  == <<posts, heard>>
feedVars == <<worker, row, viewer, outside, unwritten, faults>>

-----------------------------------------------------------------------------

Verdicts == {"success", "failed"}
Stages   == {"queued", "working", "failing", "succeeding", "done", "gone", "dead"}
Viewer   == [state : {"away", "open", "ended", "closed"},
             sent : 0..LogLimit, shown : Seq(Nat)]
Post     == [event : {"pending"} \cup Verdicts, sink : 1..Sinks]

TypeOK ==
  /\ worker \in Stages
  /\ status \in {"queued", "running"} \cup Verdicts
  /\ log \in Seq(1..MaxLines + 1) /\ Len(log) <= LogLimit
  /\ written \in 0..MaxLines + 1
  /\ viewer \in [Viewers -> Viewer]
  /\ posts \subseteq Post
  /\ heard \in [1..Sinks -> Seq({"pending"} \cup Verdicts)]
  /\ trimmed \in BOOLEAN /\ unwritten \in BOOLEAN
  /\ faults \in 0..MaxFaults

\* The row was inserted and the worker spawned.
Init ==
  /\ worker = "queued" /\ status = "queued"
  /\ log = << >> /\ written = 0
  /\ viewer = [v \in Viewers |-> [state |-> "away", sent |-> 0, shown |-> << >>]]
  /\ posts = {} /\ heard = [s \in 1..Sinks |-> << >>]
  /\ trimmed = FALSE /\ unwritten = FALSE /\ faults = 0

-----------------------------------------------------------------------------
(* The worker.                                                             *)

Fault == faults < MaxFaults /\ faults' = faults + 1

\* capStoredText: the last lines are kept.
CapStoredText(s) == IF Len(s) <= LogLimit THEN s ELSE SubSeq(s, Len(s) - LogLimit + 1, Len(s))

\* AppendDeploymentLog: a line that cannot be written is dropped.
Append1(n) == /\ written' = n
              /\ \/ /\ log' = CapStoredText(Append(log, n))
                    /\ trimmed' = (trimmed \/ Len(log) = LogLimit)
                    /\ UNCHANGED faults
                 \/ Fault /\ UNCHANGED <<log, trimmed>>

\* notify: one goroutine per event, which starts at the first sink.
Notify(event) == posts' = posts \cup (IF Sinks = 0 THEN {} ELSE {[event |-> event, sink |-> 1]})

\* run: without this write nothing is deployed and nobody is told; the row stays open
\* in a process that goes on.
SetRunning ==
  /\ worker = "queued"
  /\ \/ /\ worker' = "working" /\ status' = "running" /\ Notify("pending")
        /\ UNCHANGED <<faults, unwritten>>
     \/ Fault /\ worker' = "gone" /\ unwritten' = TRUE /\ UNCHANGED <<status, posts>>
  /\ UNCHANGED <<log, written, trimmed, viewer, heard>>

\* logf while the target works.
WriteLine ==
  /\ worker = "working" /\ written < MaxLines
  /\ Append1(written + 1)
  /\ UNCHANGED <<worker, status, viewer, outside, unwritten>>

\* The last line, before the row is ended.
Conclude ==
  /\ worker = "working"
  /\ worker' \in {"failing", "succeeding"}
  /\ Append1(written + 1)
  /\ UNCHANGED <<status, viewer, outside, unwritten>>

Verdict == IF worker = "failing" THEN "failed" ELSE "success"

\* FinishDeployment and notify.  The verdict is told even if it was not written.
Finish ==
  /\ worker \in {"failing", "succeeding"}
  /\ worker' = "done" /\ Notify(Verdict)
  /\ \/ status' = Verdict /\ UNCHANGED <<faults, unwritten>>
     \/ Fault /\ unwritten' = TRUE /\ UNCHANGED status
  /\ UNCHANGED <<log, written, trimmed, viewer, heard>>

WorkerStep == SetRunning \/ WriteLine \/ Conclude \/ Finish

-----------------------------------------------------------------------------
(* The streams.                                                            *)

\* handleDeployStart answered with this deployment, its own or the one in flight.
Open(v) ==
  /\ viewer[v].state = "away" /\ worker # "dead"
  /\ viewer' = [viewer EXCEPT ![v].state = "open"]
  /\ UNCHANGED <<worker, row, outside, unwritten, faults>>

\* A decided row ends the stream before the rest of its log is sent.
PollEndsFirst(v) ==
  /\ viewer[v].state = "open"
  /\ viewer' = [viewer EXCEPT
       ![v].shown = IF status \in Verdicts THEN @
                    ELSE @ \o SubSeq(log, viewer[v].sent + 1, Len(log)),
       ![v].sent  = IF Len(log) > @ THEN Len(log) ELSE @,
       ![v].state = IF status \in Verdicts THEN "ended" ELSE "open"]
  /\ UNCHANGED <<worker, row, outside, unwritten, faults>>

\* One turn of the loop: the row is read at once, what is stored beyond the offset
\* is sent, and a decided row ends the stream.
Poll(v) ==
  /\ viewer[v].state = "open"
  /\ viewer' = [viewer EXCEPT
       ![v].shown = @ \o SubSeq(log, viewer[v].sent + 1, Len(log)),
       ![v].sent  = IF Len(log) > @ THEN Len(log) ELSE @,
       ![v].state = IF status \in Verdicts THEN "ended" ELSE "open"]
  /\ UNCHANGED <<worker, row, outside, unwritten, faults>>

\* The row cannot be read, the browser hangs up, or the connection breaks; the
\* drawer does not open another stream.
Close(v) ==
  /\ viewer[v].state = "open" /\ Fault
  /\ viewer' = [viewer EXCEPT ![v].state = "closed"]
  /\ UNCHANGED <<worker, row, outside, unwritten>>

-----------------------------------------------------------------------------
(* The notifications.                                                      *)

\* Multi: the sinks one after the other, whichever of them failed.
Onward(p) == posts' = (posts \ {p}) \cup
               (IF p.sink = Sinks THEN {} ELSE {[p EXCEPT !.sink = @ + 1]})

Deliver(p) ==
  /\ heard' = [heard EXCEPT ![p.sink] = Append(@, p.event)]
  /\ Onward(p)
  /\ UNCHANGED <<worker, row, viewer, unwritten, faults>>

\* A sink does not answer; when the event's fifteen seconds are over, no other hears it.
Undelivered(p) ==
  /\ Fault
  /\ Onward(p) \/ posts' = posts \ {p}
  /\ UNCHANGED <<worker, row, viewer, heard, unwritten>>

-----------------------------------------------------------------------------

\* The process dies with its workers, streams and goroutines.
Crash ==
  /\ worker # "dead" /\ Fault
  /\ worker' = "dead" /\ posts' = {}
  /\ viewer' = [v \in Viewers |-> IF viewer[v].state = "open"
                                  THEN [viewer[v] EXCEPT !.state = "closed"] ELSE viewer[v]]
  /\ UNCHANGED <<row, heard, unwritten>>

\* Every deployment is taken for an interrupted one.
BootFailsAll ==
  /\ worker = "dead" /\ worker' = "gone"
  /\ status' = "failed"
  /\ UNCHANGED <<log, written, trimmed, viewer, outside, unwritten, faults>>

\* Queued deployments are not taken for interrupted ones.
BootFailsRunning ==
  /\ worker = "dead" /\ worker' = "gone"
  /\ status' = IF status = "running" THEN "failed" ELSE status
  /\ UNCHANGED <<log, written, trimmed, viewer, outside, unwritten, faults>>

\* FailInterruptedDeployments at the next boot tells nobody; its error is only logged.
Boot ==
  /\ worker = "dead" /\ worker' = "gone"
  /\ \/ /\ status' = IF status \in Verdicts THEN status ELSE "failed"
        /\ UNCHANGED <<faults, unwritten>>
     \/ Fault /\ unwritten' = TRUE /\ UNCHANGED status
  /\ UNCHANGED <<log, written, trimmed, viewer, outside>>

Next ==
  \/ WorkerStep
  \/ \E v \in Viewers : Open(v) \/ Poll(v) \/ Close(v)
  \/ \E p \in posts : Deliver(p) \/ Undelivered(p)
  \/ Crash
  \/ Boot

\* The worker is inside the calls that reach the target.
AtTarget == worker = "working"

\* Goroutines and tickers run.  A call on the target need not return (Deployer), and no
\* process is owed its death and another boot.
Fairness ==
  /\ WF_feedVars(~AtTarget /\ WorkerStep)
  /\ \A v \in Viewers : WF_feedVars(Poll(v))

Spec     == Init /\ [][Next]_feedVars
FairSpec == Spec /\ Fairness

-----------------------------------------------------------------------------
(* Properties.                                                             *)

\* A stream sends every line at most once and in order; when it ends with the verdict
\* the browser shows the whole stored log, the line that says why included, unless
\* the log was trimmed, after which the offset means nothing.
StreamIsFaithful ==
  \A v \in Viewers :
    LET shown == viewer[v].shown
    IN  /\ \A i, j \in 1..Len(shown) : i < j => shown[i] < shown[j]
        /\ viewer[v].state = "ended" /\ ~trimmed => shown = log

\* What a sink was told of the outcome is what the history says, also after a crash
\* and the reconciliation of the next boot, unless the history could not be written.
SinksHearTheVerdict ==
  \A s \in 1..Sinks : \A i \in DOMAIN heard[s] :
    heard[s][i] \in Verdicts => heard[s][i] = status \/ unwritten

\* A stream ends by itself, because the worker or an earlier boot decided its row.  While
\* the target does not answer, and for good when a status write failed (of the worker at
\* its start or its end, or of the boot), it polls until the browser goes.
StreamsEnd ==
  \A v \in Viewers :
    viewer[v].state = "open" ~> viewer[v].state # "open" \/ AtTarget \/ unwritten
=============================================================================
