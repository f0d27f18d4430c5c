---------------------- MODULE ControlPlaneStreams_proofs ----------------------
(***************************************************************************)
(* Proofs about the components of MCControlPlane that go on by themselves  *)
(* while others look at them or interfere: the poller and its clock, the   *)
(* log and the streams that follow it, provisioning and its steps; and the *)
(* types of all parts together.  ControlPlane_proofs has the other         *)
(* components and the lemma this module shares with it                     *)
(* (PartsKeepTheirSpecs).                                                  *)
(***************************************************************************)
EXTENDS ControlPlane_proofs, SequenceTheorems

-----------------------------------------------------------------------------
(* The poller (Monitoring).  A card is fresh because cycles begin at most  *)
(* an interval apart and each leaves a sample no older than its own        *)
(* beginning; the invariant says both, of the cycle that began last.       *)

\* The clock is between the last beginning and the next tick, and within a cycle's timeout.
OnTime ==
  /\ began <= clock /\ clock < due /\ due <= clock + Interval
  /\ waiting # {} => polling
  /\ polling => clock <= began + Timeout

\* The configuration lets samples get as old as the interval allows, and all are stored.
Keeping == Timeout <= Interval /\ Timeout <= Retention /\ ~unstored

\* The next cycle begins within an interval of the last.
Regular == clock <= began + Interval /\ (~ticked => due <= began + Interval)

\* A server that was there when the last cycle began has a sample of it, unless its collector
\* is still awaited, and then one of the cycle before.
Sampled ==
  \A s \in watched :
    /\ since[s] < began /\ s \notin waiting => latest[s] >= began
    /\ since[s] < began - Interval => latest[s] >= began - Interval

PollInv == Poller!TypeOK /\ OnTime /\ (Keeping => Regular /\ Sampled)

LEMMA PollConstants ==
  /\ Interval \in Nat /\ Interval >= 1 /\ Timeout \in Nat /\ Timeout >= 1
  /\ Retention \in Nat /\ Retention >= 1 /\ MaxClock \in Nat /\ MaxLost \in Nat
<1>1. Poller!MonitoringBounds
  BY Bounds
<1>2. /\ Interval \in Nat \ {0} /\ Timeout \in Nat \ {0} /\ Retention \in Nat \ {0}
      /\ MaxClock \in Nat /\ MaxLost \in Nat
  BY <1>1 DEF Poller!MonitoringBounds
<1>3. QED
  BY <1>2

\* The types, without the sets they are taken from.
LEMMA PollNumbers ==
  ASSUME Poller!TypeOK
  PROVE  /\ clock \in Int /\ began \in Int /\ due \in Int /\ lost \in Int
         /\ 0 <= clock /\ 0 <= began /\ clock <= MaxClock /\ 0 <= lost /\ lost <= MaxLost
         /\ \A s \in Targets : since[s] \in Int /\ 0 <= since[s] /\ latest[s] \in Int /\ -1 <= latest[s]
<1>1. /\ clock \in 0..MaxClock /\ began \in 0..MaxClock /\ due \in 0..MaxClock + Interval
      /\ lost \in 0..MaxLost
      /\ since \in [Targets -> 0..MaxClock] /\ latest \in [Targets -> -1..MaxClock]
  BY DEF Poller!TypeOK, Poller!NoSample
<1>2. \A s \in Targets : since[s] \in 0..MaxClock /\ latest[s] \in -1..MaxClock
  BY <1>1
<1>3. QED
  BY <1>1, <1>2, PollConstants

LEMMA PollInit == Poller!Init => PollInv
<1> SUFFICES ASSUME Poller!Init PROVE PollInv
  OBVIOUS
<1>1. /\ clock = 0 /\ watched = Targets /\ since = [s \in Targets |-> 0] /\ due = Interval
      /\ ticked = TRUE /\ began = 0 /\ waiting = {} /\ polling = FALSE
      /\ latest = [s \in Targets |-> -1] /\ unstored = FALSE /\ lost = 0
  BY DEF Poller!Init, Poller!NoSample
<1>2. /\ 0 \in 0..MaxClock /\ -1 \in -1..MaxClock /\ Interval \in 0..MaxClock + Interval
      /\ 0 \in 0..MaxLost
  BY PollConstants
<1>3. Poller!TypeOK
  BY <1>1, <1>2 DEF Poller!TypeOK, Poller!NoSample
<1>4. OnTime
  BY <1>1, PollConstants DEF OnTime
<1>5. Regular
  BY <1>1, PollConstants DEF Regular
<1>6. Sampled
  <2>1. \A s \in watched : since[s] = 0
    BY <1>1
  <2>2. QED
    BY <1>1, <2>1, PollConstants DEF Sampled
<1>7. QED
  BY <1>3, <1>4, <1>5, <1>6 DEF PollInv

\* A cycle begins at the clock; what the one before left is at most an interval old.
LEMMA BeginCycleKeeps ==
  ASSUME PollInv, Poller!BeginCycle
  PROVE  PollInv'
<1>1. /\ Poller!TypeOK /\ OnTime /\ ~polling /\ polling' = TRUE /\ ticked' = FALSE
      /\ began' = clock /\ waiting' = watched
      /\ UNCHANGED <<clock, watched, since, due, latest, unstored, lost>>
  BY DEF PollInv, Poller!BeginCycle
<1>2. Poller!TypeOK'
  BY <1>1 DEF Poller!TypeOK
<1>3. OnTime'
  BY <1>1, PollNumbers, PollConstants DEF OnTime
<1>4. ASSUME Keeping' PROVE Regular' /\ Sampled'
  <2>1. Keeping /\ Regular /\ Sampled
    BY <1>1, <1>4 DEF PollInv, Keeping
  <2>2. Regular'
    BY <1>1, <2>1, PollNumbers, PollConstants DEF Regular, OnTime
  <2>3. ASSUME NEW s \in watched, since[s] < clock - Interval PROVE latest[s] >= clock - Interval
    <3>1. s \in Targets /\ s \notin waiting
      BY <1>1 DEF OnTime, Poller!TypeOK
    <3>2. clock <= began + Interval
      BY <2>1 DEF Regular
    <3>3. since[s] < began
      BY <1>1, <2>3, <3>1, <3>2, PollNumbers, PollConstants
    <3>4. latest[s] >= began
      BY <2>1, <3>1, <3>3 DEF Sampled
    <3>5. QED
      BY <1>1, <3>1, <3>2, <3>4, PollNumbers, PollConstants
  <2>4. Sampled'
    BY <1>1, <2>3 DEF Sampled
  <2>5. QED
    BY <2>2, <2>4
<1>5. QED
  BY <1>2, <1>3, <1>4 DEF PollInv

LEMMA LostCount ==
  ASSUME Poller!TypeOK, lost < MaxLost, lost' = lost + 1
  PROVE  lost' \in 0..MaxLost
BY PollNumbers, PollConstants

LEMMA SkipCycleKeeps ==
  ASSUME PollInv, Poller!SkipCycle
  PROVE  PollInv'
<1>1. /\ Poller!TypeOK /\ OnTime /\ ticked' = FALSE /\ unstored' = TRUE
      /\ lost < MaxLost /\ lost' = lost + 1
      /\ UNCHANGED <<clock, watched, since, due, began, waiting, polling, latest>>
  BY DEF PollInv, Poller!SkipCycle, Poller!cycle
<1>2. Poller!TypeOK'
  BY <1>1, LostCount DEF Poller!TypeOK
<1>3. OnTime' /\ ~Keeping'
  BY <1>1 DEF OnTime, Keeping
<1>4. QED
  BY <1>2, <1>3 DEF PollInv

\* A collector that is heard or abandoned leaves a sample of this cycle, or the history knows
\* that a sample was not stored.
LEMMA SampleKeeps ==
  ASSUME PollInv, NEW s \in Targets, Poller!Collected(s) \/ Poller!Abandon(s)
  PROVE  PollInv'
<1>1. /\ Poller!TypeOK /\ OnTime /\ s \in waiting /\ polling /\ waiting' = waiting \ {s}
      /\ UNCHANGED <<clock, watched, since, due, ticked, began, polling>>
  BY DEF PollInv, OnTime, Poller!Collected, Poller!Abandon, Poller!Expired, Poller!timer
<1>2. PICK ts \in {began, clock} : Poller!InsertMetric(s, ts)
  BY DEF Poller!Collected, Poller!Abandon
<1>3. ts \in -1..MaxClock /\ ts >= began
  BY <1>1, PollNumbers, PollConstants DEF OnTime
<1>4. OnTime'
  BY <1>1 DEF OnTime
<1>5. CASE latest' = [latest EXCEPT ![s] = ts] /\ UNCHANGED <<unstored, lost>>
  <2>1. /\ latest' \in [Targets -> -1..MaxClock] /\ latest'[s] = ts
        /\ \A t \in Targets \ {s} : latest'[t] = latest[t]
    BY <1>1, <1>3, <1>5 DEF Poller!TypeOK, Poller!NoSample
  <2>2. Poller!TypeOK'
    BY <1>1, <1>5, <2>1 DEF Poller!TypeOK, Poller!NoSample
  <2>3. ASSUME Keeping' PROVE Regular' /\ Sampled'
    <3>1. Regular /\ Sampled
      BY <1>5, <2>3 DEF PollInv, Keeping
    <3>2. Regular'
      BY <1>1, <3>1 DEF Regular
    <3>3. ts >= began - Interval
      BY <1>1, <1>3, PollNumbers, PollConstants
    <3>4. Sampled'
      BY <1>1, <1>3, <2>1, <3>1, <3>3 DEF Sampled, Poller!TypeOK
    <3>5. QED
      BY <3>2, <3>4
  <2>4. QED
    BY <1>4, <2>2, <2>3 DEF PollInv
<1>6. CASE lost < MaxLost /\ lost' = lost + 1 /\ unstored' = TRUE /\ UNCHANGED latest
  <2>1. Poller!TypeOK'
    BY <1>1, <1>6, LostCount DEF Poller!TypeOK
  <2>2. QED
    BY <1>4, <1>6, <2>1 DEF PollInv, Keeping
<1>7. QED
  BY <1>2, <1>5, <1>6 DEF Poller!InsertMetric

\* What a cycle has stored is not pruned at its end: it is no older than the timeout.
LEMMA EndCycleKeeps ==
  ASSUME PollInv, Poller!EndCycle
  PROVE  PollInv'
<1>1. /\ Poller!TypeOK /\ OnTime /\ polling /\ waiting = {} /\ polling' = FALSE
      /\ latest' = [s \in Targets |-> IF latest[s] < clock - Retention THEN -1 ELSE latest[s]]
      /\ UNCHANGED <<clock, watched, since, due, ticked, began, waiting, unstored, lost>>
  BY DEF PollInv, Poller!EndCycle, Poller!timer, Poller!NoSample
<1>2. latest' \in [Targets -> -1..MaxClock]
  <2>1. latest \in [Targets -> -1..MaxClock] /\ -1 \in -1..MaxClock
    BY <1>1, PollConstants DEF Poller!TypeOK, Poller!NoSample
  <2>2. QED
    BY <1>1, <2>1
<1>3. Poller!TypeOK'
  BY <1>1, <1>2 DEF Poller!TypeOK, Poller!NoSample
<1>4. OnTime'
  BY <1>1 DEF OnTime
<1>5. ASSUME Keeping' PROVE Regular' /\ Sampled'
  <2>1. Keeping /\ Regular /\ Sampled
    BY <1>1, <1>5 DEF PollInv, Keeping
  <2>2. Regular'
    BY <1>1, <2>1 DEF Regular
  <2>3. ASSUME NEW s \in watched, since[s] < began PROVE latest'[s] >= began
    <3>1. s \in Targets /\ latest[s] >= began
      BY <1>1, <2>1, <2>3 DEF Sampled, Poller!TypeOK
    <3>2. clock - Retention <= began
      BY <1>1, <2>1, PollNumbers, PollConstants DEF OnTime, Keeping
    <3>3. ~(latest[s] < clock - Retention)
      BY <1>1, <3>1, <3>2, PollNumbers, PollConstants
    <3>4. QED
      BY <1>1, <3>1, <3>3
  <2>4. ASSUME NEW s \in watched, since[s] < began - Interval PROVE latest'[s] >= began - Interval
    <3>1. s \in Targets
      BY <1>1 DEF Poller!TypeOK
    <3>2. since[s] < began
      BY <1>1, <2>4, <3>1, PollNumbers, PollConstants
    <3>3. latest'[s] >= began /\ latest'[s] \in Int
      BY <1>2, <2>3, <3>1, <3>2
    <3>4. QED
      BY <1>1, <3>3, PollNumbers, PollConstants
  <2>5. Sampled'
    BY <1>1, <2>3, <2>4 DEF Sampled
  <2>6. QED
    BY <2>2, <2>5
<1>6. QED
  BY <1>3, <1>4, <1>5 DEF PollInv

\* The clock passes no timer that is due.
LEMMA TickKeeps ==
  ASSUME PollInv, Poller!Tick
  PROVE  PollInv'
<1>1. /\ Poller!TypeOK /\ OnTime /\ clock < MaxClock /\ clock' = clock + 1
      /\ \/ clock + 1 = due /\ due' = due + Interval /\ ticked' = TRUE
         \/ clock + 1 # due /\ UNCHANGED <<due, ticked>>
      /\ UNCHANGED <<watched, since, began, waiting, polling, latest, unstored, lost>>
  BY DEF PollInv, Poller!Tick, Poller!cycle, Poller!timer
<1>2. polling => clock < began + Timeout
  <2> SUFFICES ASSUME polling PROVE clock < began + Timeout
    OBVIOUS
  <2>1. PICK s \in waiting : ~Poller!Expired(s)
    BY DEF Poller!Tick, Poller!Urgent
  <2>2. ~(clock >= began + Timeout)
    BY <2>1 DEF Poller!Expired
  <2>3. QED
    BY <1>1, <2>2, PollNumbers, PollConstants
<1>3. clock' \in 0..MaxClock /\ due' \in 0..MaxClock + Interval
  <2>1. due \in 0..MaxClock + Interval
    BY <1>1 DEF Poller!TypeOK
  <2>2. QED
    BY <1>1, <2>1, PollNumbers, PollConstants DEF OnTime
<1>4. Poller!TypeOK'
  BY <1>1, <1>3 DEF Poller!TypeOK
<1>5. OnTime'
  BY <1>1, <1>2, PollNumbers, PollConstants DEF OnTime
<1>6. ASSUME Keeping' PROVE Regular' /\ Sampled'
  <2>1. Keeping /\ Regular /\ Sampled
    BY <1>1, <1>6 DEF PollInv, Keeping
  <2>2. Sampled'
    BY <1>1, <2>1 DEF Sampled
  <2>3. CASE polling
    BY <1>1, <1>2, <2>1, <2>2, <2>3, PollNumbers, PollConstants DEF Regular, OnTime, Keeping
  <2>4. CASE ~polling
    <3>1. ~ticked
      BY <2>4 DEF Poller!Tick, Poller!Urgent
    <3>2. QED
      BY <1>1, <2>1, <2>2, <3>1, PollNumbers, PollConstants DEF Regular, OnTime
  <2>5. QED
    BY <2>2, <2>3, <2>4
<1>7. QED
  BY <1>4, <1>5, <1>6 DEF PollInv

\* A server that is added is known to no cycle yet.
LEMMA ServersChangeKeeps ==
  ASSUME PollInv, NEW s \in Targets, Poller!AddServer(s) \/ Poller!RemoveServer(s)
  PROVE  PollInv'
<1>1. /\ Poller!TypeOK /\ OnTime
      /\ UNCHANGED <<clock, due, ticked, began, waiting, polling, latest, unstored, lost>>
      /\ since' \in {since, [since EXCEPT ![s] = clock]}
      /\ watched' \subseteq Targets
      /\ \A t \in watched' : (t \in watched /\ since'[t] = since[t]) \/ since'[t] = clock
  BY DEF PollInv, Poller!AddServer, Poller!RemoveServer, Poller!timer, Poller!cycle,
     Poller!TypeOK
<1>2. Poller!TypeOK'
  BY <1>1 DEF Poller!TypeOK
<1>3. OnTime'
  BY <1>1 DEF OnTime
<1>4. ASSUME Keeping' PROVE Regular' /\ Sampled'
  <2>1. Regular /\ Sampled
    BY <1>1, <1>4 DEF PollInv, Keeping
  <2>2. ~(clock < began) /\ ~(clock < began - Interval)
    BY <1>1, PollNumbers, PollConstants DEF OnTime
  <2>3. QED
    BY <1>1, <2>1, <2>2 DEF Regular, Sampled
<1>5. QED
  BY <1>2, <1>3, <1>4 DEF PollInv

\* A restarted poller begins a cycle at once, and knows its servers only from now on.
LEMMA PollerRestartKeeps ==
  ASSUME PollInv, Poller!Restart
  PROVE  PollInv'
<1>1. /\ Poller!TypeOK /\ OnTime /\ due' = clock + Interval /\ ticked' = TRUE
      /\ polling' = FALSE /\ waiting' = {} /\ since' = [s \in Targets |-> clock]
      /\ lost < MaxLost /\ lost' = lost + 1
      /\ UNCHANGED <<clock, watched, began, latest, unstored>>
  BY DEF PollInv, Poller!Restart
<1>2. clock \in 0..MaxClock /\ due' \in 0..MaxClock + Interval
  BY <1>1, PollNumbers, PollConstants
<1>3. Poller!TypeOK'
  BY <1>1, <1>2, LostCount DEF Poller!TypeOK
<1>4. OnTime'
  BY <1>1, PollNumbers, PollConstants DEF OnTime
<1>5. ASSUME Keeping' PROVE Regular' /\ Sampled'
  <2>1. Regular
    BY <1>1, <1>5 DEF PollInv, Keeping
  <2>2. ~(clock < began) /\ ~(clock < began - Interval)
    BY <1>1, PollNumbers, PollConstants DEF OnTime
  <2>3. \A s \in watched' : since'[s] = clock
    BY <1>1 DEF Poller!TypeOK
  <2>4. QED
    BY <1>1, <2>1, <2>2, <2>3 DEF Regular, Sampled
<1>6. QED
  BY <1>3, <1>4, <1>5 DEF PollInv

LEMMA PollInvariant == Poller!Spec => []PollInv
<1>1. PollInv /\ (Poller!Next \/ UNCHANGED Poller!monitoringVars) => PollInv'
  <2> SUFFICES ASSUME PollInv, Poller!Next \/ UNCHANGED Poller!monitoringVars PROVE PollInv'
    OBVIOUS
  <2>1. CASE Poller!Next
    BY <2>1, BeginCycleKeeps, SkipCycleKeeps, SampleKeeps, EndCycleKeeps, TickKeeps,
       ServersChangeKeeps, PollerRestartKeeps DEF Poller!Next
  <2>2. CASE UNCHANGED Poller!monitoringVars
    BY <2>2 DEF Poller!monitoringVars, Poller!timer, Poller!cycle, PollInv, Poller!TypeOK,
       OnTime, Keeping, Regular, Sampled
  <2>3. QED
    BY <2>1, <2>2
<1>2. QED
  BY PollInit, <1>1, PTL DEF Poller!Spec

\* While the poller polls, no host that hangs makes a card stale, its own or another's
\* (PollAll and pollOne, scheduler.go; handleMonitoring, handlers.go).
THEOREM CardsStayFresh == Spec => []StaleMeansNotPolled
<1>1. PollInv => StaleMeansNotPolled
  <2> SUFFICES ASSUME PollInv, Keeping, NEW s \in watched, clock - since[s] > 2 * Interval
               PROVE  latest[s] # -1 /\ ~(clock - latest[s] > 2 * Interval)
    BY DEF StaleMeansNotPolled, Poller!StaleMeansNotPolled, Poller!Stale, Poller!NoSample, Keeping
  <2>1. s \in Targets /\ Poller!TypeOK /\ clock <= began + Interval
    BY DEF PollInv, Poller!TypeOK, Regular
  <2>2. since[s] < began - Interval
    BY <2>1, PollNumbers, PollConstants
  <2>3. latest[s] >= began - Interval
    BY <2>2 DEF PollInv, Sampled
  <2>4. QED
    BY <2>1, <2>2, <2>3, PollNumbers, PollConstants
<1>2. QED
  BY <1>1, PollInvariant, PartsKeepTheirSpecs, PTL

-----------------------------------------------------------------------------
(* The stream and the notifications (DeployFeed).  A browser's lines are   *)
(* compared with a log whose beginning may have been cut off since they    *)
(* were sent: what stays true of the line at the stream's offset is that   *)
(* nothing shown is newer.                                                 *)

Lines == 1..MaxLines + 1

\* The log is in order, and the line that ends the deployment still fits.
Ordered ==
  /\ \A i, j \in 1..Len(log) : i < j => log[i] < log[j]
  /\ \A i \in 1..Len(log) : log[i] <= written
  /\ worker \in {"queued", "working"} => written <= MaxLines

\* Nobody has heard of a verdict before the worker gave it, and what is on its way is the one
\* the history has, or could not be given.
Told ==
  /\ worker \notin {"done", "gone", "dead"} =>
       /\ status \notin Feed!Verdicts
       /\ \A p \in posts : p.event = "pending"
       /\ \A s \in 1..Sinks : \A i \in DOMAIN heard[s] : heard[s][i] = "pending"
  /\ \A p \in posts : p.event \in Feed!Verdicts => p.event = status \/ unwritten
  /\ SinksHearTheVerdict

\* What a browser shows of a log, given the offset of its stream.
Followed(l, sent, shown) ==
  /\ sent <= Len(l)
  /\ \A i, j \in 1..Len(shown) : i < j => shown[i] < shown[j]
  /\ \A j \in 1..Len(shown) : sent >= 1 /\ shown[j] <= l[sent]

Following ==
  \A v \in Viewers :
    /\ Followed(log, viewer[v].sent, viewer[v].shown)
    /\ ~trimmed => /\ Len(viewer[v].shown) = viewer[v].sent
                   /\ \A j \in 1..viewer[v].sent : viewer[v].shown[j] = log[j]
    /\ viewer[v].state = "ended" => viewer[v].sent = Len(log) /\ status \in Feed!Verdicts

FeedInv == Feed!TypeOK /\ Ordered /\ Told /\ Following

LEMMA FeedConstants ==
  /\ Sinks \in Nat /\ LogLimit \in Nat /\ LogLimit >= 1 /\ MaxLines \in Nat /\ MaxFaults \in Nat
<1>1. Feed!FeedBounds
  BY Bounds
<1>2. Sinks \in Nat /\ LogLimit \in Nat /\ LogLimit > 0 /\ MaxLines \in Nat /\ MaxFaults \in Nat
  BY <1>1 DEF Feed!FeedBounds
<1>3. QED
  BY <1>2

LEMMA FeedInit == Feed!Init => FeedInv
<1> SUFFICES ASSUME Feed!Init PROVE FeedInv
  OBVIOUS
<1> DEFINE none == [state |-> "away", sent |-> 0, shown |-> << >>]
<1>1. /\ worker = "queued" /\ status = "queued" /\ log = << >> /\ written = 0
      /\ viewer = [v \in Viewers |-> none] /\ posts = {}
      /\ heard = [s \in 1..Sinks |-> << >>] /\ trimmed = FALSE /\ unwritten = FALSE /\ faults = 0
  BY DEF Feed!Init
<1>2. none \in Feed!Viewer /\ none.state = "away" /\ none.sent = 0 /\ none.shown = << >>
  BY FeedConstants DEF Feed!Viewer
<1> HIDE DEF none
<1>3. /\ 0 \in 0..MaxLines + 1 /\ 0 \in 0..MaxFaults /\ Len(log) = 0 /\ 0 <= LogLimit
      /\ written <= MaxLines
  BY <1>1, FeedConstants
<1>4. log \in Seq(Lines) /\ \A s \in 1..Sinks : heard[s] = << >>
  BY <1>1
<1>5. heard \in [1..Sinks -> Seq({"pending"} \cup Feed!Verdicts)]
  BY <1>1
<1>6. viewer \in [Viewers -> Feed!Viewer]
  BY <1>1, <1>2
<1>7. Feed!TypeOK
  BY <1>1, <1>3, <1>4, <1>5, <1>6 DEF Feed!TypeOK, Feed!Stages, Lines
<1>8. Ordered
  BY <1>3, FeedConstants DEF Ordered
<1>9. Told
  BY <1>1, <1>4 DEF Told, SinksHearTheVerdict, Feed!SinksHearTheVerdict, Feed!Verdicts
<1>10. Following
  <2>1. \A v \in Viewers : viewer[v] = none
    BY <1>1
  <2>2. QED
    BY <1>2, <1>3, <2>1 DEF Following, Followed
<1>11. QED
  BY <1>7, <1>8, <1>9, <1>10 DEF FeedInv

\* capStoredText: the last lines, in their order.
LEMMA CapKeepsTheTail ==
  ASSUME NEW s \in Seq(Lines), NEW k \in Nat, Len(s) = LogLimit + k, k \in {0, 1}
  PROVE  /\ Feed!CapStoredText(s) \in Seq(Lines) /\ Len(Feed!CapStoredText(s)) = LogLimit
         /\ \A i \in 1..LogLimit : Feed!CapStoredText(s)[i] = s[i + k]
<1>1. CASE k = 0
  BY <1>1, FeedConstants DEF Feed!CapStoredText
<1>2. CASE k = 1
  <2>1. Feed!CapStoredText(s) = SubSeq(s, 2, Len(s))
    BY <1>2, FeedConstants DEF Feed!CapStoredText
  <2>2. Len(s) = LogLimit + 1 /\ \A i \in 2..Len(s) : s[i] \in Lines
    BY <1>2, FeedConstants, ElementOfSeq
  <2>3. /\ SubSeq(s, 2, Len(s)) \in Seq(Lines)
        /\ Len(SubSeq(s, 2, Len(s))) = IF 2 <= Len(s) THEN Len(s) - 2 + 1 ELSE 0
        /\ \A i \in 1..Len(s) - 2 + 1 : SubSeq(s, 2, Len(s))[i] = s[2 + i - 1]
    BY <2>2, FeedConstants, SubSeqProperties
  <2>4. QED
    BY <1>2, <2>1, <2>2, <2>3, FeedConstants
<1>3. QED
  BY <1>1, <1>2

\* A line that is stored is the newest; until the log has outgrown its limit the others stay
\* where they are, and then each place holds a newer one.
LEMMA StoredLine ==
  ASSUME Feed!TypeOK, Ordered, written <= MaxLines,
         log' = Feed!CapStoredText(Append(log, written + 1))
  PROVE  /\ log' \in Seq(Lines) /\ Len(log') <= LogLimit /\ Len(log) <= Len(log')
         /\ \A i, j \in 1..Len(log') : i < j => log'[i] < log'[j]
         /\ \A i \in 1..Len(log') : log'[i] <= written + 1
         /\ \A i \in 1..Len(log) : log[i] <= log'[i]
         /\ Len(log) # LogLimit => \A i \in 1..Len(log) : log'[i] = log[i]
<1> DEFINE longer == Append(log, written + 1)
<1>1. log \in Seq(Lines) /\ Len(log) \in Nat /\ Len(log) <= LogLimit /\ written \in Nat
  BY FeedConstants, LenProperties DEF Feed!TypeOK, Lines
<1>2. written + 1 \in Lines
  BY <1>1, FeedConstants DEF Lines
<1>3. /\ longer \in Seq(Lines) /\ Len(longer) = Len(log) + 1
      /\ \A i \in 1..Len(log) : longer[i] = log[i]
      /\ longer[Len(log) + 1] = written + 1
  BY <1>1, <1>2, AppendProperties
<1>4. \A i \in 1..Len(log) : log[i] \in Lines /\ log[i] \in Nat
  BY <1>1, FeedConstants, ElementOfSeq DEF Lines
<1>5. \A i \in 1..Len(longer) : longer[i] \in Nat /\ longer[i] <= written + 1
  BY <1>1, <1>3, <1>4 DEF Ordered
<1>6. \A i, j \in 1..Len(longer) : i < j => longer[i] < longer[j]
  BY <1>1, <1>3, <1>4 DEF Ordered
<1>7. log' = Feed!CapStoredText(longer)
  OBVIOUS
<1> HIDE DEF longer
<1>8. CASE Len(log) < LogLimit
  <2>1. log' = longer
    BY <1>1, <1>3, <1>7, <1>8, FeedConstants DEF Feed!CapStoredText
  <2>2. QED
    BY <1>1, <1>3, <1>4, <1>5, <1>6, <1>8, <2>1, FeedConstants
<1>9. CASE Len(log) = LogLimit
  <2>1. /\ log' \in Seq(Lines) /\ Len(log') = LogLimit
        /\ \A i \in 1..LogLimit : log'[i] = longer[i + 1]
    BY <1>3, <1>7, <1>9, FeedConstants, CapKeepsTheTail
  <2>2. \A i, j \in 1..LogLimit : i < j => log'[i] < log'[j]
    BY <1>3, <1>6, <1>9, <2>1, FeedConstants
  <2>3. \A i \in 1..LogLimit : log'[i] <= written + 1
    BY <1>3, <1>5, <1>9, <2>1, FeedConstants
  <2>4. ASSUME NEW i \in 1..LogLimit PROVE log[i] <= log'[i]
    <3>1. i \in 1..Len(longer) /\ i + 1 \in 1..Len(longer) /\ i < i + 1
      BY <1>3, <1>9, FeedConstants
    <3>2. longer[i] < longer[i + 1] /\ longer[i] \in Nat /\ longer[i + 1] \in Nat
      BY <1>5, <1>6, <3>1
    <3>3. QED
      BY <1>3, <1>9, <2>1, <3>2
  <2>5. QED
    BY <1>9, <2>1, <2>2, <2>3, <2>4
<1>10. QED
  BY <1>1, <1>8, <1>9, FeedConstants

LEMMA FaultCount ==
  ASSUME Feed!TypeOK, Feed!Fault \/ UNCHANGED faults
  PROVE  faults' \in 0..MaxFaults
<1>1. faults \in 0..MaxFaults
  BY DEF Feed!TypeOK
<1>2. QED
  BY <1>1, FeedConstants DEF Feed!Fault

\* The worker writes a line, or fails to.
LEMMA LineKeeps ==
  ASSUME FeedInv, Feed!WriteLine \/ Feed!Conclude
  PROVE  FeedInv'
<1>1. /\ Feed!TypeOK /\ Ordered /\ Told /\ Following /\ worker = "working"
      /\ UNCHANGED <<status, viewer, posts, heard, unwritten>> /\ Feed!Append1(written + 1)
      /\ worker' \in {"working", "failing", "succeeding"}
      /\ worker' = "working" => written < MaxLines
  BY DEF FeedInv, Feed!WriteLine, Feed!Conclude, Feed!outside
<1>2. written <= MaxLines /\ written \in Nat
  BY <1>1, FeedConstants DEF Ordered, Feed!TypeOK
<1>3. /\ log \in Seq(Lines) /\ Len(log) \in Nat /\ Len(log) <= LogLimit
      /\ \A i \in 1..Len(log) : log[i] \in Nat
  <2>1. log \in Seq(Lines) /\ Len(log) <= LogLimit
    BY <1>1 DEF Feed!TypeOK, Lines
  <2>2. \A i \in 1..Len(log) : log[i] \in Lines
    BY <2>1, ElementOfSeq
  <2>3. QED
    BY <2>1, <2>2, LenProperties, FeedConstants DEF Lines
<1>4. /\ log' \in Seq(Lines) /\ Len(log') <= LogLimit /\ Len(log) <= Len(log') /\ Len(log') \in Nat
      /\ \A i, j \in 1..Len(log') : i < j => log'[i] < log'[j]
      /\ \A i \in 1..Len(log') : log'[i] <= written + 1
      /\ \A i \in 1..Len(log) : log[i] <= log'[i]
      /\ \A i \in 1..Len(log') : log'[i] \in Nat
      /\ ~trimmed' => ~trimmed /\ \A i \in 1..Len(log) : log'[i] = log[i]
  <2>1. CASE /\ log' = Feed!CapStoredText(Append(log, written + 1))
             /\ trimmed' = (trimmed \/ Len(log) = LogLimit)
    <3>1. /\ log' \in Seq(Lines) /\ Len(log') <= LogLimit /\ Len(log) <= Len(log')
          /\ \A i, j \in 1..Len(log') : i < j => log'[i] < log'[j]
          /\ \A i \in 1..Len(log') : log'[i] <= written + 1
          /\ \A i \in 1..Len(log) : log[i] <= log'[i]
          /\ Len(log) # LogLimit => \A i \in 1..Len(log) : log'[i] = log[i]
      BY <1>1, <1>2, <2>1, StoredLine
    <3>2. \A i \in 1..Len(log') : log'[i] \in Lines
      BY <3>1, ElementOfSeq
    <3>3. Len(log') \in Nat
      BY <3>1, LenProperties
    <3>4. \A i \in 1..Len(log') : log'[i] \in Nat
      BY <3>2, FeedConstants DEF Lines
    <3>5. ~trimmed' => ~trimmed /\ \A i \in 1..Len(log) : log'[i] = log[i]
      BY <2>1, <3>1
    <3>6. QED
      BY <3>1, <3>3, <3>4, <3>5
  <2>2. CASE UNCHANGED <<log, trimmed>>
    BY <1>1, <1>2, <1>3, <2>2 DEF Ordered
  <2>3. QED
    BY <1>1, <2>1, <2>2 DEF Feed!Append1
<1>5. /\ written' = written + 1 /\ written' \in 0..MaxLines + 1
      /\ worker' \in {"queued", "working"} => written' <= MaxLines
  BY <1>1, <1>2, FeedConstants DEF Feed!Append1
<1>6. trimmed' \in BOOLEAN /\ faults' \in 0..MaxFaults
  BY <1>1, FaultCount DEF Feed!Append1, Feed!TypeOK
<1>7. Feed!TypeOK'
  BY <1>1, <1>4, <1>5, <1>6 DEF Feed!TypeOK, Feed!Stages, Lines
<1>8. Ordered'
  BY <1>4, <1>5 DEF Ordered
<1>9. Told'
  BY <1>1 DEF Told, SinksHearTheVerdict, Feed!SinksHearTheVerdict
<1>10. Following'
  <2> SUFFICES ASSUME NEW v \in Viewers
               PROVE  /\ Followed(log', viewer[v].sent, viewer[v].shown)
                      /\ ~trimmed' => /\ Len(viewer[v].shown) = viewer[v].sent
                                      /\ \A j \in 1..viewer[v].sent : viewer[v].shown[j] = log'[j]
                      /\ viewer[v].state # "ended"
    BY <1>1 DEF Following
  <2>1. viewer[v].sent \in Nat /\ viewer[v].shown \in Seq(Nat)
    BY <1>1, FeedConstants DEF Feed!TypeOK, Feed!Viewer
  <2>2. \A j \in 1..Len(viewer[v].shown) : viewer[v].shown[j] \in Nat
    BY <2>1, ElementOfSeq
  <2>3. Followed(log, viewer[v].sent, viewer[v].shown)
    BY <1>1 DEF Following
  <2>4. Followed(log', viewer[v].sent, viewer[v].shown)
    <3>1. viewer[v].sent <= Len(log')
      BY <1>3, <1>4, <2>1, <2>3 DEF Followed
    <3>2. ASSUME NEW j \in 1..Len(viewer[v].shown)
          PROVE  viewer[v].sent >= 1 /\ viewer[v].shown[j] <= log'[viewer[v].sent]
      <4>1. /\ viewer[v].sent >= 1 /\ viewer[v].sent \in 1..Len(log)
            /\ viewer[v].shown[j] <= log[viewer[v].sent]
        BY <1>3, <2>1, <2>3 DEF Followed
      <4>2. log[viewer[v].sent] \in Nat /\ viewer[v].sent \in 1..Len(log')
        BY <1>3, <1>4, <4>1
      <4>3. /\ log[viewer[v].sent] <= log'[viewer[v].sent]
            /\ log'[viewer[v].sent] \in Nat
        BY <1>4, <4>1, <4>2
      <4>4. viewer[v].shown[j] \in Nat
        BY <2>2
      <4>5. QED
        BY <4>1, <4>2, <4>3, <4>4
    <3>3. QED
      BY <2>3, <3>1, <3>2 DEF Followed
  <2>5. ~trimmed' => /\ Len(viewer[v].shown) = viewer[v].sent
                     /\ \A j \in 1..viewer[v].sent : viewer[v].shown[j] = log'[j]
    <3> SUFFICES ASSUME ~trimmed'
                 PROVE  /\ Len(viewer[v].shown) = viewer[v].sent
                        /\ \A j \in 1..viewer[v].sent : viewer[v].shown[j] = log'[j]
      OBVIOUS
    <3>1. /\ Len(viewer[v].shown) = viewer[v].sent
          /\ \A j \in 1..viewer[v].sent : viewer[v].shown[j] = log[j]
      BY <1>1, <1>4 DEF Following
    <3>2. \A j \in 1..viewer[v].sent : j \in 1..Len(log)
      BY <1>3, <2>1, <2>3 DEF Followed
    <3>3. \A i \in 1..Len(log) : log'[i] = log[i]
      BY <1>4
    <3>4. QED
      BY <3>1, <3>2, <3>3
  <2>6. viewer[v].state # "ended"
    BY <1>1 DEF Following, Told
  <2>7. QED
    BY <2>4, <2>5, <2>6
<1>11. QED
  BY <1>7, <1>8, <1>9, <1>10 DEF FeedInv

\* The deployment begins, and the sinks are to hear that it has.
LEMMA SetRunningKeeps ==
  ASSUME FeedInv, Feed!SetRunning
  PROVE  FeedInv'
<1>1. /\ Feed!TypeOK /\ Ordered /\ Told /\ Following /\ worker = "queued"
      /\ UNCHANGED <<log, written, trimmed, viewer, heard>>
      /\ \/ worker' = "working" /\ status' = "running" /\ unwritten' = unwritten
         \/ worker' = "gone" /\ status' = status /\ unwritten' = TRUE
  BY DEF FeedInv, Feed!SetRunning
<1>2. posts' \subseteq Feed!Post /\ \A p \in posts' : p \in posts \/ p.event = "pending"
  <2>1. CASE UNCHANGED posts
    BY <1>1, <2>1 DEF Feed!TypeOK
  <2>2. CASE Feed!Notify("pending")
    <3>1. CASE Sinks = 0
      BY <1>1, <2>2, <3>1 DEF Feed!TypeOK, Feed!Notify
    <3>2. CASE Sinks # 0
      <4>1. posts' = posts \cup {[event |-> "pending", sink |-> 1]} /\ 1 \in 1..Sinks
        BY <2>2, <3>2, FeedConstants DEF Feed!Notify
      <4>2. [event |-> "pending", sink |-> 1] \in Feed!Post
        BY <4>1 DEF Feed!Post
      <4>3. QED
        BY <1>1, <4>1, <4>2 DEF Feed!TypeOK
    <3>3. QED
      BY <3>1, <3>2
  <2>3. QED
    BY <2>1, <2>2 DEF Feed!SetRunning
<1>3. faults' \in 0..MaxFaults
  BY <1>1, FaultCount DEF Feed!SetRunning
<1>4. Feed!TypeOK'
  BY <1>1, <1>2, <1>3 DEF Feed!TypeOK, Feed!Stages
<1>5. Ordered'
  BY <1>1 DEF Ordered
<1>6. Told'
  BY <1>1, <1>2 DEF Told, SinksHearTheVerdict, Feed!SinksHearTheVerdict, Feed!Verdicts
<1>7. Following'
  BY <1>1 DEF Following, Told
<1>8. QED
  BY <1>4, <1>5, <1>6, <1>7 DEF FeedInv

\* The verdict: until now nobody has heard one.
LEMMA FinishKeeps ==
  ASSUME FeedInv, Feed!Finish
  PROVE  FeedInv'
<1>1. /\ Feed!TypeOK /\ Ordered /\ Told /\ Following /\ worker \in {"failing", "succeeding"}
      /\ worker' = "done" /\ UNCHANGED <<log, written, trimmed, viewer, heard>>
      /\ Feed!Verdict \in Feed!Verdicts
  BY DEF FeedInv, Feed!Finish, Feed!Verdict, Feed!Verdicts
<1>2. PICK verdict \in Feed!Verdicts :
        /\ Feed!Notify(verdict)
        /\ (status' = verdict /\ unwritten' = unwritten) \/ (unwritten' = TRUE /\ status' = status)
  BY <1>1 DEF Feed!Finish
<1>3. posts' \subseteq Feed!Post /\ \A p \in posts' : p \in posts \/ p.event = verdict
  <2>1. CASE Sinks = 0
    BY <1>1, <1>2, <2>1 DEF Feed!TypeOK, Feed!Notify
  <2>2. CASE Sinks # 0
    <3>1. posts' = posts \cup {[event |-> verdict, sink |-> 1]} /\ 1 \in 1..Sinks
      BY <1>2, <2>2, FeedConstants DEF Feed!Notify
    <3>2. [event |-> verdict, sink |-> 1] \in Feed!Post
      BY <3>1 DEF Feed!Post
    <3>3. QED
      BY <1>1, <3>1, <3>2 DEF Feed!TypeOK
  <2>3. QED
    BY <2>1, <2>2
<1>4. faults' \in 0..MaxFaults
  BY <1>1, FaultCount DEF Feed!Finish
<1>5. Feed!TypeOK'
  BY <1>1, <1>2, <1>3, <1>4 DEF Feed!TypeOK, Feed!Stages, Feed!Verdicts
<1>6. Ordered'
  BY <1>1 DEF Ordered
<1>7. Told'
  BY <1>1, <1>2, <1>3 DEF Told, SinksHearTheVerdict, Feed!SinksHearTheVerdict, Feed!Verdicts
<1>8. Following'
  BY <1>1 DEF Following, Told
<1>9. QED
  BY <1>5, <1>6, <1>7, <1>8 DEF FeedInv

LEMMA LessThrough ==
  ASSUME NEW a \in Nat, NEW b \in Nat, NEW c \in Nat, a <= b, b < c
  PROVE  a < c
  OBVIOUS

\* What a stream shows after it has sent what is stored beyond its offset.
LEMMA SentBeyond ==
  ASSUME NEW l \in Seq(Nat), \A i, j \in 1..Len(l) : i < j => l[i] < l[j],
         NEW sent \in Nat, NEW shown \in Seq(Nat), Followed(l, sent, shown)
  PROVE  /\ shown \o SubSeq(l, sent + 1, Len(l)) \in Seq(Nat)
         /\ Followed(l, Len(l), shown \o SubSeq(l, sent + 1, Len(l)))
         /\ Len(shown) = sent /\ (\A j \in 1..sent : shown[j] = l[j]) =>
              /\ Len(shown \o SubSeq(l, sent + 1, Len(l))) = Len(l)
              /\ \A j \in 1..Len(l) : (shown \o SubSeq(l, sent + 1, Len(l)))[j] = l[j]
<1> DEFINE rest == SubSeq(l, sent + 1, Len(l))
           all  == shown \o rest
<1>1. /\ Len(l) \in Nat /\ Len(shown) \in Nat /\ sent <= Len(l)
      /\ \A i \in 1..Len(l) : l[i] \in Nat
      /\ \A i \in 1..Len(shown) : shown[i] \in Nat
  BY ElementOfSeq, LenProperties DEF Followed
<1>2. /\ rest \in Seq(Nat) /\ Len(rest) = Len(l) - sent
      /\ \A i \in 1..Len(l) - sent : rest[i] = l[sent + i]
  <2>1. \A i \in sent + 1..Len(l) : l[i] \in Nat
    BY <1>1
  <2>2. /\ rest \in Seq(Nat)
        /\ Len(rest) = IF sent + 1 <= Len(l) THEN Len(l) - (sent + 1) + 1 ELSE 0
        /\ \A i \in 1..Len(l) - (sent + 1) + 1 : rest[i] = l[sent + 1 + i - 1]
    BY <1>1, <2>1, SubSeqProperties
  <2> HIDE DEF rest
  <2>3. QED
    BY <1>1, <2>2
<1> HIDE DEF rest
<1>3. /\ all \in Seq(Nat) /\ Len(all) = Len(shown) + Len(rest)
      /\ \A i \in 1..Len(shown) + Len(rest) :
           all[i] = IF i <= Len(shown) THEN shown[i] ELSE rest[i - Len(shown)]
  BY <1>2, ConcatProperties
<1> HIDE DEF all
<1>4. \A i \in 1..Len(shown) : i \in 1..Len(all) /\ all[i] = shown[i]
  BY <1>1, <1>2, <1>3
<1>5. ASSUME NEW i \in 1..Len(all), i > Len(shown)
      PROVE  i - Len(shown) + sent \in sent + 1..Len(l) /\ all[i] = l[i - Len(shown) + sent]
  <2> DEFINE k == i - Len(shown)
  <2>1. k \in 1..Len(l) - sent
    BY <1>1, <1>2, <1>3, <1>5
  <2>2. all[i] = rest[k]
    BY <1>1, <1>3, <1>5
  <2> HIDE DEF k
  <2>3. rest[k] = l[sent + k]
    BY <1>2, <2>1
  <2>4. sent + k = k + sent /\ k + sent \in sent + 1..Len(l)
    BY <1>1, <2>1
  <2>5. all[i] = l[k + sent] /\ k + sent \in sent + 1..Len(l)
    BY <2>2, <2>3, <2>4
  <2>6. QED
    BY <2>5 DEF k
<1>6. ASSUME NEW i \in 1..Len(all), NEW j \in 1..Len(all), i < j PROVE all[i] < all[j]
  <2>1. CASE j <= Len(shown)
    BY <1>1, <1>4, <1>6, <2>1 DEF Followed
  <2>2. CASE i <= Len(shown) /\ j > Len(shown)
    <3>1. sent >= 1 /\ all[i] = shown[i] /\ shown[i] <= l[sent]
      BY <1>1, <1>4, <2>2 DEF Followed
    <3>2. PICK k \in sent + 1..Len(l) : all[j] = l[k]
      BY <1>5, <2>2
    <3>3. sent \in 1..Len(l) /\ k \in 1..Len(l) /\ sent < k
      <4>1. Len(l) \in Nat /\ sent <= Len(l) /\ sent >= 1
        BY <1>1, <3>1
      <4>2. k \in sent + 1..Len(l)
        BY <3>2
      <4>3. QED
        BY <4>1, <4>2
    <3>4. l[sent] < l[k] /\ l[sent] \in Nat /\ l[k] \in Nat
      BY <1>1, <3>3
    <3>5. i \in 1..Len(shown)
      BY <1>1, <2>2
    <3>6. shown[i] \in Nat
      BY <1>1, <3>5
    <3>7. shown[i] < l[k]
      BY <3>1, <3>4, <3>6, LessThrough
    <3>8. QED
      BY <3>1, <3>2, <3>7
  <2>3. CASE i > Len(shown)
    <3>1. j > Len(shown)
      BY <1>1, <1>6, <2>3
    <3>2. /\ i - Len(shown) + sent \in sent + 1..Len(l) /\ all[i] = l[i - Len(shown) + sent]
          /\ j - Len(shown) + sent \in sent + 1..Len(l) /\ all[j] = l[j - Len(shown) + sent]
      BY <1>5, <2>3, <3>1
    <3>3. /\ i - Len(shown) + sent \in 1..Len(l) /\ j - Len(shown) + sent \in 1..Len(l)
          /\ i - Len(shown) + sent < j - Len(shown) + sent
      <4>1. Len(l) \in Nat /\ Len(shown) \in Nat /\ i \in Int /\ j \in Int /\ i < j
        BY <1>1, <1>3, <1>6
      <4>2. /\ i - Len(shown) + sent \in sent + 1..Len(l)
            /\ j - Len(shown) + sent \in sent + 1..Len(l)
        BY <3>2
      <4>3. QED
        BY <4>1, <4>2
    <3>4. l[i - Len(shown) + sent] < l[j - Len(shown) + sent]
      <4> DEFINE p == i - Len(shown) + sent
                 q == j - Len(shown) + sent
      <4>1. p \in 1..Len(l) /\ q \in 1..Len(l) /\ p < q
        BY <3>3
      <4> HIDE DEF p, q
      <4>2. l[p] < l[q]
        BY <4>1
      <4>3. QED
        BY <4>2 DEF p, q
    <3>5. QED
      BY <3>2, <3>4
  <2>4. QED
    BY <1>1, <2>1, <2>2, <2>3
<1>7. ASSUME NEW j \in 1..Len(all) PROVE Len(l) >= 1 /\ all[j] <= l[Len(l)]
  <2>1. PICK k \in 1..Len(l) : all[j] <= l[k]
    <3>1. CASE j <= Len(shown)
      <4>1. sent >= 1 /\ all[j] = shown[j] /\ shown[j] <= l[sent]
        BY <1>1, <1>4, <3>1 DEF Followed
      <4>2. sent \in 1..Len(l)
        BY <1>1, <4>1
      <4>3. QED
        BY <4>1, <4>2
    <3>2. CASE j > Len(shown)
      <4>1. PICK k \in sent + 1..Len(l) : all[j] = l[k]
        BY <1>5, <3>2
      <4>2. k \in 1..Len(l) /\ l[k] \in Nat
        BY <1>1, <4>1
      <4>3. QED
        BY <4>1, <4>2
    <3>3. QED
      BY <1>1, <3>1, <3>2
  <2>2. l[k] <= l[Len(l)] /\ Len(l) >= 1 /\ l[k] \in Nat /\ l[Len(l)] \in Nat
    BY <1>1, <2>1
  <2>3. all[j] \in Nat
    BY <1>3, ElementOfSeq
  <2>4. QED
    BY <2>1, <2>2, <2>3
<1>8. Followed(l, Len(l), all)
  BY <1>1, <1>6, <1>7 DEF Followed
<1>9. ASSUME Len(shown) = sent, \A j \in 1..sent : shown[j] = l[j]
      PROVE  Len(all) = Len(l) /\ \A j \in 1..Len(l) : all[j] = l[j]
  <2>1. Len(all) = Len(l)
    BY <1>1, <1>2, <1>3, <1>9
  <2>2. ASSUME NEW j \in 1..Len(l) PROVE all[j] = l[j]
    <3>1. CASE j <= Len(shown)
      BY <1>1, <1>4, <1>9, <3>1
    <3>2. CASE j > Len(shown)
      <4>1. all[j] = l[j - Len(shown) + sent]
        BY <1>5, <2>1, <3>2
      <4>2. j - Len(shown) + sent = j
        BY <1>1, <1>9
      <4>3. QED
        BY <4>1, <4>2
    <3>3. QED
      BY <1>1, <3>1, <3>2
  <2>3. QED
    BY <2>1, <2>2
<1>10. QED
  BY <1>3, <1>8, <1>9 DEF all, rest

\* One turn of a stream: it sends what is stored beyond its offset and ends with the verdict.
LEMMA PollStreamKeeps ==
  ASSUME FeedInv, NEW v \in Viewers, Feed!Poll(v)
  PROVE  FeedInv'
<1>1. /\ Feed!TypeOK /\ Ordered /\ Told /\ Following
      /\ UNCHANGED <<worker, status, log, written, trimmed, posts, heard, unwritten, faults>>
  BY DEF FeedInv, Feed!Poll, Feed!row, Feed!outside
<1> DEFINE sent  == viewer[v].sent
           shown == viewer[v].shown
           all   == shown \o SubSeq(log, sent + 1, Len(log))
           next  == IF status \in Feed!Verdicts THEN "ended" ELSE "open"
           new   == [viewer[v] EXCEPT !.shown = all, !.sent = Len(log), !.state = next]
<1>2. /\ viewer \in [Viewers -> Feed!Viewer] /\ sent \in 0..LogLimit /\ sent \in Nat
      /\ shown \in Seq(Nat) /\ Followed(log, sent, shown)
  BY <1>1, FeedConstants DEF Feed!TypeOK, Feed!Viewer, Following
<1>3. log \in Seq(Nat) /\ Len(log) \in Nat /\ Len(log) <= LogLimit
  <2>1. log \in Seq(Lines) /\ Len(log) <= LogLimit
    BY <1>1 DEF Feed!TypeOK, Lines
  <2>2. log \in Seq(Nat)
    BY <2>1, FeedConstants, SeqMonotonic DEF Lines
  <2>3. QED
    BY <2>1, <2>2, LenProperties
<1>4. /\ all \in Seq(Nat) /\ Followed(log, Len(log), all)
      /\ Len(shown) = sent /\ (\A j \in 1..sent : shown[j] = log[j]) =>
           Len(all) = Len(log) /\ \A j \in 1..Len(log) : all[j] = log[j]
  BY <1>1, <1>2, <1>3, SentBeyond DEF Ordered
<1>5. viewer' = [viewer EXCEPT ![v] = new]
  <2>1. (IF Len(log) > sent THEN Len(log) ELSE sent) = Len(log)
    BY <1>2, <1>3 DEF Followed
  <2>2. viewer' = [viewer EXCEPT ![v].shown = all,
                                 ![v].sent  = IF Len(log) > sent THEN Len(log) ELSE sent,
                                 ![v].state = next]
    BY <1>2 DEF Feed!Poll
  <2> HIDE DEF all, next
  <2>3. QED
    BY <1>2, <2>1, <2>2 DEF Feed!Viewer
<1>6. new \in Feed!Viewer /\ new.state = next /\ new.sent = Len(log) /\ new.shown = all
  <2>1. Len(log) \in 0..LogLimit /\ next \in {"ended", "open"}
    BY <1>3
  <2>2. viewer[v] \in Feed!Viewer
    BY <1>2
  <2> HIDE DEF all, next
  <2>3. QED
    BY <1>4, <2>1, <2>2 DEF Feed!Viewer
<1> HIDE DEF new
<1>7. /\ viewer' \in [Viewers -> Feed!Viewer] /\ viewer'[v] = new
      /\ \A w \in Viewers \ {v} : viewer'[w] = viewer[w]
  BY <1>2, <1>5, <1>6
<1>8. Feed!TypeOK'
  BY <1>1, <1>7 DEF Feed!TypeOK
<1>9. Ordered'
  BY <1>1 DEF Ordered
<1>10. Told'
  BY <1>1 DEF Told, SinksHearTheVerdict, Feed!SinksHearTheVerdict
<1>11. Following'
  <2>1. \A w \in Viewers \ {v} :
          /\ Followed(log, viewer[w].sent, viewer[w].shown)
          /\ ~trimmed => /\ Len(viewer[w].shown) = viewer[w].sent
                         /\ \A j \in 1..viewer[w].sent : viewer[w].shown[j] = log[j]
          /\ viewer[w].state = "ended" => viewer[w].sent = Len(log) /\ status \in Feed!Verdicts
    BY <1>1 DEF Following
  <2>2. ~trimmed => Len(all) = Len(log) /\ \A j \in 1..Len(log) : all[j] = log[j]
    BY <1>1, <1>4 DEF Following
  <2>3. next = "ended" => status \in Feed!Verdicts
    OBVIOUS
  <2> HIDE DEF all, next
  <2>4. /\ Followed(log', viewer'[v].sent, viewer'[v].shown)
        /\ ~trimmed' => /\ Len(viewer'[v].shown) = viewer'[v].sent
                        /\ \A j \in 1..viewer'[v].sent : viewer'[v].shown[j] = log'[j]
        /\ viewer'[v].state = "ended" => viewer'[v].sent = Len(log') /\ status' \in Feed!Verdicts
    BY <1>1, <1>4, <1>6, <1>7, <2>2, <2>3
  <2>5. QED
    BY <1>1, <1>7, <2>1, <2>4 DEF Following
<1>12. QED
  BY <1>8, <1>9, <1>10, <1>11 DEF FeedInv

\* A stream that is opened, breaks or dies with the process sends nothing.
LEMMA StreamsMoveKeeps ==
  ASSUME FeedInv, UNCHANGED <<status, log, written, trimmed, heard, unwritten>>,
         worker' = worker \/ worker' = "dead",
         faults' \in 0..MaxFaults, posts' \subseteq posts,
         viewer' \in [Viewers -> Feed!Viewer],
         \A v \in Viewers : /\ viewer'[v].sent = viewer[v].sent
                            /\ viewer'[v].shown = viewer[v].shown
                            /\ viewer'[v].state = "ended" => viewer[v].state = "ended"
  PROVE  FeedInv'
<1>1. Feed!TypeOK /\ Ordered /\ Told /\ Following
  BY DEF FeedInv
<1>2. Feed!TypeOK'
  BY <1>1 DEF Feed!TypeOK, Feed!Stages
<1>3. Ordered'
  BY <1>1 DEF Ordered
<1>4. Told'
  BY <1>1 DEF Told, SinksHearTheVerdict, Feed!SinksHearTheVerdict
<1>5. Following'
  BY <1>1 DEF Following
<1>6. QED
  BY <1>2, <1>3, <1>4, <1>5 DEF FeedInv

LEMMA OpenCloseKeeps ==
  ASSUME FeedInv, NEW v \in Viewers, Feed!Open(v) \/ Feed!Close(v)
  PROVE  FeedInv'
<1>1. Feed!TypeOK /\ faults' \in 0..MaxFaults /\ viewer \in [Viewers -> Feed!Viewer]
  BY FaultCount DEF FeedInv, Feed!Open, Feed!Close, Feed!TypeOK
<1>2. PICK s \in {"open", "closed"} : viewer' = [viewer EXCEPT ![v] = [viewer[v] EXCEPT !.state = s]]
  BY DEF Feed!Open, Feed!Close
<1>3. [viewer[v] EXCEPT !.state = s] \in Feed!Viewer
  BY <1>1 DEF Feed!Viewer
<1>4. /\ viewer' \in [Viewers -> Feed!Viewer]
      /\ \A w \in Viewers : /\ viewer'[w].sent = viewer[w].sent
                            /\ viewer'[w].shown = viewer[w].shown
                            /\ viewer'[w].state = "ended" => viewer[w].state = "ended"
  BY <1>1, <1>2, <1>3 DEF Feed!Viewer
<1>5. /\ UNCHANGED <<status, log, written, trimmed, heard, unwritten>>
      /\ worker' = worker /\ posts' = posts
  BY DEF Feed!Open, Feed!Close, Feed!row, Feed!outside
<1>6. QED
  BY <1>1, <1>4, <1>5, StreamsMoveKeeps

LEMMA FeedCrashKeeps ==
  ASSUME FeedInv, Feed!Crash
  PROVE  FeedInv'
<1>1. Feed!TypeOK /\ faults' \in 0..MaxFaults /\ viewer \in [Viewers -> Feed!Viewer]
  BY FaultCount DEF FeedInv, Feed!Crash, Feed!TypeOK
<1>2. /\ viewer' = [v \in Viewers |-> IF viewer[v].state = "open"
                                      THEN [viewer[v] EXCEPT !.state = "closed"] ELSE viewer[v]]
      /\ UNCHANGED <<status, log, written, trimmed, heard, unwritten>>
      /\ worker' = "dead" /\ posts' \subseteq posts
  BY DEF Feed!Crash, Feed!row
<1>3. \A v \in Viewers : [viewer[v] EXCEPT !.state = "closed"] \in Feed!Viewer
  BY <1>1 DEF Feed!Viewer
<1>4. /\ viewer' \in [Viewers -> Feed!Viewer]
      /\ \A w \in Viewers : /\ viewer'[w].sent = viewer[w].sent
                            /\ viewer'[w].shown = viewer[w].shown
                            /\ viewer'[w].state = "ended" => viewer[w].state = "ended"
  BY <1>1, <1>2, <1>3 DEF Feed!Viewer
<1>5. QED
  BY <1>1, <1>2, <1>4, StreamsMoveKeeps

\* The next boot ends a row that has no verdict: nobody has heard one, or it was not written.
LEMMA FeedBootKeeps ==
  ASSUME FeedInv, Feed!Boot
  PROVE  FeedInv'
<1>1. /\ Feed!TypeOK /\ Ordered /\ Told /\ Following /\ worker = "dead" /\ worker' = "gone"
      /\ UNCHANGED <<log, written, trimmed, viewer, posts, heard>>
      /\ \/ status' = status
         \/ status \notin Feed!Verdicts /\ status' = "failed"
      /\ unwritten' = unwritten \/ unwritten' = TRUE
  BY DEF FeedInv, Feed!Boot, Feed!outside
<1>2. faults' \in 0..MaxFaults
  BY <1>1, FaultCount DEF Feed!Boot
<1>3. Feed!TypeOK' /\ Ordered'
  BY <1>1, <1>2 DEF Feed!TypeOK, Ordered, Feed!Verdicts, Feed!Stages
<1>4. Told'
  BY <1>1 DEF Told, SinksHearTheVerdict, Feed!SinksHearTheVerdict
<1>5. Following'
  BY <1>1 DEF Following, Feed!Verdicts
<1>6. QED
  BY <1>3, <1>4, <1>5 DEF FeedInv

\* A goroutine goes on to the next sink, or ends, with the event it has.
LEMMA OnwardPosts ==
  ASSUME posts \subseteq Feed!Post, NEW p \in posts,
         Feed!Onward(p) \/ posts' = posts \ {p}
  PROVE  /\ posts' \subseteq Feed!Post
         /\ \A q \in posts' : q \in posts \/ q.event = p.event
<1>1. CASE posts' = posts \ {p}
  BY <1>1
<1>2. CASE Feed!Onward(p)
  <2>1. CASE p.sink = Sinks
    BY <1>2, <2>1 DEF Feed!Onward
  <2>2. CASE p.sink # Sinks
    <3> DEFINE q == [p EXCEPT !.sink = p.sink + 1]
    <3>1. posts' = (posts \ {p}) \cup {q}
      BY <1>2, <2>2 DEF Feed!Onward
    <3>2. p \in Feed!Post /\ p.sink \in 1..Sinks /\ p.sink + 1 \in 1..Sinks
      <4>1. p \in Feed!Post /\ p.sink \in 1..Sinks
        BY DEF Feed!Post
      <4>2. QED
        BY <2>2, <4>1, FeedConstants
    <3>3. q \in Feed!Post /\ q.event = p.event
      BY <3>2 DEF Feed!Post
    <3> HIDE DEF q
    <3>4. QED
      BY <3>1, <3>3
  <2>3. QED
    BY <2>1, <2>2
<1>3. QED
  BY <1>1, <1>2

\* A sink hears an event, or nothing.
LEMMA DeliveryKeeps ==
  ASSUME FeedInv, NEW p \in posts, Feed!Deliver(p) \/ Feed!Undelivered(p)
  PROVE  FeedInv'
<1>1. /\ Feed!TypeOK /\ Ordered /\ Told /\ Following
      /\ UNCHANGED <<worker, status, log, written, trimmed, viewer, unwritten>>
      /\ posts \subseteq Feed!Post /\ p \in Feed!Post
  BY DEF FeedInv, Feed!TypeOK, Feed!Deliver, Feed!Undelivered, Feed!row
<1>2. posts' \subseteq Feed!Post /\ \A q \in posts' : q \in posts \/ q.event = p.event
  BY <1>1, OnwardPosts DEF Feed!Deliver, Feed!Undelivered
<1>3. faults' \in 0..MaxFaults
  BY <1>1, FaultCount DEF Feed!Deliver, Feed!Undelivered
<1>4. /\ heard' \in [1..Sinks -> Seq({"pending"} \cup Feed!Verdicts)]
      /\ \A s \in 1..Sinks : \A i \in DOMAIN heard'[s] :
           (i \in DOMAIN heard[s] /\ heard'[s][i] = heard[s][i]) \/ heard'[s][i] = p.event
  <2>1. heard \in [1..Sinks -> Seq({"pending"} \cup Feed!Verdicts)]
    BY <1>1 DEF Feed!TypeOK
  <2>2. CASE UNCHANGED heard
    BY <2>1, <2>2
  <2>3. CASE heard' = [heard EXCEPT ![p.sink] = Append(heard[p.sink], p.event)]
    <3>1. p.sink \in 1..Sinks /\ p.event \in {"pending"} \cup Feed!Verdicts
      BY <1>1 DEF Feed!Post
    <3> DEFINE old  == heard[p.sink]
               more == Append(old, p.event)
    <3>2. old \in Seq({"pending"} \cup Feed!Verdicts)
      BY <2>1, <3>1
    <3>3. /\ more \in Seq({"pending"} \cup Feed!Verdicts)
          /\ Len(more) = Len(old) + 1 /\ Len(old) \in Nat
          /\ \A i \in 1..Len(old) : more[i] = old[i]
          /\ more[Len(old) + 1] = p.event
          /\ DOMAIN more = 1..Len(more) /\ DOMAIN old = 1..Len(old)
      <4>1. /\ more \in Seq({"pending"} \cup Feed!Verdicts)
            /\ Len(more) = Len(old) + 1
            /\ \A i \in 1..Len(old) : more[i] = old[i]
            /\ more[Len(old) + 1] = p.event
        BY <3>1, <3>2, AppendProperties
      <4> HIDE DEF more, old
      <4>2. QED
        BY <3>2, <4>1, LenProperties
    <3> HIDE DEF more
    <3>4. \A i \in DOMAIN more : (i \in DOMAIN old /\ more[i] = old[i]) \/ more[i] = p.event
      BY <3>3
    <3>5. heard'[p.sink] = more /\ \A s \in 1..Sinks \ {p.sink} : heard'[s] = heard[s]
      BY <2>1, <2>3, <3>1 DEF more
    <3>6. heard' \in [1..Sinks -> Seq({"pending"} \cup Feed!Verdicts)]
      BY <2>1, <2>3, <3>1, <3>3 DEF more
    <3>7. QED
      BY <3>4, <3>5, <3>6
  <2>4. QED
    BY <2>2, <2>3 DEF Feed!Deliver, Feed!Undelivered
<1>5. Feed!TypeOK'
  BY <1>1, <1>2, <1>3, <1>4 DEF Feed!TypeOK
<1>6. Ordered'
  BY <1>1 DEF Ordered
<1>7. Told'
  <2>1. worker \notin {"done", "gone", "dead"} =>
          /\ status \notin Feed!Verdicts
          /\ \A q \in posts' : q.event = "pending"
          /\ \A s \in 1..Sinks : \A i \in DOMAIN heard'[s] : heard'[s][i] = "pending"
    BY <1>1, <1>2, <1>4 DEF Told
  <2>2. \A q \in posts' : q.event \in Feed!Verdicts => q.event = status \/ unwritten
    BY <1>1, <1>2 DEF Told
  <2>3. \A s \in 1..Sinks : \A i \in DOMAIN heard'[s] :
          heard'[s][i] \in Feed!Verdicts => heard'[s][i] = status \/ unwritten
    BY <1>1, <1>4 DEF Told, SinksHearTheVerdict, Feed!SinksHearTheVerdict
  <2>4. QED
    BY <1>1, <2>1, <2>2, <2>3 DEF Told, SinksHearTheVerdict, Feed!SinksHearTheVerdict
<1>8. Following'
  BY <1>1 DEF Following
<1>9. QED
  BY <1>5, <1>6, <1>7, <1>8 DEF FeedInv

LEMMA FeedInvariant == Feed!Spec => []FeedInv
<1>1. FeedInv /\ (Feed!Next \/ UNCHANGED Feed!feedVars) => FeedInv'
  <2> SUFFICES ASSUME FeedInv, Feed!Next \/ UNCHANGED Feed!feedVars PROVE FeedInv'
    OBVIOUS
  <2>1. CASE Feed!WorkerStep
    BY <2>1, SetRunningKeeps, LineKeeps, FinishKeeps DEF Feed!WorkerStep
  <2>2. ASSUME NEW v \in Viewers, Feed!Open(v) \/ Feed!Poll(v) \/ Feed!Close(v) PROVE FeedInv'
    BY <2>2, OpenCloseKeeps, PollStreamKeeps
  <2>3. ASSUME NEW p \in posts, Feed!Deliver(p) \/ Feed!Undelivered(p) PROVE FeedInv'
    BY <2>3, DeliveryKeeps
  <2>4. CASE UNCHANGED Feed!feedVars
    BY <2>4 DEF Feed!feedVars, Feed!row, Feed!outside, FeedInv, Feed!TypeOK, Ordered, Told,
       SinksHearTheVerdict, Feed!SinksHearTheVerdict, Following, Followed
  <2>5. QED
    BY <2>1, <2>2, <2>3, <2>4, FeedCrashKeeps, FeedBootKeeps DEF Feed!Next
<1>2. QED
  BY FeedInit, <1>1, PTL DEF Feed!Spec

\* A stream shows the lines in order and at most once, and when it ends with the verdict the
\* browser has the whole stored log, unless it was trimmed (handleDeployStream,
\* deploy_stream.go; AppendDeploymentLog, store.go).
THEOREM StreamsShowTheLog == Spec => []StreamIsFaithful
<1>1. FeedInv => StreamIsFaithful
  <2> SUFFICES ASSUME FeedInv, NEW v \in Viewers
               PROVE  LET shown == viewer[v].shown
                      IN  /\ \A i, j \in 1..Len(shown) : i < j => shown[i] < shown[j]
                          /\ viewer[v].state = "ended" /\ ~trimmed => shown = log
    BY DEF StreamIsFaithful, Feed!StreamIsFaithful
  <2>1. /\ \A i, j \in 1..Len(viewer[v].shown) : i < j => viewer[v].shown[i] < viewer[v].shown[j]
        /\ ~trimmed => /\ Len(viewer[v].shown) = viewer[v].sent
                       /\ \A j \in 1..viewer[v].sent : viewer[v].shown[j] = log[j]
        /\ viewer[v].state = "ended" => viewer[v].sent = Len(log)
    BY DEF FeedInv, Following, Followed
  <2>2. viewer[v].shown \in Seq(Nat) /\ log \in Seq(Nat)
    <3>1. log \in Seq(Lines) /\ viewer[v].shown \in Seq(Nat)
      BY DEF FeedInv, Feed!TypeOK, Feed!Viewer, Lines
    <3>2. QED
      BY <3>1, FeedConstants, SeqMonotonic DEF Lines
  <2>3. ASSUME viewer[v].state = "ended", ~trimmed PROVE viewer[v].shown = log
    <3>1. /\ Len(viewer[v].shown) = Len(log)
          /\ \A j \in 1..Len(viewer[v].shown) : viewer[v].shown[j] = log[j]
      BY <2>1, <2>3
    <3>2. QED
      BY <2>2, <3>1, SeqEqual
  <2>4. QED
    BY <2>1, <2>3
<1>2. QED
  BY <1>1, FeedInvariant, PartsKeepTheirSpecs, PTL

\* What a sink hears of the outcome is what the history says, unless it could not be written
\* (Deployer.run and notify, deployer.go; FailInterruptedDeployments, store.go).
THEOREM SinksHearTheHistory == Spec => []SinksHearTheVerdict
<1>1. FeedInv => SinksHearTheVerdict
  BY DEF FeedInv, Told
<1>2. QED
  BY <1>1, FeedInvariant, PartsKeepTheirSpecs, PTL

-----------------------------------------------------------------------------
(* Provisioning (Installation).  A run ends well after its last step; the  *)
(* invariant is about the steps behind it and the things it has left of    *)
(* the one it is at.  Nothing is promised once an administrator took       *)
(* something away; a runner may take the service, until it puts it back.   *)

\* A run has left no more than its step leaves.
Within(r) == run[r].at # 0 => run[r].left <= Len(Setup!Leaves(Setup!Step(r)))

\* A thing is there, is one no check looks at, or is the service, taken away by a runner.
Accounted(x) == x \in host \/ x = "recovery" \/ (x = "service" /\ uninstalled # {})

\* The check of a step would find nothing missing but the service.
Met(s) == \A x \in Setup!Probed(s) : Accounted(x)

\* Of the step a run applies, what the run has left of it is accounted for.
LeftSoFar(r) ==
  run[r].at # 0 => \A i \in 1..run[r].left : Accounted(Setup!Leaves(Setup!Step(r))[i])

\* The steps behind a run that applies are met.
Behind(r) ==
  run[r].at # 0 /\ ~run[r].dry => \A i \in 1..run[r].at - 1 : Met(Setup!Steps[i])

Completed(r) == outcome[r] = "satisfied" => \A s \in Enabled : Met(s)

\* A step takes nothing that was accounted for, unless an administrator does.
NothingLost == ~damaged' => ~damaged /\ \A x : Accounted(x) => Accounted(x)'

OnTrack(r) == Within(r) /\ (~damaged => LeftSoFar(r) /\ Behind(r) /\ Completed(r))

SetupInv == Setup!TypeOK /\ \A r \in Runners : OnTrack(r)

LEMMA SetupConstants ==
  /\ MaxMishaps \in Nat /\ MaxRuns \in Nat /\ Enabled # {}
  /\ Enabled \subseteq {"dirs", "nssm", "winrm", "self-service", "local-target", "caddy",
                        "firewall", "tunnel"}
<1>1. Setup!InstallationBounds
  BY Bounds
<1>2. QED
  BY <1>1 DEF Setup!InstallationBounds

\* Each enabled step has a place in the list, and nothing else has.
Lists(steps, names) ==
  /\ steps \in Seq(Enabled)
  /\ \A s \in names \cap Enabled : \E i \in 1..Len(steps) : steps[i] = s

LEMMA OneMore ==
  ASSUME NEW steps, NEW names, NEW s, Lists(steps, names)
  PROVE  Lists(steps \o Setup!Asked(s), names \cup {s})
<1>1. CASE s \in Enabled
  <2>1. Setup!Asked(s) = <<s>> /\ <<s>> \in Seq(Enabled) /\ Len(<<s>>) = 1 /\ <<s>>[1] = s
    BY <1>1 DEF Setup!Asked
  <2>2. steps \in Seq(Enabled) /\ Len(steps) \in Nat
    BY LenProperties DEF Lists
  <2> DEFINE more == steps \o <<s>>
  <2>3. /\ more \in Seq(Enabled) /\ Len(more) = Len(steps) + 1
        /\ \A i \in 1..Len(steps) + 1 : more[i] = IF i <= Len(steps) THEN steps[i] ELSE <<s>>[i - Len(steps)]
    BY <2>1, <2>2, ConcatProperties
  <2> HIDE DEF more
  <2>4. Len(steps) + 1 \in 1..Len(more) /\ more[Len(steps) + 1] = s
    BY <2>1, <2>2, <2>3
  <2>5. \A i \in 1..Len(steps) : i \in 1..Len(more) /\ more[i] = steps[i]
    BY <2>2, <2>3
  <2>6. Lists(more, names \cup {s})
    BY <2>3, <2>4, <2>5 DEF Lists
  <2>7. QED
    BY <2>1, <2>6 DEF more
<1>2. CASE s \notin Enabled
  <2>1. Setup!Asked(s) = << >> /\ steps \in Seq(Enabled)
    BY <1>2 DEF Setup!Asked, Lists
  <2>2. steps \o << >> = steps
    BY <2>1, ConcatEmptySeq
  <2>3. QED
    BY <1>2, <2>1, <2>2 DEF Lists
<1>3. QED
  BY <1>1, <1>2

LEMMA StepsList ==
  /\ Setup!Steps \in Seq(Enabled) /\ Len(Setup!Steps) \in Nat /\ Len(Setup!Steps) >= 1
  /\ \A i \in 1..Len(Setup!Steps) : Setup!Steps[i] \in Enabled
  /\ \A s \in Enabled : \E i \in 1..Len(Setup!Steps) : Setup!Steps[i] = s
<1>1. Lists(<< >>, {})
  BY EmptySeq DEF Lists
<1>2. << >> \o Setup!Asked("dirs") = Setup!Asked("dirs")
  BY DEF Setup!Asked
<1>3. Lists(Setup!Asked("dirs"), {} \cup {"dirs"})
  BY <1>1, <1>2, OneMore
<1>4. Lists(Setup!Steps, {} \cup {"dirs"} \cup {"nssm"} \cup {"winrm"} \cup {"self-service"}
                           \cup {"local-target"} \cup {"caddy"} \cup {"firewall"} \cup {"tunnel"})
  <2>1. Lists(Setup!Asked("dirs") \o Setup!Asked("nssm"), {} \cup {"dirs"} \cup {"nssm"})
    BY <1>3, OneMore
  <2>2. Lists(Setup!Asked("dirs") \o Setup!Asked("nssm") \o Setup!Asked("winrm"),
              {} \cup {"dirs"} \cup {"nssm"} \cup {"winrm"})
    BY <2>1, OneMore
  <2>3. Lists(Setup!Asked("dirs") \o Setup!Asked("nssm") \o Setup!Asked("winrm")
                \o Setup!Asked("self-service"),
              {} \cup {"dirs"} \cup {"nssm"} \cup {"winrm"} \cup {"self-service"})
    BY <2>2, OneMore
  <2>4. Lists(Setup!Asked("dirs") \o Setup!Asked("nssm") \o Setup!Asked("winrm")
                \o Setup!Asked("self-service") \o Setup!Asked("local-target"),
              {} \cup {"dirs"} \cup {"nssm"} \cup {"winrm"} \cup {"self-service"}
                \cup {"local-target"})
    BY <2>3, OneMore
  <2>5. Lists(Setup!Asked("dirs") \o Setup!Asked("nssm") \o Setup!Asked("winrm")
                \o Setup!Asked("self-service") \o Setup!Asked("local-target") \o Setup!Asked("caddy"),
              {} \cup {"dirs"} \cup {"nssm"} \cup {"winrm"} \cup {"self-service"}
                \cup {"local-target"} \cup {"caddy"})
    BY <2>4, OneMore
  <2>6. Lists(Setup!Asked("dirs") \o Setup!Asked("nssm") \o Setup!Asked("winrm")
                \o Setup!Asked("self-service") \o Setup!Asked("local-target") \o Setup!Asked("caddy")
                \o Setup!Asked("firewall"),
              {} \cup {"dirs"} \cup {"nssm"} \cup {"winrm"} \cup {"self-service"}
                \cup {"local-target"} \cup {"caddy"} \cup {"firewall"})
    BY <2>5, OneMore
  <2>7. QED
    BY <2>6, OneMore DEF Setup!Steps
<1>5. Setup!Steps \in Seq(Enabled) /\ \A s \in Enabled : \E i \in 1..Len(Setup!Steps) : Setup!Steps[i] = s
  BY <1>4, SetupConstants DEF Lists
<1>6. Len(Setup!Steps) \in Nat /\ \A i \in 1..Len(Setup!Steps) : Setup!Steps[i] \in Enabled
  BY <1>5, LenProperties, ElementOfSeq
<1>7. Len(Setup!Steps) >= 1
  <2>1. PICK s \in Enabled : TRUE
    BY SetupConstants
  <2>2. PICK i \in 1..Len(Setup!Steps) : Setup!Steps[i] = s
    BY <1>5
  <2>3. QED
    BY <1>6
<1>8. QED
  BY <1>5, <1>6, <1>7

\* A check looks at nothing Apply does not leave.
LEMMA ProbedIsLeft ==
  ASSUME NEW s \in Enabled
  PROVE  /\ Len(Setup!Leaves(s)) \in 1..4
         /\ \A i \in 1..Len(Setup!Leaves(s)) : Setup!Leaves(s)[i] \in Setup!Needs(s)
         /\ \A x \in Setup!Probed(s) : \E i \in 1..Len(Setup!Leaves(s)) : Setup!Leaves(s)[i] = x
<1>1. CASE s = "self-service"
  <2> DEFINE l == <<"service", "recovery">>
  <2>1. Setup!Leaves(s) = l /\ Setup!Probed(s) = {"service"} /\ Setup!Needs(s) = {l[i] : i \in DOMAIN l}
    BY <1>1 DEF Setup!Leaves, Setup!Probed, Setup!Needs, Setup!ToSet
  <2>2. Len(l) = 2 /\ DOMAIN l = 1..2 /\ l[1] = "service"
    OBVIOUS
  <2> HIDE DEF l
  <2>3. QED
    BY <2>1, <2>2
<1>2. CASE s = "caddy"
  <2> DEFINE l == <<"caddy.exe", "Caddyfile", "caddy service", "caddy settings">>
  <2>1. /\ Setup!Leaves(s) = l /\ Setup!Probed(s) = {"caddy.exe", "caddy service"}
        /\ Setup!Needs(s) = {l[i] : i \in DOMAIN l}
    BY <1>2 DEF Setup!Leaves, Setup!Probed, Setup!Needs, Setup!ToSet
  <2>2. Len(l) = 4 /\ DOMAIN l = 1..4
    OBVIOUS
  <2>3. 1 \in 1..4 /\ l[1] = "caddy.exe"
    OBVIOUS
  <2>4. 3 \in 1..4 /\ l[3] = "caddy service"
    OBVIOUS
  <2> HIDE DEF l
  <2>5. \A x \in Setup!Probed(s) : \E i \in 1..4 : l[i] = x
    BY <2>1, <2>3, <2>4
  <2>6. Len(Setup!Leaves(s)) \in 1..4
    <3>1. Len(Setup!Leaves(s)) = 4
      BY <2>1, <2>2, Zenon
    <3>2. QED
      BY <3>1
  <2>7. \A i \in 1..4 : l[i] \in Setup!Needs(s)
    BY <2>1, <2>2
  <2>8. 1..Len(Setup!Leaves(s)) = 1..4
    BY <2>1, <2>2
  <2>9. QED
    BY <2>1, <2>5, <2>6, <2>7, <2>8
<1>3. CASE s = "tunnel"
  <2> DEFINE l == <<"cloudflared.exe", "token", "tunnel service", "tunnel settings">>
  <2>1. /\ Setup!Leaves(s) = l /\ Setup!Probed(s) = {"cloudflared.exe", "token", "tunnel service"}
        /\ Setup!Needs(s) = {l[i] : i \in DOMAIN l}
    BY <1>3 DEF Setup!Leaves, Setup!Probed, Setup!Needs, Setup!ToSet
  <2>2. Len(l) = 4 /\ DOMAIN l = 1..4
    OBVIOUS
  <2>3. 1 \in 1..4 /\ l[1] = "cloudflared.exe"
    OBVIOUS
  <2>4. 2 \in 1..4 /\ l[2] = "token"
    OBVIOUS
  <2>5. 3 \in 1..4 /\ l[3] = "tunnel service"
    OBVIOUS
  <2> HIDE DEF l
  <2>6. \A x \in Setup!Probed(s) : \E i \in 1..4 : l[i] = x
    BY <2>1, <2>3, <2>4, <2>5
  <2>7. Len(Setup!Leaves(s)) \in 1..4
    <3>1. Len(Setup!Leaves(s)) = 4
      BY <2>1, <2>2, Zenon
    <3>2. QED
      BY <3>1
  <2>8. \A i \in 1..4 : l[i] \in Setup!Needs(s)
    BY <2>1, <2>2
  <2>9. 1..Len(Setup!Leaves(s)) = 1..4
    BY <2>1, <2>2
  <2>10. QED
    BY <2>1, <2>6, <2>7, <2>8, <2>9
<1>4. CASE s \notin {"self-service", "caddy", "tunnel"}
  <2> DEFINE l == <<s>>
  <2>1. Setup!Leaves(s) = l /\ Setup!Probed(s) = {s} /\ Setup!Needs(s) = {l[i] : i \in DOMAIN l}
    BY <1>4 DEF Setup!Leaves, Setup!Probed, Setup!Needs, Setup!ToSet
  <2>2. Len(l) = 1 /\ DOMAIN l = 1..1 /\ l[1] = s
    OBVIOUS
  <2> HIDE DEF l
  <2>3. QED
    BY <2>1, <2>2
<1>5. QED
  BY <1>1, <1>2, <1>3, <1>4

LEMMA SetupInit == Setup!Init => SetupInv
<1> SUFFICES ASSUME Setup!Init PROVE SetupInv
  OBVIOUS
<1>1. \A r \in Runners : run[r] = Setup!NoRun /\ run[r].at = 0 /\ outcome[r] = "none"
  BY DEF Setup!Init, Setup!NoRun
<1>2. Setup!TypeOK
  <2>1. host \subseteq Setup!Things /\ damaged \in BOOLEAN /\ uninstalled \subseteq Runners
    BY DEF Setup!Init
  <2>2. recorded \in [Enabled -> {"", "done", "error"}]
    BY DEF Setup!Init
  <2>3. Setup!NoRun \in [at : 0..Len(Setup!Steps), left : -1..4, dry : BOOLEAN]
    BY StepsList DEF Setup!NoRun
  <2>4. run \in [Runners -> [at : 0..Len(Setup!Steps), left : -1..4, dry : BOOLEAN]]
    BY <2>3 DEF Setup!Init
  <2>5. outcome \in [Runners -> {"none", "satisfied", "previewed", "failed"}]
    BY DEF Setup!Init
  <2>6. mishaps \in 0..MaxMishaps /\ runs \in 0..MaxRuns
    <3>1. mishaps = 0 /\ runs = 0
      BY DEF Setup!Init
    <3>2. QED
      BY <3>1, SetupConstants
  <2>7. QED
    BY <2>1, <2>2, <2>4, <2>5, <2>6 DEF Setup!TypeOK
<1>3. QED
  BY <1>1, <1>2 DEF SetupInv, OnTrack, Within, LeftSoFar, Behind, Completed

\* What a run is at, in the words of the list.
LEMMA RunTypes ==
  ASSUME Setup!TypeOK, NEW r \in Runners
  PROVE  /\ run[r] \in [at : 0..Len(Setup!Steps), left : -1..4, dry : BOOLEAN]
         /\ run[r].at \in 0..Len(Setup!Steps) /\ run[r].at \in Int
         /\ run[r].left \in -1..4 /\ run[r].left \in Int /\ run[r].dry \in BOOLEAN
         /\ run[r].at # 0 => Setup!Step(r) \in Enabled
<1>1. /\ run[r] \in [at : 0..Len(Setup!Steps), left : -1..4, dry : BOOLEAN]
      /\ run[r].at \in 0..Len(Setup!Steps) /\ run[r].left \in -1..4 /\ run[r].dry \in BOOLEAN
  BY DEF Setup!TypeOK
<1>2. run[r].at # 0 => run[r].at \in 1..Len(Setup!Steps)
  BY <1>1, StepsList
<1>3. run[r].at # 0 => Setup!Step(r) \in Enabled
  BY <1>2, StepsList DEF Setup!Step
<1>4. run[r].at \in Int /\ run[r].left \in Int
  BY <1>1, StepsList
<1>5. QED
  BY <1>1, <1>3, <1>4

\* A runner that does nothing, or whose run ends otherwise than well, stays on track as long as
\* nothing is taken away.
LEMMA OthersOnTrack ==
  ASSUME SetupInv, NEW r \in Runners, run'[r] = run[r] \/ run'[r].at = 0,
         outcome'[r] = outcome[r] \/ outcome'[r] # "satisfied",
         NothingLost
  PROVE  OnTrack(r)'
<1>1. OnTrack(r)
  BY DEF SetupInv
<1>2. Within(r)'
  BY <1>1 DEF OnTrack, Within, Setup!Step
<1>3. ~damaged' => LeftSoFar(r)'
  BY <1>1 DEF OnTrack, LeftSoFar, Setup!Step, NothingLost
<1>4. ~damaged' => Behind(r)'
  BY <1>1 DEF OnTrack, Behind, Met, NothingLost
<1>5. ~damaged' => Completed(r)'
  BY <1>1 DEF OnTrack, Completed, Met, NothingLost
<1>6. QED
  BY <1>2, <1>3, <1>4, <1>5 DEF OnTrack

\* A step that leaves the host alone loses nothing; nor does one that makes a promise void.
LEMMA SameHost ==
  ASSUME damaged' \/ UNCHANGED <<host, damaged, uninstalled>>
  PROVE  NothingLost
BY DEF NothingLost, Accounted

LEMMA StartKeeps ==
  ASSUME SetupInv, NEW r \in Runners, Setup!Start(r)
  PROVE  SetupInv'
<1>1. PICK dry \in BOOLEAN : run' = [run EXCEPT ![r] = [at |-> 1, left |-> -1, dry |-> dry]]
  BY DEF Setup!Start
<1> DEFINE new == [at |-> 1, left |-> -1, dry |-> dry]
<1>2. new \in [at : 0..Len(Setup!Steps), left : -1..4, dry : BOOLEAN] /\ new.at = 1 /\ new.left = -1
  BY StepsList
<1>3. run' = [run EXCEPT ![r] = new]
  BY <1>1
<1> HIDE DEF new
<1>4. run \in [Runners -> [at : 0..Len(Setup!Steps), left : -1..4, dry : BOOLEAN]]
  BY DEF SetupInv, Setup!TypeOK
<1>5. run' \in [Runners -> [at : 0..Len(Setup!Steps), left : -1..4, dry : BOOLEAN]]
  BY <1>2, <1>3, <1>4
<1>6. run'[r] = new /\ \A q \in Runners \ {r} : run'[q] = run[q]
  BY <1>3, <1>4
<1>7. /\ outcome' \in [Runners -> {"none", "satisfied", "previewed", "failed"}]
      /\ damaged' \in BOOLEAN /\ uninstalled' \subseteq Runners
  BY DEF SetupInv, Setup!TypeOK, Setup!Start
<1>8. runs' \in 0..MaxRuns
  <2>1. runs \in 0..MaxRuns /\ runs < MaxRuns /\ runs' = runs + 1
    BY DEF SetupInv, Setup!TypeOK, Setup!Start
  <2>2. QED
    BY <2>1, SetupConstants
<1>9. Setup!TypeOK'
  BY <1>5, <1>7, <1>8 DEF SetupInv, Setup!TypeOK, Setup!Start, Setup!Things
<1>10. outcome'[r] = "none"
  BY DEF SetupInv, Setup!TypeOK, Setup!Start
<1>11. OnTrack(r)'
  <2>1. run'[r].at = 1 /\ run'[r].left = -1
    BY <1>2, <1>6
  <2>2. Setup!Step(r)' \in Enabled
    BY <2>1, StepsList DEF Setup!Step
  <2>3. Within(r)'
    <3>1. Len(Setup!Leaves(Setup!Step(r)')) \in 1..4
      BY <2>2, ProbedIsLeft
    <3>2. QED
      BY <2>1, <3>1 DEF Within
  <2>4. LeftSoFar(r)' /\ Behind(r)' /\ Completed(r)'
    BY <2>1, <1>10 DEF LeftSoFar, Behind, Completed
  <2>5. QED
    BY <2>3, <2>4 DEF OnTrack
<1>12. ASSUME NEW q \in Runners, q # r PROVE OnTrack(q)'
  <2>1. run'[q] = run[q]
    BY <1>6, <1>12
  <2>2. CASE \A p \in Runners : run[p].at = 0
    <3>1. run'[q].at = 0 /\ outcome'[q] = "none"
      BY <2>1, <2>2 DEF Setup!Start
    <3>2. QED
      BY <3>1 DEF OnTrack, Within, LeftSoFar, Behind, Completed
  <2>3. CASE ~(\A p \in Runners : run[p].at = 0)
    <3>1. /\ outcome' = [outcome EXCEPT ![r] = "none"]
          /\ damaged' = damaged /\ host' = host /\ uninstalled' = uninstalled
      BY <2>3 DEF Setup!Start
    <3>2. outcome'[q] = outcome[q]
      BY <3>1, <1>12 DEF SetupInv, Setup!TypeOK
    <3>3. QED
      BY <2>1, <3>1, <3>2, SameHost, OthersOnTrack
  <2>4. QED
    BY <2>2, <2>3
<1>13. QED
  BY <1>9, <1>11, <1>12 DEF SetupInv

\* The types of a step that moves one runner and nothing else that is counted.
LEMMA RunnerTypes ==
  ASSUME SetupInv, NEW r \in Runners,
         NEW new \in [at : 0..Len(Setup!Steps), left : -1..4, dry : BOOLEAN],
         run' = [run EXCEPT ![r] = new],
         host' \subseteq Setup!Things,
         recorded' = recorded \/ \E s \in Enabled, state \in {"done", "error"} : Setup!Record(s, state),
         outcome' = outcome \/ (\E e \in {"satisfied", "previewed", "failed"} :
                                  outcome' = [outcome EXCEPT ![r] = e]),
         damaged' \in BOOLEAN, uninstalled' \subseteq Runners,
         mishaps' = mishaps \/ Setup!Mishap, runs' = runs
  PROVE  /\ Setup!TypeOK'
         /\ run'[r] = new
         /\ \A q \in Runners \ {r} : run'[q] = run[q] /\ outcome'[q] = outcome[q]
<1>1. Setup!TypeOK
  BY DEF SetupInv
<1>2. /\ run \in [Runners -> [at : 0..Len(Setup!Steps), left : -1..4, dry : BOOLEAN]]
      /\ outcome \in [Runners -> {"none", "satisfied", "previewed", "failed"}]
  BY <1>1 DEF Setup!TypeOK
<1>3. /\ run' \in [Runners -> [at : 0..Len(Setup!Steps), left : -1..4, dry : BOOLEAN]]
      /\ run'[r] = new /\ \A q \in Runners \ {r} : run'[q] = run[q]
  BY <1>2
<1>4. recorded' \in [Enabled -> {"", "done", "error"}]
  <2>1. recorded \in [Enabled -> {"", "done", "error"}]
    BY <1>1 DEF Setup!TypeOK
  <2>2. CASE recorded' = recorded
    BY <2>1, <2>2
  <2>3. ASSUME NEW s \in Enabled, NEW state \in {"done", "error"}, Setup!Record(s, state)
        PROVE  recorded' \in [Enabled -> {"", "done", "error"}]
    BY <2>1, <2>3 DEF Setup!Record
  <2>4. QED
    BY <2>2, <2>3
<1>5. /\ outcome' \in [Runners -> {"none", "satisfied", "previewed", "failed"}]
      /\ \A q \in Runners \ {r} : outcome'[q] = outcome[q]
  BY <1>2
<1>6. mishaps' \in 0..MaxMishaps
  <2>1. mishaps \in 0..MaxMishaps
    BY <1>1 DEF Setup!TypeOK
  <2>2. QED
    BY <2>1, SetupConstants DEF Setup!Mishap
<1>7. runs' \in 0..MaxRuns
  BY <1>1 DEF Setup!TypeOK
<1>8. QED
  BY <1>3, <1>4, <1>5, <1>6, <1>7 DEF Setup!TypeOK, Setup!Things

\* A step of a runner that takes nothing away keeps the invariant if it keeps that runner on track.
LEMMA OneRunner ==
  ASSUME SetupInv, NEW r \in Runners, Setup!TypeOK', OnTrack(r)',
         \A q \in Runners \ {r} : run'[q] = run[q] /\ outcome'[q] = outcome[q],
         NothingLost
  PROVE  SetupInv'
<1>1. ASSUME NEW q \in Runners, q # r PROVE OnTrack(q)'
  <2>1. run'[q] = run[q] /\ outcome'[q] = outcome[q]
    BY <1>1
  <2>2. QED
    BY <2>1, OthersOnTrack
<1>2. QED
  BY <1>1 DEF SetupInv

\* Going on to the next step: this one is satisfied, unless the run only looks or something
\* was taken away.
LEMMA OntoKeeps ==
  ASSUME SetupInv, NEW r \in Runners, run[r].at # 0, Setup!Onto(r),
         ~damaged /\ ~run[r].dry => Met(Setup!Step(r)),
         UNCHANGED <<host, damaged, uninstalled, mishaps, runs>>,
         recorded' = recorded \/ \E s \in Enabled, state \in {"done", "error"} : Setup!Record(s, state)
  PROVE  SetupInv'
<1>1. /\ Setup!TypeOK /\ OnTrack(r) /\ host' = host /\ damaged' = damaged
      /\ uninstalled' = uninstalled /\ mishaps' = mishaps /\ runs' = runs /\ NothingLost
  BY SameHost DEF SetupInv
<1>2. /\ run[r] \in [at : 0..Len(Setup!Steps), left : -1..4, dry : BOOLEAN]
      /\ run[r].at \in 0..Len(Setup!Steps) /\ run[r].dry \in BOOLEAN
      /\ host \subseteq Setup!Things /\ damaged \in BOOLEAN /\ uninstalled \subseteq Runners
      /\ run \in [Runners -> [at : 0..Len(Setup!Steps), left : -1..4, dry : BOOLEAN]]
      /\ outcome \in [Runners -> {"none", "satisfied", "previewed", "failed"}]
  BY <1>1, RunTypes DEF Setup!TypeOK
<1>3. ASSUME ~damaged, ~run[r].dry
      PROVE  \A i \in 1..run[r].at : Met(Setup!Steps[i])
  <2>1. \A i \in 1..run[r].at - 1 : Met(Setup!Steps[i])
    BY <1>1, <1>3 DEF OnTrack, Behind
  <2>2. Met(Setup!Steps[run[r].at])
    BY <1>3 DEF Setup!Step
  <2>3. QED
    BY <2>1, <2>2, <1>2, StepsList
<1>4. CASE run[r].at < Len(Setup!Steps)
  <2> DEFINE new == [run[r] EXCEPT !.at = run[r].at + 1, !.left = -1]
  <2>1. /\ new \in [at : 0..Len(Setup!Steps), left : -1..4, dry : BOOLEAN]
        /\ new.at = run[r].at + 1 /\ new.left = -1 /\ new.dry = run[r].dry
    <3>1. run[r].at + 1 \in 0..Len(Setup!Steps) /\ -1 \in -1..4
      BY <1>2, <1>4, StepsList
    <3>2. QED
      BY <1>2, <3>1
  <2>2. run' = [run EXCEPT ![r].at = @ + 1, ![r].left = -1] /\ outcome' = outcome
    BY <1>4 DEF Setup!Onto
  <2>3. run' = [run EXCEPT ![r] = new]
    BY <1>2, <2>2
  <2> HIDE DEF new
  <2>4. /\ Setup!TypeOK' /\ run'[r] = new
        /\ \A q \in Runners \ {r} : run'[q] = run[q] /\ outcome'[q] = outcome[q]
    <3>1. new \in [at : 0..Len(Setup!Steps), left : -1..4, dry : BOOLEAN]
      BY <2>1
    <3>2. host' \subseteq Setup!Things /\ damaged' \in BOOLEAN /\ uninstalled' \subseteq Runners
      BY <1>1, <1>2
    <3>3. QED
      BY <1>1, <2>2, <2>3, <3>1, <3>2, RunnerTypes
  <2>5. run'[r].at \in 1..Len(Setup!Steps) /\ run'[r].left = -1
    BY <1>2, <1>4, <2>1, <2>4, StepsList
  <2>6. Within(r)'
    <3>1. Setup!Steps[run'[r].at] \in Enabled
      BY <2>5, StepsList
    <3>2. Len(Setup!Leaves(Setup!Steps[run'[r].at])) \in 1..4
      BY <3>1, ProbedIsLeft
    <3>3. QED
      BY <2>5, <3>2 DEF Within, Setup!Step
  <2>7. LeftSoFar(r)'
    BY <2>5 DEF LeftSoFar
  <2>8. ASSUME ~damaged PROVE Behind(r)'
    <3>1. run'[r].at - 1 = run[r].at /\ run'[r].dry = run[r].dry
      BY <2>1, <2>4, <1>2, StepsList
    <3>2. QED
      BY <1>1, <1>3, <2>8, <3>1 DEF Behind, Met, NothingLost
  <2>9. ASSUME ~damaged PROVE Completed(r)'
    BY <1>1, <2>2, <2>9 DEF OnTrack, Completed, Met, NothingLost
  <2>10. OnTrack(r)'
    BY <1>1, <2>6, <2>7, <2>8, <2>9 DEF OnTrack
  <2>11. QED
    BY <1>1, <2>4, <2>10, OneRunner
<1>5. CASE ~(run[r].at < Len(Setup!Steps))
  <2> DEFINE e == IF run[r].dry THEN "previewed" ELSE "satisfied"
  <2>1. run' = [run EXCEPT ![r] = Setup!NoRun] /\ outcome' = [outcome EXCEPT ![r] = e]
    BY <1>5 DEF Setup!Onto
  <2>2. /\ e \in {"satisfied", "previewed", "failed"} /\ (e = "satisfied" => ~run[r].dry)
        /\ Setup!NoRun \in [at : 0..Len(Setup!Steps), left : -1..4, dry : BOOLEAN]
        /\ Setup!NoRun.at = 0
    BY <1>2, StepsList DEF Setup!NoRun
  <2> HIDE DEF e
  <2>3. /\ Setup!TypeOK' /\ run'[r] = Setup!NoRun
        /\ \A q \in Runners \ {r} : run'[q] = run[q] /\ outcome'[q] = outcome[q]
    BY <1>1, <1>2, <2>1, <2>2, RunnerTypes
  <2>4. Within(r)' /\ LeftSoFar(r)' /\ Behind(r)'
    BY <2>2, <2>3 DEF Within, LeftSoFar, Behind
  <2>5. ASSUME ~damaged PROVE Completed(r)'
    <3>1. outcome'[r] = e
      BY <1>2, <2>1
    <3>2. CASE e = "satisfied"
      <4>1. ASSUME NEW s \in Enabled PROVE Met(s)
        <5>1. PICK i \in 1..Len(Setup!Steps) : Setup!Steps[i] = s
          BY StepsList
        <5>2. i \in 1..run[r].at
          BY <1>2, <1>5, StepsList
        <5>3. QED
          BY <1>3, <2>2, <2>5, <3>2, <5>1, <5>2
      <4>2. QED
        BY <1>1, <2>5, <4>1 DEF Completed, Met, NothingLost
    <3>3. QED
      BY <3>1, <3>2 DEF Completed
  <2>6. OnTrack(r)'
    BY <1>1, <2>4, <2>5 DEF OnTrack
  <2>7. QED
    BY <1>1, <2>3, <2>6, OneRunner
<1>6. QED
  BY <1>4, <1>5

LEMMA CheckDoneKeeps ==
  ASSUME SetupInv, NEW r \in Runners, Setup!CheckDone(r)
  PROVE  SetupInv'
<1>1. /\ run[r].at # 0 /\ Setup!Satisfied(Setup!Step(r)) /\ Setup!Onto(r)
      /\ Setup!Record(Setup!Step(r), "done")
      /\ UNCHANGED <<host, damaged, uninstalled, mishaps, runs>>
  BY DEF Setup!CheckDone, Setup!Checks
<1>2. Setup!Step(r) \in Enabled
  BY <1>1, RunTypes DEF SetupInv
<1>3. \E s \in Enabled, state \in {"done", "error"} : Setup!Record(s, state)
  BY <1>1, <1>2
<1>4. Met(Setup!Step(r))
  BY <1>1 DEF Met, Accounted, Setup!Satisfied
<1>5. QED
  BY <1>1, <1>3, <1>4, OntoKeeps

\* A step all of whose things are left is met.
LEMMA AppliedKeeps ==
  ASSUME SetupInv, NEW r \in Runners, Setup!Applied(r)
  PROVE  SetupInv'
<1>1. /\ run[r].at # 0 /\ run[r].left = Len(Setup!Leaves(Setup!Step(r))) /\ Setup!Onto(r)
      /\ Setup!Record(Setup!Step(r), "done")
      /\ UNCHANGED <<host, damaged, uninstalled, mishaps, runs>>
  BY DEF Setup!Applied, Setup!Applying
<1>2. Setup!Step(r) \in Enabled
  BY <1>1, RunTypes DEF SetupInv
<1>3. \E s \in Enabled, state \in {"done", "error"} : Setup!Record(s, state)
  BY <1>1, <1>2
<1>4. ASSUME ~damaged PROVE Met(Setup!Step(r))
  <2>1. \A i \in 1..Len(Setup!Leaves(Setup!Step(r))) : Accounted(Setup!Leaves(Setup!Step(r))[i])
    BY <1>1, <1>4 DEF SetupInv, OnTrack, LeftSoFar
  <2>2. \A x \in Setup!Probed(Setup!Step(r)) :
          \E i \in 1..Len(Setup!Leaves(Setup!Step(r))) : Setup!Leaves(Setup!Step(r))[i] = x
    BY <1>2, ProbedIsLeft
  <2>3. QED
    BY <2>1, <2>2 DEF Met
<1>5. QED
  BY <1>1, <1>3, <1>4, OntoKeeps

LEMMA CheckPendingKeeps ==
  ASSUME SetupInv, NEW r \in Runners, Setup!CheckPending(r)
  PROVE  SetupInv'
<1>1. /\ run[r].at # 0 /\ UNCHANGED <<host, recorded, damaged, uninstalled, mishaps, runs>>
      /\ Setup!TypeOK /\ OnTrack(r) /\ NothingLost
  BY SameHost DEF Setup!CheckPending, Setup!Checks, SetupInv
<1>2. CASE run[r].dry
  <2>1. Setup!Onto(r)
    BY <1>2 DEF Setup!CheckPending
  <2>2. QED
    BY <1>1, <1>2, <2>1, OntoKeeps
<1>3. CASE ~run[r].dry
  <2>1. run' = [run EXCEPT ![r].left = 0] /\ outcome' = outcome
    BY <1>3 DEF Setup!CheckPending
  <2>2. /\ run[r] \in [at : 0..Len(Setup!Steps), left : -1..4, dry : BOOLEAN]
        /\ host \subseteq Setup!Things /\ damaged \in BOOLEAN /\ uninstalled \subseteq Runners
        /\ Setup!Step(r) \in Enabled
        /\ run \in [Runners -> [at : 0..Len(Setup!Steps), left : -1..4, dry : BOOLEAN]]
    BY <1>1, RunTypes DEF Setup!TypeOK
  <2> DEFINE new == [run[r] EXCEPT !.left = 0]
  <2>3. /\ new \in [at : 0..Len(Setup!Steps), left : -1..4, dry : BOOLEAN]
        /\ new.at = run[r].at /\ new.left = 0 /\ new.dry = run[r].dry
    <3>1. 0 \in -1..4
      OBVIOUS
    <3>2. QED
      BY <2>2, <3>1
  <2>4. run' = [run EXCEPT ![r] = new]
    BY <2>1, <2>2
  <2> HIDE DEF new
  <2>5. /\ Setup!TypeOK' /\ run'[r] = new
        /\ \A q \in Runners \ {r} : run'[q] = run[q] /\ outcome'[q] = outcome[q]
    <3>1. new \in [at : 0..Len(Setup!Steps), left : -1..4, dry : BOOLEAN]
      BY <2>3
    <3>2. host' \subseteq Setup!Things /\ damaged' \in BOOLEAN /\ uninstalled' \subseteq Runners
      BY <1>1, <2>2
    <3>3. QED
      BY <1>1, <2>1, <2>4, <3>1, <3>2, RunnerTypes
  <2>6. run'[r].at = run[r].at /\ run'[r].left = 0 /\ run'[r].dry = run[r].dry
    BY <2>3, <2>5
  <2>7. Within(r)'
    <3>1. Len(Setup!Leaves(Setup!Step(r))) \in 1..4
      BY <2>2, ProbedIsLeft
    <3>2. QED
      BY <2>6, <3>1 DEF Within, Setup!Step
  <2>8. LeftSoFar(r)'
    BY <2>6 DEF LeftSoFar
  <2>9. ASSUME ~damaged PROVE Behind(r)' /\ Completed(r)'
    BY <1>1, <2>1, <2>6, <2>9 DEF OnTrack, Behind, Completed, Met, NothingLost
  <2>10. OnTrack(r)'
    BY <1>1, <2>7, <2>8, <2>9 DEF OnTrack
  <2>11. QED
    BY <1>1, <2>5, <2>10, OneRunner
<1>4. QED
  BY <1>2, <1>3

\* Apply leaves one more thing.
LEMMA ApplyNextKeeps ==
  ASSUME SetupInv, NEW r \in Runners, Setup!ApplyNext(r)
  PROVE  SetupInv'
<1> DEFINE leaves == Setup!Leaves(Setup!Step(r))
<1> DEFINE n == run[r].left + 1
<1>1. /\ run[r].at # 0 /\ run[r].left >= 0 /\ run[r].left < Len(leaves)
      /\ run' = [run EXCEPT ![r].left = n]
      /\ host' = host \cup {leaves[n]}
      /\ uninstalled' = IF leaves[n] = "service" THEN uninstalled \ {r} ELSE uninstalled
      /\ UNCHANGED <<recorded, outcome, damaged, mishaps, runs>>
  BY DEF Setup!ApplyNext, Setup!Applying
<1>2. Setup!TypeOK /\ OnTrack(r)
  BY DEF SetupInv
<1>3. /\ run[r] \in [at : 0..Len(Setup!Steps), left : -1..4, dry : BOOLEAN]
      /\ run[r].left \in Int
      /\ host \subseteq Setup!Things /\ damaged \in BOOLEAN /\ uninstalled \subseteq Runners
      /\ Setup!Step(r) \in Enabled
      /\ run \in [Runners -> [at : 0..Len(Setup!Steps), left : -1..4, dry : BOOLEAN]]
  BY <1>1, <1>2, RunTypes DEF Setup!TypeOK
<1>4. Len(leaves) \in 1..4 /\ \A i \in 1..Len(leaves) : leaves[i] \in Setup!Needs(Setup!Step(r))
  BY <1>3, ProbedIsLeft
<1> HIDE DEF leaves
<1>5. n \in 1..Len(leaves) /\ n \in -1..4
  BY <1>1, <1>3, <1>4
<1>6. host' \subseteq Setup!Things /\ uninstalled' \subseteq Runners
  <2>1. leaves[n] \in Setup!Needs(Setup!Step(r))
    BY <1>4, <1>5
  <2>2. leaves[n] \in Setup!Things
    BY <1>3, <2>1 DEF Setup!Things
  <2>3. QED
    BY <1>1, <1>3, <2>2
<1>7. \A x : x = leaves[n] => Accounted(x)'
  BY <1>1 DEF Accounted
<1>8. \A x : Accounted(x) => Accounted(x)'
  <2>1. CASE leaves[n] = "service"
    BY <1>1, <2>1 DEF Accounted
  <2>2. CASE leaves[n] # "service"
    BY <1>1, <2>2 DEF Accounted
  <2>3. QED
    BY <2>1, <2>2
<1>9. NothingLost
  BY <1>1, <1>8 DEF NothingLost
<1> DEFINE new == [run[r] EXCEPT !.left = n]
<1> HIDE DEF n
<1>10. /\ new \in [at : 0..Len(Setup!Steps), left : -1..4, dry : BOOLEAN]
      /\ new.at = run[r].at /\ new.left = n /\ new.dry = run[r].dry
  BY <1>3, <1>5
<1>11. run' = [run EXCEPT ![r] = new]
  BY <1>1, <1>3
<1> HIDE DEF new
<1>12. /\ Setup!TypeOK' /\ run'[r] = new
      /\ \A q \in Runners \ {r} : run'[q] = run[q] /\ outcome'[q] = outcome[q]
  <2>1. new \in [at : 0..Len(Setup!Steps), left : -1..4, dry : BOOLEAN]
    BY <1>10
  <2>2. damaged' \in BOOLEAN
    BY <1>1, <1>3
  <2>3. QED
    BY <1>1, <1>6, <1>11, <2>1, <2>2, RunnerTypes
<1>13. run'[r].at = run[r].at /\ run'[r].left = n /\ run'[r].dry = run[r].dry
  BY <1>10, <1>12
<1>14. Setup!Leaves(Setup!Steps[run'[r].at]) = leaves
  BY <1>13 DEF leaves, Setup!Step
<1>15. Within(r)'
  BY <1>5, <1>13, <1>14 DEF Within, Setup!Step
<1>16. ASSUME ~damaged PROVE LeftSoFar(r)'
  <2>1. \A i \in 1..run[r].left : Accounted(leaves[i])
    BY <1>1, <1>2, <1>16 DEF OnTrack, LeftSoFar, leaves
  <2>2. ASSUME NEW i \in 1..n, NEW x, x = leaves[i] PROVE Accounted(x)'
    <3>1. i = n \/ i \in 1..run[r].left
      BY <1>3 DEF n
    <3>2. QED
      BY <1>7, <1>8, <2>1, <2>2, <3>1
  <2>3. QED
    BY <1>13, <1>14, <2>2 DEF LeftSoFar, Accounted, Setup!Step
<1>17. ASSUME ~damaged PROVE Behind(r)'
  <2>1. Behind(r)
    BY <1>1, <1>2, <1>17 DEF OnTrack
  <2>2. \A s : Met(s) => Met(s)'
    BY <1>8 DEF Met
  <2>3. QED
    BY <1>13, <2>1, <2>2 DEF Behind
<1>18. ASSUME ~damaged PROVE Completed(r)'
  <2>1. Completed(r)
    BY <1>1, <1>2, <1>18 DEF OnTrack
  <2>2. \A s : Met(s) => Met(s)'
    BY <1>8 DEF Met
  <2>3. QED
    BY <1>1, <2>1, <2>2 DEF Completed
<1>19. OnTrack(r)'
  BY <1>1, <1>15, <1>16, <1>17, <1>18 DEF OnTrack
<1>20. QED
  BY <1>12, <1>19, <1>9, OneRunner

\* A run that fails or whose process dies is over; it did not end well.
LEMMA StopKeeps ==
  ASSUME SetupInv, NEW r \in Runners, Setup!Fails(r) \/ Setup!Dies(r)
  PROVE  SetupInv'
<1>1. /\ run[r].at # 0 /\ Setup!Mishap /\ UNCHANGED <<host, damaged, uninstalled, runs>>
      /\ run' = [run EXCEPT ![r] = Setup!NoRun]
      /\ outcome' = outcome \/ outcome' = [outcome EXCEPT ![r] = "failed"]
      /\ recorded' = recorded \/ Setup!Record(Setup!Step(r), "error")
  BY DEF Setup!Fails, Setup!Dies, Setup!GiveUp, Setup!Checks, Setup!Applying
<1>2. /\ Setup!TypeOK /\ host \subseteq Setup!Things /\ damaged \in BOOLEAN /\ uninstalled \subseteq Runners
      /\ Setup!Step(r) \in Enabled
      /\ outcome \in [Runners -> {"none", "satisfied", "previewed", "failed"}]
  BY <1>1, RunTypes DEF SetupInv, Setup!TypeOK
<1>3. /\ Setup!NoRun \in [at : 0..Len(Setup!Steps), left : -1..4, dry : BOOLEAN]
      /\ Setup!NoRun.at = 0
  BY StepsList DEF Setup!NoRun
<1>4. recorded' = recorded \/ \E s \in Enabled, state \in {"done", "error"} : Setup!Record(s, state)
  BY <1>1, <1>2
<1>5. outcome' = outcome \/ \E e \in {"satisfied", "previewed", "failed"} :
                              outcome' = [outcome EXCEPT ![r] = e]
  BY <1>1
<1>6. /\ Setup!TypeOK' /\ run'[r] = Setup!NoRun
      /\ \A q \in Runners \ {r} : run'[q] = run[q] /\ outcome'[q] = outcome[q]
  <2>1. host' \subseteq Setup!Things /\ damaged' \in BOOLEAN /\ uninstalled' \subseteq Runners
    BY <1>1, <1>2
  <2>2. QED
    BY <1>1, <1>3, <1>4, <1>5, <2>1, RunnerTypes
<1>7. run'[r].at = 0 /\ (outcome'[r] = outcome[r] \/ outcome'[r] # "satisfied")
  BY <1>1, <1>2, <1>3, <1>6
<1>8. NothingLost
  BY <1>1, SameHost
<1>9. OnTrack(r)'
  BY <1>1, <1>7, <1>8, OthersOnTrack
<1>10. QED
  BY <1>6, <1>8, <1>9, OneRunner

\* A runner that deletes the service answers for it; after an administrator's removal nothing
\* is promised.
LEMMA LossKeeps ==
  ASSUME SetupInv, NothingLost, host' \subseteq host, uninstalled' \subseteq Runners,
         UNCHANGED <<recorded, run, outcome, runs>>, mishaps' = mishaps \/ Setup!Mishap,
         damaged' \in BOOLEAN
  PROVE  SetupInv'
<1>1. Setup!TypeOK'
  <2>1. mishaps' \in 0..MaxMishaps
    <3>1. mishaps \in 0..MaxMishaps
      BY DEF SetupInv, Setup!TypeOK
    <3>2. QED
      BY <3>1, SetupConstants DEF Setup!Mishap
  <2>2. host' \subseteq Setup!Things
    BY DEF SetupInv, Setup!TypeOK
  <2>3. QED
    BY <2>1, <2>2 DEF SetupInv, Setup!TypeOK, Setup!Things
<1>2. ASSUME NEW r \in Runners PROVE OnTrack(r)'
  BY OthersOnTrack
<1>3. QED
  BY <1>1, <1>2 DEF SetupInv

LEMMA DeleteServiceKeeps ==
  ASSUME SetupInv, NEW r \in Runners, Setup!DeleteService(r)
  PROVE  SetupInv'
<1>1. /\ host' = host \ Setup!Needs("self-service") /\ uninstalled' = uninstalled \cup {r}
      /\ UNCHANGED <<recorded, run, outcome, damaged, mishaps, runs>>
  BY DEF Setup!DeleteService
<1>2. Setup!Needs("self-service") \subseteq {"service", "recovery"}
  <2> DEFINE l == <<"service", "recovery">>
  <2>1. Setup!Needs("self-service") = {l[i] : i \in DOMAIN l}
    BY DEF Setup!Needs, Setup!Leaves, Setup!ToSet
  <2>2. DOMAIN l = 1..2 /\ l[1] = "service" /\ l[2] = "recovery"
    OBVIOUS
  <2> HIDE DEF l
  <2>3. QED
    BY <2>1, <2>2
<1>3. NothingLost
  BY <1>1, <1>2 DEF NothingLost, Accounted
<1>4. uninstalled' \subseteq Runners /\ damaged' \in BOOLEAN /\ host' \subseteq host
  BY <1>1 DEF SetupInv, Setup!TypeOK
<1>5. QED
  BY <1>1, <1>3, <1>4, LossKeeps

LEMMA SetupInvariant == Setup!Spec => []SetupInv
<1>1. SetupInv /\ [Setup!Next]_(Setup!installationVars) => SetupInv'
  <2> SUFFICES ASSUME SetupInv, Setup!Next \/ UNCHANGED Setup!installationVars PROVE SetupInv'
    OBVIOUS
  <2>1. ASSUME NEW thing \in Setup!Things, Setup!Lose(thing) PROVE SetupInv'
    <3>1. /\ damaged' /\ host' \subseteq host /\ Setup!Mishap /\ damaged' \in BOOLEAN
          /\ UNCHANGED <<recorded, run, outcome, uninstalled, runs>>
      BY <2>1 DEF Setup!Lose
    <3>2. uninstalled' \subseteq Runners /\ NothingLost
      BY <3>1, SameHost DEF SetupInv, Setup!TypeOK
    <3>3. QED
      BY <3>1, <3>2, LossKeeps
  <2>2. CASE UNCHANGED Setup!installationVars
    <3>1. UNCHANGED <<host, recorded, run, outcome, damaged, uninstalled, mishaps, runs>>
      BY <2>2 DEF Setup!installationVars
    <3>2. Setup!TypeOK'
      BY <3>1 DEF SetupInv, Setup!TypeOK, Setup!Things
    <3>3. ASSUME NEW r \in Runners PROVE OnTrack(r)'
      BY <3>1, SameHost, OthersOnTrack
    <3>4. QED
      BY <3>2, <3>3 DEF SetupInv
  <2>3. ASSUME NEW r \in Runners, \/ Setup!Start(r) \/ Setup!CheckDone(r) \/ Setup!CheckPending(r)
                                  \/ Setup!DeleteService(r) \/ Setup!ApplyNext(r)
                                  \/ Setup!Applied(r) \/ Setup!Fails(r) \/ Setup!Dies(r)
        PROVE  SetupInv'
    BY <2>3, StartKeeps, CheckDoneKeeps, CheckPendingKeeps, DeleteServiceKeeps, ApplyNextKeeps,
       AppliedKeeps, StopKeeps
  <2>4. QED
    BY <2>1, <2>2, <2>3 DEF Setup!Next
<1>2. QED
  BY SetupInit, <1>1, PTL DEF Setup!Spec

\* A step that is met has its check satisfied, but for the service while a runner has it away.
LEMMA MetIsSatisfied ==
  ASSUME NEW s \in Enabled, Met(s)
  PROVE  Setup!Satisfied(s) \/ (s = "self-service" /\ uninstalled # {})
<1>1. s \in {"dirs", "nssm", "winrm", "self-service", "local-target", "caddy", "firewall", "tunnel"}
  BY SetupConstants
<1>2. "recovery" \notin Setup!Probed(s) /\ ("service" \in Setup!Probed(s) => s = "self-service")
  BY <1>1 DEF Setup!Probed
<1>3. QED
  BY <1>2 DEF Met, Accounted, Setup!Satisfied

\* A run that ends well leaves every check satisfied, whatever earlier runs died of and whatever
\* another process provisioned at the same time, as long as no administrator took something off
\* the host; only the service may be missing, while a run that deleted it has not put it back
\* (Runner.Run, bootstrap.go; selfServiceStep.Apply, steps.go).
THEOREM SetupIsComplete == Spec => []GoodRunsSatisfyTheChecks
<1>1. SetupInv => GoodRunsSatisfyTheChecks
  BY MetIsSatisfied DEF SetupInv, OnTrack, Completed, GoodRunsSatisfyTheChecks,
     Setup!GoodRunsSatisfyTheChecks, Setup!Quiet
<1>2. QED
  BY <1>1, SetupInvariant, PartsKeepTheirSpecs, PTL

-----------------------------------------------------------------------------
(* The types.  Every part's is a conjunct of its invariant, but for the    *)
(* counts of the webhooks: a deployment is started for a request that has  *)
(* arrived and is answered with it, so that the deployments started for a  *)
(* push and its requests in progress are together no more than arrived.    *)

InProgress(d) == {r \in Requests : request[r].stage # "idle" /\ CarriedBy(r) = d}

CountTypes ==
  /\ busy \in BOOLEAN /\ blocked \subseteq Deliveries
  /\ arrivals \in 0..MaxArrivals /\ failures \in 0..MaxFailures
  /\ starts \in [Deliveries -> Nat] /\ inWindow \in [Deliveries -> Nat]

Counted(d) ==
  /\ IsFiniteSet(InProgress(d))
  /\ inWindow[d] <= starts[d]
  /\ starts[d] + Cardinality(InProgress(d)) <= arrivals

CountInv == CountTypes /\ \A d \in Deliveries : Counted(d)

LEMMA WebhookConstants == MaxArrivals \in Nat /\ MaxFailures \in Nat
<1>1. Webhooks!DeliveriesAssumption
  BY Bounds
<1>2. QED
  BY <1>1 DEF Webhooks!DeliveriesAssumption

LEMMA CountInit == Webhooks!Init => CountInv
<1> SUFFICES ASSUME Webhooks!Init PROVE CountInv
  OBVIOUS
<1>1. arrivals = 0 /\ failures = 0 /\ busy = FALSE /\ blocked = {}
  BY DEF Webhooks!Init
<1>2. /\ starts \in [Deliveries -> Nat] /\ inWindow \in [Deliveries -> Nat]
      /\ \A d \in Deliveries : starts[d] = 0 /\ inWindow[d] = 0
  BY DEF Webhooks!Init
<1>3. \A d \in Deliveries : InProgress(d) = {}
  BY DEF Webhooks!Init, InProgress, Webhooks!IdleRequest
<1>4. CountTypes
  <2>1. 0 \in 0..MaxArrivals /\ 0 \in 0..MaxFailures
    BY WebhookConstants
  <2>2. QED
    BY <1>1, <1>2, <2>1 DEF CountTypes
<1>5. IsFiniteSet({}) /\ Cardinality({}) = 0
  BY FS_EmptySet
<1>6. QED
  BY <1>1, <1>2, <1>3, <1>4, <1>5 DEF CountInv, Counted

\* A set that does not grow counts no more.
LEMMA NoMore ==
  ASSUME NEW S, NEW T, IsFiniteSet(S), T \subseteq S
  PROVE  /\ IsFiniteSet(T) /\ Cardinality(T) \in Nat /\ Cardinality(S) \in Nat
         /\ Cardinality(T) <= Cardinality(S)
  BY FS_Subset, FS_CardinalityType

\* A push whose requests and starts a step leaves alone, or gives up some requests of.
LEMMA StaysCounted ==
  ASSUME CountInv, NEW d \in Deliveries, InProgress(d)' \subseteq InProgress(d),
         starts'[d] = starts[d], inWindow'[d] = inWindow[d] \/ inWindow'[d] = 0,
         arrivals' = arrivals \/ arrivals' = arrivals + 1
  PROVE  Counted(d)'
<1>1. /\ IsFiniteSet(InProgress(d)) /\ inWindow[d] <= starts[d]
      /\ starts[d] + Cardinality(InProgress(d)) <= arrivals
  BY DEF CountInv, Counted
<1>2. starts[d] \in Nat /\ inWindow[d] \in Nat /\ arrivals \in Int
  BY WebhookConstants DEF CountInv, CountTypes
<1> DEFINE after == InProgress(d)'
<1>3. /\ IsFiniteSet(after) /\ Cardinality(after) \in Nat /\ Cardinality(InProgress(d)) \in Nat
      /\ Cardinality(after) <= Cardinality(InProgress(d))
  BY <1>1, NoMore
<1>4. starts'[d] + Cardinality(after) <= arrivals' /\ inWindow'[d] <= starts'[d]
  <2> HIDE DEF after
  <2>1. QED
    BY <1>1, <1>2, <1>3
<1>5. QED
  BY <1>3, <1>4 DEF Counted

LEMMA ArriveCounts ==
  ASSUME WebhookInv, CountInv, NEW r \in Requests, NEW d \in Deliveries, Webhooks!Arrive(r, d)
  PROVE  CountInv'
<1>1. /\ request[r].stage = "idle" /\ arrivals < MaxArrivals /\ arrivals' = arrivals + 1
      /\ UNCHANGED <<busy, starts, inWindow, blocked, failures>>
  BY DEF Webhooks!Arrive, Webhooks!IdleRequest
<1>2. request' = [request EXCEPT ![r] = [stage |-> "verified", delivery |-> d, hungUp |-> FALSE]]
  BY DEF Webhooks!Arrive
<1>3. \A q \in Requests \ {r} : request'[q] = request[q]
  BY <1>2 DEF WebhookInv, WebhookTypes
<1>4. request'[r].delivery = d
  BY <1>2 DEF WebhookInv, WebhookTypes
<1>5. CountTypes'
  BY <1>1, WebhookConstants DEF CountInv, CountTypes
<1>6. ASSUME NEW e \in Deliveries, e # d PROVE Counted(e)'
  <2>1. InProgress(e)' \subseteq InProgress(e)
    BY <1>3, <1>4, <1>6 DEF InProgress, CarriedBy
  <2>2. QED
    BY <1>1, <2>1, StaysCounted
<1>7. Counted(d)'
  <2> DEFINE before == InProgress(d)
  <2> DEFINE after == InProgress(d)'
  <2>1. after \subseteq before \cup {r} /\ r \notin before
    BY <1>1, <1>3 DEF InProgress, CarriedBy
  <2>2. /\ IsFiniteSet(before) /\ inWindow[d] <= starts[d]
        /\ starts[d] + Cardinality(before) <= arrivals
    BY DEF CountInv, Counted
  <2>3. starts[d] \in Nat /\ inWindow[d] \in Nat /\ arrivals \in Int
    BY WebhookConstants DEF CountInv, CountTypes
  <2>4. /\ IsFiniteSet(before \cup {r}) /\ Cardinality(before \cup {r}) = Cardinality(before) + 1
        /\ Cardinality(before) \in Nat
    BY <2>1, <2>2, FS_AddElement, FS_CardinalityType
  <2>5. /\ IsFiniteSet(after) /\ Cardinality(after) \in Nat
        /\ Cardinality(after) <= Cardinality(before \cup {r})
    BY <2>1, <2>4, NoMore
  <2>6. starts[d] + Cardinality(after) <= arrivals + 1
    <3> HIDE DEF before, after
    <3>1. QED
      BY <2>2, <2>3, <2>4, <2>5
  <2>7. QED
    BY <1>1, <2>2, <2>5, <2>6 DEF Counted
<1>8. QED
  BY <1>5, <1>6, <1>7 DEF CountInv

\* No other step begins a request.
LEMMA NoneBegins ==
  ASSUME WebhookInv, Webhooks!Next \/ UNCHANGED Webhooks!vars,
         \A r \in Requests, d \in Deliveries : ~Webhooks!Arrive(r, d)
  PROVE  /\ \A d \in Deliveries : InProgress(d)' \subseteq InProgress(d)
         /\ arrivals' = arrivals
<1>1. WebhookTypes
  BY DEF WebhookInv
<1>2. ASSUME NEW r \in Requests, Webhooks!HangUp(r)
      PROVE  \A d \in Deliveries : InProgress(d)' \subseteq InProgress(d)
  BY <1>1, <1>2, HangUpFields DEF InProgress, CarriedBy
<1>3. ASSUME NEW r \in Requests, Webhooks!RequestStep(r)
      PROVE  \A d \in Deliveries : InProgress(d)' \subseteq InProgress(d)
  <2>1. \/ Webhooks!Answer(r)
        \/ /\ request[r].stage # "idle"
           /\ Webhooks!Goto(r, "recorded") \/ Webhooks!Goto(r, "guarded") \/ Webhooks!Goto(r, "refused")
    BY <1>3 DEF Webhooks!RequestStep, Webhooks!RecordWebhookDelivery, Webhooks!TakeGuard,
       Webhooks!CreateDeployment, Webhooks!ReleaseDelivery, Webhooks!At
  <2>2. CASE Webhooks!Answer(r)
    BY <1>1, <2>2, AnswerFields DEF InProgress, CarriedBy, Webhooks!IdleRequest
  <2>3. CASE ~Webhooks!Answer(r)
    BY <1>1, <2>1, <2>3, GotoFields DEF InProgress, CarriedBy
  <2>4. QED
    BY <2>2, <2>3
<1>4. CASE Webhooks!Crash
  BY <1>4 DEF Webhooks!Crash, InProgress, CarriedBy, Webhooks!IdleRequest
<1>5. ASSUME UNCHANGED request PROVE \A d \in Deliveries : InProgress(d)' \subseteq InProgress(d)
  BY <1>5 DEF InProgress, CarriedBy
<1>6. \/ \E r \in Requests : Webhooks!HangUp(r) \/ Webhooks!RequestStep(r)
      \/ Webhooks!Crash
      \/ UNCHANGED request
  BY DEF Webhooks!Next, Webhooks!GrowStale, Webhooks!OtherDeployment, Webhooks!DeploymentEnds,
     Webhooks!vars
<1>7. arrivals' = arrivals
  BY DEF Webhooks!Next, Webhooks!HangUp, Webhooks!RequestStep, Webhooks!RecordWebhookDelivery,
     Webhooks!TakeGuard, Webhooks!CreateDeployment, Webhooks!ReleaseDelivery, Webhooks!Crash,
     Webhooks!GrowStale, Webhooks!OtherDeployment, Webhooks!DeploymentEnds, Webhooks!vars
<1>8. QED
  BY <1>2, <1>3, <1>4, <1>5, <1>6, <1>7

\* The insert counts a start and answers a request.
LEMMA CreateCounts ==
  ASSUME WebhookInv, CountInv, NEW r \in Requests, Webhooks!At(r, "guarded"),
         NEW d \in Deliveries, d = request[r].delivery,
         starts' = [starts EXCEPT ![d] = @ + 1], inWindow' = [inWindow EXCEPT ![d] = @ + 1],
         Webhooks!Answer(r), arrivals' = arrivals
  PROVE  \A e \in Deliveries : Counted(e)'
<1>1. /\ \A q \in Requests \ {r} : request'[q] = request[q]
      /\ request'[r].stage = "idle" /\ request[r].stage # "idle"
  BY AnswerFields DEF WebhookInv, Webhooks!IdleRequest, Webhooks!At
<1>2. CountTypes
  BY DEF CountInv
<1>3. ASSUME NEW e \in Deliveries, e # d PROVE Counted(e)'
  <2>1. InProgress(e)' \subseteq InProgress(e)
    BY <1>1 DEF InProgress, CarriedBy
  <2>2. starts'[e] = starts[e] /\ inWindow'[e] = inWindow[e]
    BY <1>2, <1>3 DEF CountTypes
  <2>3. QED
    BY <2>1, <2>2, StaysCounted
<1>4. Counted(d)'
  <2> DEFINE before == InProgress(d)
  <2> DEFINE after == InProgress(d)'
  <2>1. after \subseteq before \ {r} /\ r \in before
    BY <1>1 DEF InProgress, CarriedBy
  <2>2. /\ IsFiniteSet(before) /\ inWindow[d] <= starts[d]
        /\ starts[d] + Cardinality(before) <= arrivals
    BY DEF CountInv, Counted
  <2>3. /\ starts[d] \in Nat /\ inWindow[d] \in Nat /\ arrivals \in Int
        /\ starts'[d] = starts[d] + 1 /\ inWindow'[d] = inWindow[d] + 1
    BY <1>2, WebhookConstants DEF CountTypes
  <2>4. /\ IsFiniteSet(before \ {r}) /\ Cardinality(before \ {r}) = Cardinality(before) - 1
        /\ Cardinality(before) \in Nat
    BY <2>1, <2>2, FS_RemoveElement, FS_CardinalityType
  <2>5. /\ IsFiniteSet(after) /\ Cardinality(after) \in Nat
        /\ Cardinality(after) <= Cardinality(before \ {r})
    BY <2>1, <2>4, NoMore
  <2>6. starts'[d] + Cardinality(after) <= arrivals' /\ inWindow'[d] <= starts'[d]
    <3> HIDE DEF before, after
    <3>1. QED
      BY <2>2, <2>3, <2>4, <2>5
  <2>7. QED
    BY <2>5, <2>6 DEF Counted
<1>5. QED
  BY <1>3, <1>4

LEMMA FailureCount ==
  ASSUME failures \in 0..MaxFailures,
         failures' = failures \/ (failures < MaxFailures /\ failures' = failures + 1)
  PROVE  failures' \in 0..MaxFailures
  BY WebhookConstants

\* The types of every step but an arrival.
LEMMA CountTypesKept ==
  ASSUME WebhookInv, CountTypes, Webhooks!Next \/ UNCHANGED Webhooks!vars,
         arrivals' = arrivals
  PROVE  CountTypes'
<1>1. /\ starts \in [Deliveries -> Nat] /\ inWindow \in [Deliveries -> Nat]
      /\ \A r \in Requests : Webhooks!At(r, "guarded") \/ Webhooks!At(r, "refused")
                             \/ Owns(r) => request[r].delivery \in Deliveries
  BY DEF CountTypes, WebhookInv, WebhookTypes, Webhooks!At, Owns, CarriedBy
<1>2. starts' \in [Deliveries -> Nat] /\ inWindow' \in [Deliveries -> Nat]
  BY <1>1 DEF Webhooks!Next, Webhooks!Arrive, Webhooks!HangUp, Webhooks!RequestStep,
     Webhooks!RecordWebhookDelivery, Webhooks!TakeGuard, Webhooks!CreateDeployment,
     Webhooks!ReleaseDelivery, Webhooks!Crash, Webhooks!GrowStale, Webhooks!OtherDeployment,
     Webhooks!DeploymentEnds, Webhooks!vars
<1>3. busy' \in BOOLEAN
  BY DEF CountTypes, Webhooks!Next, Webhooks!Arrive, Webhooks!HangUp, Webhooks!RequestStep,
     Webhooks!RecordWebhookDelivery, Webhooks!TakeGuard, Webhooks!CreateDeployment,
     Webhooks!ReleaseDelivery, Webhooks!Crash, Webhooks!GrowStale, Webhooks!OtherDeployment,
     Webhooks!DeploymentEnds, Webhooks!vars
<1>4. blocked' \subseteq Deliveries
  BY <1>1 DEF CountTypes, Webhooks!Next, Webhooks!Arrive, Webhooks!HangUp, Webhooks!RequestStep,
     Webhooks!RecordWebhookDelivery, Webhooks!TakeGuard, Webhooks!CreateDeployment,
     Webhooks!ReleaseDelivery, Webhooks!Crash, Webhooks!GrowStale, Webhooks!OtherDeployment,
     Webhooks!DeploymentEnds, Webhooks!vars, Owns
<1>5. failures' = failures \/ (failures < MaxFailures /\ failures' = failures + 1)
  BY DEF Webhooks!Next, Webhooks!Arrive, Webhooks!HangUp, Webhooks!RequestStep,
     Webhooks!RecordWebhookDelivery, Webhooks!TakeGuard, Webhooks!CreateDeployment,
     Webhooks!ReleaseDelivery, Webhooks!Crash, Webhooks!GrowStale, Webhooks!OtherDeployment,
     Webhooks!DeploymentEnds, Webhooks!vars, Webhooks!Works, Webhooks!Fails
<1>6. failures' \in 0..MaxFailures
  BY <1>5, FailureCount DEF CountTypes
<1>7. QED
  BY <1>2, <1>3, <1>4, <1>6 DEF CountTypes

LEMMA CountInvariant == Webhooks!Spec => []CountInv
<1>1. WebhookInv /\ CountInv /\ (Webhooks!Next \/ UNCHANGED Webhooks!vars) => CountInv'
  <2> SUFFICES ASSUME WebhookInv, CountInv, Webhooks!Next \/ UNCHANGED Webhooks!vars
               PROVE  CountInv'
    OBVIOUS
  <2>1. CASE \E r \in Requests, d \in Deliveries : Webhooks!Arrive(r, d)
    BY <2>1, ArriveCounts
  <2>2. CASE \A r \in Requests, d \in Deliveries : ~Webhooks!Arrive(r, d)
    <3>1. /\ \A d \in Deliveries : InProgress(d)' \subseteq InProgress(d)
          /\ arrivals' = arrivals
      BY <2>2, NoneBegins
    <3>2. CountTypes'
      BY <3>1, CountTypesKept DEF CountInv
    <3>3. CASE \A d \in Deliveries : /\ starts'[d] = starts[d]
                                     /\ inWindow'[d] = inWindow[d] \/ inWindow'[d] = 0
      BY <3>1, <3>2, <3>3, StaysCounted DEF CountInv
    <3>4. ASSUME NEW r \in Requests, Webhooks!At(r, "guarded"), NEW d \in Deliveries,
                 d = request[r].delivery, starts' = [starts EXCEPT ![d] = @ + 1],
                 inWindow' = [inWindow EXCEPT ![d] = @ + 1], Webhooks!Answer(r)
          PROVE  CountInv'
      BY <3>1, <3>2, <3>4, CreateCounts DEF CountInv
    <3>5. ASSUME NEW d \in Deliveries, Webhooks!GrowStale(d) PROVE CountInv'
      <4>1. \A e \in Deliveries : /\ starts'[e] = starts[e]
                                  /\ inWindow'[e] = inWindow[e] \/ inWindow'[e] = 0
        BY <3>5 DEF Webhooks!GrowStale, CountInv, CountTypes
      <4>2. QED
        BY <3>3, <4>1
    <3>6. ASSUME NEW r \in Requests, Webhooks!CreateDeployment(r) PROVE CountInv'
      <4>1. request[r].delivery \in Deliveries /\ Webhooks!At(r, "guarded")
        BY <3>6 DEF Webhooks!CreateDeployment, Webhooks!At, WebhookInv, WebhookTypes, CarriedBy
      <4>2. QED
        BY <3>3, <3>4, <3>6, <4>1 DEF Webhooks!CreateDeployment
    <3>7. \/ \E r \in Requests : Webhooks!CreateDeployment(r)
          \/ \E d \in Deliveries : Webhooks!GrowStale(d)
          \/ UNCHANGED <<starts, inWindow>>
      BY <2>2 DEF Webhooks!Next, Webhooks!HangUp, Webhooks!RequestStep,
         Webhooks!RecordWebhookDelivery, Webhooks!TakeGuard, Webhooks!ReleaseDelivery,
         Webhooks!Crash, Webhooks!OtherDeployment, Webhooks!DeploymentEnds, Webhooks!vars
    <3>8. QED
      BY <3>3, <3>5, <3>6, <3>7
  <2>3. QED
    BY <2>1, <2>2
<1>2. QED
  BY CountInit, <1>1, WebhookInvariant, PTL DEF Webhooks!Spec

LEMMA WebhooksTyped == WebhookInv /\ CountInv => Webhooks!TypeOK
<1> SUFFICES ASSUME WebhookInv, CountInv PROVE Webhooks!TypeOK
  OBVIOUS
<1>1. ASSUME NEW d \in Deliveries PROVE starts[d] \in 0..MaxArrivals /\ inWindow[d] \in 0..MaxArrivals
  <2>1. /\ inWindow[d] <= starts[d] /\ Cardinality(InProgress(d)) \in Nat
        /\ starts[d] + Cardinality(InProgress(d)) <= arrivals
    BY FS_CardinalityType DEF CountInv, Counted
  <2>2. starts[d] \in Nat /\ inWindow[d] \in Nat /\ arrivals \in 0..MaxArrivals
    BY DEF CountInv, CountTypes
  <2>3. QED
    BY <2>1, <2>2, WebhookConstants
<1>2. starts \in [Deliveries -> 0..MaxArrivals] /\ inWindow \in [Deliveries -> 0..MaxArrivals]
  BY <1>1 DEF CountInv, CountTypes
<1>3. QED
  BY <1>2 DEF WebhookInv, WebhookTypes, CountInv, CountTypes, Webhooks!TypeOK

LEMMA KeysTyped == Vault!Spec => []Vault!TypeOK
<1>1. Vault!KeyBounds
  BY Bounds
<1>2. KeyProofs!KeyBounds
  BY <1>1 DEF Vault!KeyBounds, KeyProofs!KeyBounds
<1>3. KeyProofs!Spec => []KeyProofs!IInv
  BY <1>2, KeyProofs!KeyInvariant
<1>4. KeyProofs!IInv => Vault!TypeOK
  BY DEF KeyProofs!IInv, KeyProofs!TypeOK, Vault!TypeOK, KeyProofs!Keys, Vault!Keys,
     KeyProofs!KeyPhases, Vault!KeyPhases, KeyProofs!NoKey, Vault!NoKey, KeyProofs!Absent,
     Vault!Absent, KeyProofs!Unfinished, Vault!Unfinished
<1>5. QED
  BY <1>3, <1>4, KeySpec, PTL

LEMMA PartStays == Spec => [](part \in Parts)
<1>1. Init => part \in Parts
  BY DEF Init
<1>2. part \in Parts /\ [Next]_controlPlane => (part \in Parts)'
  BY DEF controlPlane, Next, DeliverPushes, FollowDeployment, SignIns, LoadKeys, PollServers,
     EditInventory, ProvisionHost, ProvisionTunnel, ConnectRepository
<1>3. QED
  BY <1>1, <1>2, PTL DEF Spec, controlPlane

\* Every variable of every component keeps its type; for the webhooks that is to say that no
\* more deployments are started for a push than copies of it arrived (handleWebhook, webhook.go).
THEOREM TypesAreKept == Spec => []TypeOK
<1>1. WebhookInv /\ CountInv => Webhooks!TypeOK
  BY WebhooksTyped
<1>2. FeedInv => Feed!TypeOK
  BY DEF FeedInv
<1>3. AccessInv => Accounts!TypeOK
  BY DEF AccessInv
<1>4. PollInv => Poller!TypeOK
  BY DEF PollInv
<1>5. StockInv => Stock!TypeOK
  BY DEF StockInv
<1>6. SetupInv => Setup!TypeOK
  BY DEF SetupInv
<1>7. EdgeInv => Edge!TypeOK
  BY DEF EdgeInv
<1>8. LinkInv => Connecting!TypeOK
  BY DEF LinkInv
<1>9. /\ part \in Parts
      /\ Webhooks!TypeOK /\ Feed!TypeOK /\ Accounts!TypeOK /\ Vault!TypeOK /\ Poller!TypeOK
      /\ Stock!TypeOK /\ Setup!TypeOK /\ Edge!TypeOK /\ Connecting!TypeOK
      => TypeOK
  BY DEF TypeOK
<1>10. QED
  BY <1>1, <1>2, <1>3, <1>4, <1>5, <1>6, <1>7, <1>8, <1>9, PartStays, WebhookInvariant,
     CountInvariant, FeedInvariant, AccessInvariant, KeysTyped, PollInvariant, StockInvariant,
     SetupInvariant, EdgeInvariant, LinkInvariant, PartsKeepTheirSpecs, PTL
=============================================================================
