--------------------------- MODULE WebhookDelivery ---------------------------
(***************************************************************************)
(* Push webhooks of one project: handleWebhook (internal/server/           *)
(* webhook.go) and its replay protection, the webhook_deliveries table of  *)
(* the store (internal/models/store.go).  A delivery is known by the hash  *)
(* of its authenticated body, so a retry or a resend is the same delivery. *)
(*                                                                         *)
(* Copies of deliveries are handled concurrently.  The guard is the        *)
(* deployer's, which other triggers of the project compete for.  Every     *)
(* database call may fail, certainly so once the provider has hung up,     *)
(* because the handler passes on the context of the request.  Requests     *)
(* that fail a check before the record (unknown project, signature,        *)
(* event, branch, server) change nothing and are left out.                 *)
(***************************************************************************)
EXTENDS Naturals, FiniteSets

CONSTANTS
  Deliveries,    \* authenticated push bodies of the project
  Requests,      \* HTTP requests that can be in progress together
  NoDelivery,    \* what an idle request carries
  MaxArrivals,   \* bound: requests in a behaviour
  MaxFailures    \* bound: failing database calls and crashes in a behaviour

\* What the constants are assumed to be; the MC module that instantiates them states it.
DeliveriesAssumption == NoDelivery \notin Deliveries /\ {MaxArrivals, MaxFailures} \subseteq Nat

VARIABLES
  record,     \* webhook_deliveries: absent, or fresh or stale by received_at
  request,    \* what each request is doing
  busy,       \* Deployer.inFlight holds the project
  starts,     \* deployments started for each delivery
  inWindow,   \* those of them started since its record last became fresh
  blocked,    \* deliveries whose record could not be released
  arrivals,   \* requests so far
  failures    \* failing calls and crashes so far

vars == <<record, request, busy, starts, inWindow, blocked, arrivals, failures>>

\* "verified" passed the checks, "recorded" owns the record and calls Trigger,
\* "guarded" is Trigger before its insert, "refused" is about to release.
Request == [stage    : {"idle", "verified", "recorded", "guarded", "refused"},
            delivery : Deliveries \cup {NoDelivery},
            hungUp   : BOOLEAN]

IdleRequest == [stage |-> "idle", delivery |-> NoDelivery, hungUp |-> FALSE]

TypeOK ==
  /\ record   \in [Deliveries -> {"absent", "fresh", "stale"}]
  /\ request  \in [Requests -> Request]
  /\ busy     \in BOOLEAN
  /\ starts   \in [Deliveries -> 0..MaxArrivals]
  /\ inWindow \in [Deliveries -> 0..MaxArrivals]
  /\ blocked  \subseteq Deliveries
  /\ arrivals \in 0..MaxArrivals
  /\ failures \in 0..MaxFailures

Init ==
  /\ record   = [d \in Deliveries |-> "absent"]
  /\ request  = [r \in Requests |-> IdleRequest]
  /\ busy     = FALSE
  /\ starts   = [d \in Deliveries |-> 0]
  /\ inWindow = [d \in Deliveries |-> 0]
  /\ blocked  = {}
  /\ arrivals = 0
  /\ failures = 0

-----------------------------------------------------------------------------

At(r, stage) == request[r].stage = stage
Goto(r, to)  == request' = [request EXCEPT ![r].stage = to]
Answer(r)    == request' = [request EXCEPT ![r] = IdleRequest]

\* A database call of request r; the provider hanging up fails it for free.
Works(r) == ~request[r].hungUp /\ UNCHANGED failures
Fails(r) == \/ request[r].hungUp /\ UNCHANGED failures
            \/ failures < MaxFailures /\ failures' = failures + 1

\* A copy of a delivery arrives, first one or not, and passes every check.
Arrive(r, d) ==
  /\ request[r] = IdleRequest /\ arrivals < MaxArrivals
  /\ arrivals' = arrivals + 1
  /\ request' = [request EXCEPT ![r] = [stage |-> "verified", delivery |-> d, hungUp |-> FALSE]]
  /\ UNCHANGED <<record, busy, starts, inWindow, blocked, failures>>

HangUp(r) ==
  /\ ~At(r, "idle") /\ ~request[r].hungUp
  /\ request' = [request EXCEPT ![r].hungUp = TRUE]
  /\ UNCHANGED <<record, busy, starts, inWindow, blocked, arrivals, failures>>

\* The upsert counts a row whether or not the record was fresh.
RecordAlways(r) ==
  LET d == request[r].delivery
  IN  /\ At(r, "verified") /\ Works(r)
      /\ record' = [record EXCEPT ![d] = "fresh"]
      /\ Goto(r, "recorded")
      /\ UNCHANGED <<busy, starts, inWindow, blocked, arrivals>>

\* RecordWebhookDelivery: drops records older than 30 days (best effort), then
\* inserts this one or renews one older than 10 minutes, in one statement.  A
\* fresh record makes the request a duplicate, an error fails it.
RecordWebhookDelivery(r) ==
  LET d == request[r].delivery
  IN  /\ At(r, "verified")
      /\ \/ /\ Works(r)
            /\ \E old \in SUBSET {e \in Deliveries : record[e] = "stale"} :
                 record' = [e \in Deliveries |-> IF e = d THEN "fresh"
                                                 ELSE IF e \in old THEN "absent" ELSE record[e]]
            /\ IF record[d] = "fresh" THEN Answer(r) ELSE Goto(r, "recorded")
         \/ Fails(r) /\ Answer(r) /\ UNCHANGED record
      /\ UNCHANGED <<busy, starts, inWindow, blocked, arrivals>>

\* Trigger: the guard.
TakeGuard(r) ==
  /\ At(r, "recorded")
  /\ busy' = TRUE
  /\ Goto(r, IF busy THEN "refused" ELSE "guarded")
  /\ UNCHANGED <<record, starts, inWindow, blocked, arrivals, failures>>

\* A handler that repeats an insert that has succeeded.
CreateDeploymentAgain(r) ==
  LET d == request[r].delivery
  IN  /\ At(r, "guarded") /\ Works(r)
      /\ starts'   = [starts EXCEPT ![d] = @ + 1]
      /\ inWindow' = [inWindow EXCEPT ![d] = @ + 1]
      /\ \/ Answer(r)
         \/ UNCHANGED request
      /\ UNCHANGED <<record, busy, blocked, arrivals>>

\* Trigger: the insert that starts the deployment, or its error.
CreateDeployment(r) ==
  LET d == request[r].delivery
  IN  /\ At(r, "guarded")
      /\ \/ /\ Works(r)
            /\ starts'   = [starts EXCEPT ![d] = @ + 1]
            /\ inWindow' = [inWindow EXCEPT ![d] = @ + 1]
            /\ Answer(r)
            /\ UNCHANGED busy
         \/ /\ Fails(r)
            /\ busy' = FALSE
            /\ Goto(r, "refused")
            /\ UNCHANGED <<starts, inWindow>>
      /\ UNCHANGED <<record, blocked, arrivals>>

\* The error answer forgets the record.
AnswerWithoutRelease(r) ==
  /\ At(r, "refused")
  /\ Answer(r)
  /\ UNCHANGED <<record, busy, starts, inWindow, blocked, arrivals, failures>>

\* DeleteWebhookDelivery before the 409 or 500: its own error is ignored.
ReleaseDelivery(r) ==
  LET d == request[r].delivery
  IN  /\ At(r, "refused")
      /\ \/ Works(r) /\ record' = [record EXCEPT ![d] = "absent"] /\ UNCHANGED blocked
         \/ Fails(r) /\ blocked' = blocked \cup {d} /\ UNCHANGED record
      /\ Answer(r)
      /\ UNCHANGED <<busy, starts, inWindow, arrivals>>

-----------------------------------------------------------------------------
(* The world around the handler.                                           *)

\* Ten minutes pass for a record; no request takes that long.
GrowStale(d) ==
  /\ record[d] = "fresh"
  /\ \A r \in Requests : request[r].delivery = d => At(r, "verified")
  /\ record'   = [record EXCEPT ![d] = "stale"]
  /\ inWindow' = [inWindow EXCEPT ![d] = 0]
  /\ blocked'  = blocked \ {d}
  /\ UNCHANGED <<request, busy, starts, arrivals, failures>>

\* Another trigger of the project takes the guard; a worker releases it.
OtherDeployment ==
  /\ ~busy /\ busy' = TRUE
  /\ UNCHANGED <<record, request, starts, inWindow, blocked, arrivals, failures>>

DeploymentEnds ==
  /\ busy /\ \A r \in Requests : ~At(r, "guarded")
  /\ busy' = FALSE
  /\ UNCHANGED <<record, request, starts, inWindow, blocked, arrivals, failures>>

\* The process dies and boots: nothing looks at the records.
Crash ==
  LET unreleased == {r \in Requests : request[r].stage \in {"recorded", "guarded", "refused"}}
  IN  /\ failures < MaxFailures /\ failures' = failures + 1
      /\ request' = [r \in Requests |-> IdleRequest]
      /\ busy' = FALSE
      /\ blocked' = blocked \cup {request[r].delivery : r \in unreleased}
      /\ UNCHANGED <<record, starts, inWindow, arrivals>>

RequestStep(r) ==
  \/ RecordWebhookDelivery(r)
  \/ TakeGuard(r)
  \/ CreateDeployment(r)
  \/ ReleaseDelivery(r)

Next ==
  \/ \E r \in Requests, d \in Deliveries : Arrive(r, d)
  \/ \E r \in Requests : HangUp(r) \/ RequestStep(r)
  \/ \E d \in Deliveries : GrowStale(d)
  \/ OtherDeployment
  \/ DeploymentEnds
  \/ Crash

Spec == Init /\ [][Next]_vars

-----------------------------------------------------------------------------
(* Properties.                                                             *)

\* Copies of a delivery, however they overlap with each other, with refusals,
\* hang-ups and failing calls, start one deployment in the ten minutes a
\* record is fresh.
OneDeploymentPerWindow == \A d \in Deliveries : inWindow[d] <= 1

\* A record that makes the next copy a duplicate stands for a deployment that
\* was started or for a request that is still trying, "allowing the provider's
\* retry to be processed" (store.go) otherwise; the exceptions are records
\* whose release failed or died with the process.
DuplicateMeansStarted ==
  \A d \in Deliveries : record[d] = "fresh" =>
    \/ inWindow[d] = 1
    \/ \E r \in Requests : request[r].delivery = d
                            /\ request[r].stage \in {"recorded", "guarded", "refused"}
    \/ d \in blocked
=============================================================================
