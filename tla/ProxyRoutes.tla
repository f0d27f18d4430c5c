---------------------------- MODULE ProxyRoutes ----------------------------
(***************************************************************************)
(* How a project's domain becomes a public route and stops being one: the  *)
(* handlers that save and delete projects (internal/server/admin.go and    *)
(* api.go), the end of the deploy pipeline that registers the domain and   *)
(* cleans up retired ones (internal/deployment/deployer.go), the retired_  *)
(* proxy_domains table (internal/models/store.go), and the client of the   *)
(* Caddy admin API (internal/proxy/caddy.go).                              *)
(*                                                                         *)
(* Handlers and jobs interleave at every database call and every request   *)
(* to Caddy, and any of those may fail; a request to Caddy may fail after  *)
(* it took effect.  Jobs of one project exclude each other, which is what  *)
(* module Deployer establishes; the rest of the pipeline is one step here. *)
(***************************************************************************)
EXTENDS Naturals

CONSTANTS
  Projects,
  Domains,       \* domain names as operators spell them
  RouteIds,      \* the @id values of Caddy routes
  RouteId,       \* routeID: the id of a name, the same for all its spellings
  Handlers,      \* HTTP handlers at work on projects
  NoDomain,      \* a project's empty domain
  NotFound,      \* the domain of a project that has no row
  Nobody,        \* no project: a missing route, a free Caddy.mu
  MaxRequests,   \* bound: HTTP requests in a behaviour
  MaxFailures    \* bound: failing calls and crashes in a behaviour

ASSUME RoutesAssumption == /\ RouteId \in [Domains -> RouteIds]
                           /\ NoDomain \notin Domains /\ NotFound \notin Domains
                           /\ NoDomain # NotFound /\ Nobody \notin Projects
ASSUME RouteBounds      == MaxRequests \in Nat /\ MaxFailures \in Nat

VARIABLES
  domain,      \* projects table: the domain of each project
  retired,     \* retired_proxy_domains table: <<project, domain>>
  route,       \* Caddy: the project each route id proxies to
  handler,     \* what each handler is doing
  job,         \* the deploy job of each project
  mu,          \* Caddy.mu: the project whose Register holds it
  served,      \* the domain that the last job of each project left public
  named,       \* history: the domains ever saved for each project
  withdrawn,   \* history: the domains ever marked retired, or removed with a deletion
  untracked,   \* history: the domains whose route the code may have forgotten
  requests,    \* HTTP requests so far
  failures     \* failing calls and crashes so far

history == <<served, named, withdrawn, untracked>>
vars    == <<domain, retired, route, handler, job, mu, served, named, withdrawn,
             untracked, requests, failures>>

-----------------------------------------------------------------------------

MaybeDomain == Domains \cup {NoDomain}
Marks       == SUBSET (Projects \X Domains)

\* A handler has read the row of its project: "old" is the domain it saw and
\* "new" the one it is going to write.
Handler == [stage   : {"idle", "upsert", "retire", "deregister", "drop", "clear", "trigger"},
            project : Projects \cup {Nobody},
            old     : MaybeDomain,
            new     : MaybeDomain]

IdleHandler == [stage |-> "idle", project |-> Nobody, old |-> NoDomain, new |-> NoDomain]

\* A job carries the domain of the project as it was read before the trigger;
\* "old" is the upstream that Register saved, "current" and "todo" are the
\* retired domains under cleanup; "cancelled" is the state of its context.
Job == [stage     : {"idle", "target", "register", "delete", "post", "restore", "list",
                     "cleanup", "unmark"},
        domain    : MaybeDomain,
        old       : Projects \cup {Nobody},
        current   : MaybeDomain,
        todo      : SUBSET Domains,
        cancelled : BOOLEAN]

IdleJob == [stage |-> "idle", domain |-> NoDomain, old |-> Nobody, current |-> NoDomain,
            todo |-> {}, cancelled |-> FALSE]

TypeOK ==
  /\ domain   \in [Projects -> MaybeDomain \cup {NotFound}]
  /\ route    \in [RouteIds -> Projects \cup {Nobody}]
  /\ handler  \in [Handlers -> Handler]
  /\ job      \in [Projects -> Job]
  /\ mu       \in Projects \cup {Nobody}
  /\ served   \in [Projects -> MaybeDomain]
  /\ {retired, named, withdrawn, untracked} \subseteq Marks
  /\ requests \in 0..MaxRequests
  /\ failures \in 0..MaxFailures

Init ==
  /\ domain  = [p \in Projects |-> NoDomain]
  /\ retired = {}
  /\ route   = [r \in RouteIds |-> Nobody]
  /\ handler = [h \in Handlers |-> IdleHandler]
  /\ job     = [p \in Projects |-> IdleJob]
  /\ mu      = Nobody
  /\ served  = [p \in Projects |-> NoDomain]
  /\ named = {} /\ withdrawn = {} /\ untracked = {}
  /\ requests = 0 /\ failures = 0

-----------------------------------------------------------------------------

Works == UNCHANGED failures
Fails == failures < MaxFailures /\ failures' = failures + 1

SetHandler(h, new) == handler' = [handler EXCEPT ![h] = new]
SetJob(p, new)     == job' = [job EXCEPT ![p] = new]

Of(p)           == {p} \X Domains
DomainsOf(S, p) == {d \in Domains : <<p, d>> \in S}
Known(p, d)     == {p} \X ({d} \cap Domains)   \* empty for NoDomain and NotFound

\* One DELETE of a route, as its sender sees it: only a failed one may or may
\* not have taken effect.
DeleteRoute(d)      == route' = [route EXCEPT ![RouteId[d]] = Nobody]
DeleteRouteFails(d) == Fails /\ (UNCHANGED route \/ DeleteRoute(d))

-----------------------------------------------------------------------------
(* Handlers.  Each begins by reading the project it was asked about.       *)

Read(h, p, stage, old, new) ==
  /\ handler[h] = IdleHandler /\ requests < MaxRequests
  /\ requests' = requests + 1
  /\ SetHandler(h, [stage |-> stage, project |-> p, old |-> old, new |-> new])
  /\ UNCHANGED <<domain, retired, route, job, mu, served, named, withdrawn, untracked>>

Seen(p) == IF domain[p] = NotFound THEN NoDomain ELSE domain[p]

\* handleProjectSave and apiSaveProject: a failed read looks like a new project.
SaveProject(h, p, d) ==
  \/ Works /\ Read(h, p, "upsert", Seen(p), d)
  \/ Fails /\ Read(h, p, "upsert", NoDomain, d)

\* The handler does not look whether the project was found.
SaveUnchangedBlindly(h, p) ==
  Works /\ Read(h, p, "upsert", domain[p], domain[p])

\* handleProjectEnvSave and the GitHub connection write back the whole row.
SaveUnchanged(h, p) ==
  domain[p] # NotFound /\ Works /\ Read(h, p, "upsert", domain[p], domain[p])

\* handleProjectDelete and apiDeleteProject.
DeleteProject(h, p) ==
  Works /\ Read(h, p, IF Seen(p) = NoDomain THEN "drop" ELSE "deregister", Seen(p), NoDomain)

\* handleManualDeploy, handleWebhook, apiDeploy, apiRollback and the others.
DeployProject(h, p) ==
  domain[p] # NotFound /\ Works /\ Read(h, p, "trigger", domain[p], NoDomain)

\* The save also retires the domain it has just configured.
UpsertProject(h) ==
  LET p   == handler[h].project
      new == handler[h].new
      old == handler[h].old
  IN  /\ handler[h].stage = "upsert"
      /\ \/ /\ Works
            /\ domain' = [domain EXCEPT ![p] = new]
            /\ named' = named \cup Known(p, new)
            /\ untracked' = IF domain[p] = old THEN untracked
                            ELSE untracked \cup Known(p, domain[p])
            /\ SetHandler(h, IF old \notin {NoDomain, new}
                             THEN [handler[h] EXCEPT !.stage = "retire"] ELSE IdleHandler)
         \/ /\ Fails
            /\ SetHandler(h, IdleHandler)
            /\ UNCHANGED <<domain, named, untracked>>
      /\ UNCHANGED <<retired, route, job, mu, served, withdrawn, requests>>

\* The handler retires the new domain instead of the old one.
RetireNewDomain(h) ==
  LET marks == Known(handler[h].project, handler[h].new)
  IN  /\ handler[h].stage = "retire" /\ Works
      /\ retired' = retired \cup marks /\ withdrawn' = withdrawn \cup marks
      /\ SetHandler(h, IdleHandler)
      /\ UNCHANGED <<domain, route, job, mu, served, named, untracked, requests>>

\* RetireProxyDomain(old): an error is only logged.
RetireProxyDomain(h) ==
  LET mark == <<handler[h].project, handler[h].old>>
  IN  /\ handler[h].stage = "retire"
      /\ \/ /\ Works
            /\ retired' = retired \cup {mark} /\ withdrawn' = withdrawn \cup {mark}
            /\ UNCHANGED untracked
         \/ /\ Fails
            /\ untracked' = untracked \cup {mark}
            /\ UNCHANGED <<retired, withdrawn>>
      /\ SetHandler(h, IdleHandler)
      /\ UNCHANGED <<domain, route, job, mu, served, named, requests>>

\* The deletion removes the route without taking Caddy.mu.
DeregisterUnlocked(h) ==
  LET d == handler[h].old
  IN  /\ handler[h].stage = "deregister"
      /\ Works /\ DeleteRoute(d) /\ SetHandler(h, [handler[h] EXCEPT !.stage = "drop"])
      /\ withdrawn' = withdrawn \cup {<<handler[h].project, d>>}
      /\ UNCHANGED <<domain, retired, job, mu, served, named, untracked, requests>>

\* Deleting a project removes the route of the domain that was read; an error
\* ends the request with the project still there.
DeregisterDeleted(h) ==
  LET d == handler[h].old
  IN  /\ handler[h].stage = "deregister" /\ mu = Nobody
      /\ \/ Works /\ DeleteRoute(d) /\ SetHandler(h, [handler[h] EXCEPT !.stage = "drop"])
         \/ DeleteRouteFails(d) /\ SetHandler(h, IdleHandler)
      /\ withdrawn' = withdrawn \cup {<<handler[h].project, d>>}
      /\ UNCHANGED <<domain, retired, job, mu, served, named, untracked, requests>>

\* Store.DeleteProject.
DropProject(h) ==
  LET p == handler[h].project
  IN  /\ handler[h].stage = "drop"
      /\ \/ /\ Works
            /\ domain' = [domain EXCEPT ![p] = NotFound]
            /\ untracked' = untracked \cup Of(p)
            /\ SetHandler(h, [handler[h] EXCEPT !.stage = "clear"])
         \/ Fails /\ SetHandler(h, IdleHandler) /\ UNCHANGED <<domain, untracked>>
      /\ UNCHANGED <<retired, route, job, mu, served, named, withdrawn, requests>>

\* DeleteRetiredProxyDomains: an error is only logged.
ClearRetired(h) ==
  /\ handler[h].stage = "clear"
  /\ \/ Works /\ retired' = retired \ Of(handler[h].project)
     \/ Fails /\ UNCHANGED retired
  /\ SetHandler(h, IdleHandler)
  /\ UNCHANGED <<domain, route, job, mu, history, requests>>

\* Trigger and Rollback: refused while a job of the project is in flight.
Trigger(h) ==
  LET p == handler[h].project
      d == handler[h].old
  IN  /\ handler[h].stage = "trigger"
      /\ SetHandler(h, IdleHandler)
      /\ \/ /\ job[p].stage # "idle"
            /\ UNCHANGED <<job, served, untracked>>
         \/ /\ job[p].stage = "idle"
            /\ SetJob(p, [IdleJob EXCEPT !.stage = "target", !.domain = d])
            /\ served' = [served EXCEPT ![p] = NoDomain]
            /\ untracked' = IF d = domain[p] THEN untracked ELSE untracked \cup Known(p, d)
      /\ UNCHANGED <<domain, retired, route, mu, named, withdrawn, requests, failures>>

HandlerStep(h) ==
  \/ UpsertProject(h)
  \/ RetireProxyDomain(h)
  \/ DeregisterDeleted(h)
  \/ DropProject(h)
  \/ ClearRetired(h)
  \/ Trigger(h)

-----------------------------------------------------------------------------
(* The deploy job.                                                         *)

At(p, stage)  == job[p].stage = stage
Goto(p, next) == SetJob(p, [job[p] EXCEPT !.stage = next])

\* A cancelled context fails every further request that is given it.
Sent(p)       == ~job[p].cancelled /\ Works
Unsent(p)     == IF job[p].cancelled THEN Works ELSE Fails

JobFrame == UNCHANGED <<domain, handler, named, withdrawn, untracked, requests>>

\* The deadline of the job or a shutdown; the cleanup has a context of its own.
Cancel(p) ==
  /\ job[p].stage \in {"target", "register", "delete", "post", "restore"}
  /\ ~job[p].cancelled
  /\ SetJob(p, [job[p] EXCEPT !.cancelled = TRUE])
  /\ UNCHANGED <<retired, route, mu, served, failures>> /\ JobFrame

\* The pipeline up to registerProxy; an empty domain is not registered.
RunTarget(p) ==
  /\ At(p, "target")
  /\ \/ Goto(p, IF job[p].domain = NoDomain THEN "list" ELSE "register")
     \/ SetJob(p, IdleJob)
  /\ UNCHANGED <<retired, route, mu, served, failures>> /\ JobFrame

\* Register: lock, ensureServer and routeSnapshot.
Snapshot(p) ==
  /\ At(p, "register") /\ mu = Nobody
  /\ \/ /\ Sent(p)
        /\ SetJob(p, [job[p] EXCEPT !.stage = "delete", !.old = route[RouteId[job[p].domain]]])
        /\ mu' = p
     \/ Unsent(p) /\ SetJob(p, IdleJob) /\ UNCHANGED mu
  /\ UNCHANGED <<retired, route, served>> /\ JobFrame

\* Register: the DELETE of the old route; its error returns at once.
DeleteOldRoute(p) ==
  /\ At(p, "delete")
  /\ \/ Sent(p) /\ DeleteRoute(job[p].domain) /\ Goto(p, "post") /\ UNCHANGED mu
     \/ /\ \/ DeleteRouteFails(job[p].domain)
           \/ job[p].cancelled /\ Works /\ UNCHANGED route
        /\ SetJob(p, IdleJob) /\ mu' = Nobody
  /\ UNCHANGED <<retired, served>> /\ JobFrame

\* Register reports success although Caddy refused the route.
PostRouteIgnoringError(p) ==
  /\ At(p, "post")
  /\ \/ Sent(p) /\ route' = [route EXCEPT ![RouteId[job[p].domain]] = p]
     \/ Unsent(p) /\ UNCHANGED route
  /\ Goto(p, "list") /\ mu' = Nobody
  /\ UNCHANGED <<retired, served>> /\ JobFrame

\* Register: the POST of the new route; after an error the old one, if there
\* was one, is posted again.
PostRoute(p) ==
  LET id      == RouteId[job[p].domain]
      Posted  == route' = [route EXCEPT ![id] = p]
      AfterError == IF job[p].old = Nobody THEN SetJob(p, IdleJob) /\ mu' = Nobody
                    ELSE Goto(p, "restore") /\ UNCHANGED mu
  IN  /\ At(p, "post")
      /\ \/ Sent(p) /\ Posted /\ Goto(p, "list") /\ mu' = Nobody
         \/ Fails /\ (Posted \/ UNCHANGED route) /\ AfterError
         \/ job[p].cancelled /\ Works /\ UNCHANGED route /\ AfterError
      /\ UNCHANGED <<retired, served>> /\ JobFrame

\* Register: the POST of the saved route, with the same context.
RestoreRoute(p) ==
  LET id == RouteId[job[p].domain]
  IN  /\ At(p, "restore")
      /\ \/ Sent(p) /\ route' = [route EXCEPT ![id] = IF @ = Nobody THEN job[p].old ELSE @]
         \/ Unsent(p) /\ UNCHANGED route
      /\ SetJob(p, IdleJob) /\ mu' = Nobody
      /\ UNCHANGED <<retired, served>> /\ JobFrame

\* The job succeeds.
Succeed(p) == /\ SetJob(p, IdleJob)
              /\ served' = [served EXCEPT ![p] = job[p].domain]

\* cleanupRetiredProxy: ListRetiredProxyDomains.
ListRetired(p) ==
  /\ At(p, "list")
  /\ \/ /\ Works
        /\ SetJob(p, [job[p] EXCEPT !.stage = "cleanup", !.todo = DomainsOf(retired, p)])
        /\ UNCHANGED served
     \/ Fails /\ Succeed(p)
  /\ UNCHANGED <<retired, route, mu>> /\ JobFrame

\* The mark is dropped although the route could not be removed.
DeregisterRetiredIgnoringError(p, d) ==
  /\ At(p, "cleanup") /\ d \in job[p].todo /\ mu = Nobody
  /\ \/ Works /\ DeleteRoute(d)
     \/ DeleteRouteFails(d)
  /\ SetJob(p, [job[p] EXCEPT !.todo = @ \ {d}, !.stage = "unmark", !.current = d])
  /\ UNCHANGED <<retired, mu, served>> /\ JobFrame

\* cleanupRetiredProxy: a route that could not be removed keeps its mark.
DeregisterRetired(p, d) ==
  LET rest == [job[p] EXCEPT !.todo = @ \ {d}]
  IN  /\ At(p, "cleanup") /\ d \in job[p].todo /\ mu = Nobody
      /\ \/ Works /\ DeleteRoute(d) /\ SetJob(p, [rest EXCEPT !.stage = "unmark", !.current = d])
         \/ DeleteRouteFails(d) /\ SetJob(p, rest)
      /\ UNCHANGED <<retired, mu, served>> /\ JobFrame

DeleteMark(p) ==
  /\ At(p, "unmark")
  /\ \/ Works /\ retired' = retired \ {<<p, job[p].current>>}
     \/ Fails /\ UNCHANGED retired
  /\ SetJob(p, [job[p] EXCEPT !.stage = "cleanup", !.current = NoDomain])
  /\ UNCHANGED <<route, mu, served>> /\ JobFrame

FinishJob(p) ==
  /\ At(p, "cleanup") /\ job[p].todo = {}
  /\ Succeed(p)
  /\ UNCHANGED <<retired, route, mu, failures>> /\ JobFrame

JobStep(p) ==
  \/ Cancel(p)
  \/ RunTarget(p)
  \/ Snapshot(p)
  \/ DeleteOldRoute(p)
  \/ PostRoute(p)
  \/ RestoreRoute(p)
  \/ ListRetired(p)
  \/ \E d \in Domains : DeregisterRetired(p, d)
  \/ DeleteMark(p)
  \/ FinishJob(p)

-----------------------------------------------------------------------------

\* The process dies with its handlers and jobs; Caddy and the tables stay.
Crash ==
  LET unmarked == {h \in Handlers : handler[h].stage = "retire"}
  IN  /\ Fails
      /\ handler' = [h \in Handlers |-> IdleHandler]
      /\ job' = [p \in Projects |-> IdleJob]
      /\ mu' = Nobody
      /\ untracked' = untracked \cup {<<handler[h].project, handler[h].old>> : h \in unmarked}
      /\ UNCHANGED <<domain, retired, route, served, named, withdrawn, requests>>

Next ==
  \/ \E h \in Handlers, p \in Projects :
       \/ \E d \in MaybeDomain : SaveProject(h, p, d)
       \/ SaveUnchanged(h, p)
       \/ DeleteProject(h, p)
       \/ DeployProject(h, p)
  \/ \E h \in Handlers : HandlerStep(h)
  \/ \E p \in Projects : JobStep(p)
  \/ Crash

Spec == Init /\ [][Next]_vars

-----------------------------------------------------------------------------
(* Properties.                                                             *)

\* Between Register's snapshot of a route and its last request nobody else
\* changes that route, so the compensation restores what was there and never
\* resurrects a route that was removed meanwhile: the reason for Caddy.mu.
SnapshotIsCurrent ==
  \A p \in Projects :
    LET id == RouteId[job[p].domain]
    IN  /\ At(p, "delete") => route[id] = job[p].old
        /\ At(p, "post")   => route[id] = Nobody

\* A project whose last job succeeded is reachable at the domain that job
\* registered, whatever was saved, deployed, cancelled or failed since, unless
\* another project was ever given that domain or it was ever withdrawn.
UncontestedDomainIsServed ==
  \A p \in Projects, d \in Domains :
    /\ served[p] = d
    /\ \A q \in Projects, e \in Domains :
         RouteId[e] = RouteId[d] => /\ <<q, e>> \in named => q = p
                                    /\ <<q, e>> \notin withdrawn
    => route[RouteId[d]] = p

\* "Retired domains are tracked and cleaned up after a domain change, so stale
\* routes don't linger" (docs/winify-walkthrough.md): a route of a project that
\* is not for its domain is marked for removal, or about to be, except those
\* the code can forget: a mark that was not written, a save over a domain
\* the handler had not read, a job triggered with an outdated domain, and a
\* deleted project.
StaleRouteIsTracked ==
  \A p \in Projects, d \in Domains :
    route[RouteId[d]] = p =>
      \/ domain[p] # NotFound /\ domain[p] # NoDomain /\ RouteId[domain[p]] = RouteId[d]
      \/ \E e \in Domains : /\ RouteId[e] = RouteId[d]
                            /\ <<p, e>> \in retired \cup untracked
      \/ \E h \in Handlers : /\ handler[h].stage = "retire" /\ handler[h].project = p
                             /\ RouteId[handler[h].old] = RouteId[d]

\* A job forgets a retired domain only when no route of its project is left
\* under it, so a removal that failed is tried again by the next deployment.
MarkOutlivesRoute ==
  [][\A p \in Projects, d \in Domains :
       /\ <<p, d>> \in retired /\ <<p, d>> \notin retired'
       /\ job'[p] # job[p]
       => route[RouteId[d]] # p]_retired

\* "Keeping the old route until then avoids an outage while a project is being
\* reconfigured" (internal/models/store.go): a project that was deployed to a
\* domain, still has one and is not being deleted is not left without any route
\* after a successful job.
DeployedProjectIsReachable ==
  \A p \in Projects :
    /\ served[p] # NoDomain /\ domain[p] \in Domains
    /\ \A h \in Handlers : handler[h].stage \in {"deregister", "drop"} => handler[h].project # p
    => \E r \in RouteIds : route[r] = p

\* "The previous route is snapshotted and restored if the replacement is
\* rejected, so a project does not go offline on failure" (docs/
\* system-design.md): a Register that gives up leaves the host with a route.
RegistrationIsCompensated ==
  [][\A p \in Projects :
       job[p].stage \in {"delete", "post", "restore"} /\ job'[p].stage = "idle"
       /\ job[p].old # Nobody => route'[RouteId[job[p].domain]] # Nobody]_job
=============================================================================
