-------------------------- MODULE ProxyRoutes_proofs --------------------------
(***************************************************************************)
(* Proofs about public routes, for any projects, handlers, domains and     *)
(* spellings of them, and for any bounds.                                  *)
(*                                                                         *)
(* LockInv says who is inside Caddy.Register; with it nobody else touches  *)
(* a route while its snapshot is in use (SnapshotIsCurrent).  TrackedInv   *)
(* follows a route that is not for the configured domain from the save     *)
(* that outdated it to the mark that removes it, and through a snapshot    *)
(* that may bring it back.  ServedInv relates the domain the last job left *)
(* public to the histories of the names.                                   *)
(***************************************************************************)
EXTENDS ProxyRoutes, TLAPS

Registering == {"delete", "post", "restore"}

\* What the stages of handlers and jobs say about their fields.
ShapeInv ==
  /\ \A h \in Handlers :
       /\ handler[h].stage # "idle" => handler[h].project \in Projects
       /\ handler[h].stage \in {"retire", "deregister"} => handler[h].old \in Domains
  /\ \A p \in Projects :
       /\ job[p].stage \in Registering \cup {"register"} => job[p].domain \in Domains
       /\ job[p].stage = "unmark" => job[p].current \in Domains

\* Caddy.mu is held by the job that is between its snapshot and its last request.
LockInv == \A p \in Projects : job[p].stage \in Registering <=> mu = p

RInv == TypeOK /\ ShapeInv /\ LockInv /\ SnapshotIsCurrent

\* The route of d for p is the configured one, or is marked, about to be, or forgotten.
Tracked(p, d) ==
  \/ domain[p] # NotFound /\ domain[p] # NoDomain /\ RouteId[domain[p]] = RouteId[d]
  \/ \E e \in Domains : RouteId[e] = RouteId[d] /\ <<p, e>> \in retired \cup untracked
  \/ \E h \in Handlers : /\ handler[h].stage = "retire" /\ handler[h].project = p
                         /\ RouteId[handler[h].old] = RouteId[d]

\* Caddy has the route of d for p, or a job may still post it.
MayBeRouted(p, d) ==
  \/ route[RouteId[d]] = p
  \/ job[p].stage \in {"target", "register", "delete", "post"} /\ job[p].domain = d
  \/ \E q \in Projects : job[q].stage \in Registering /\ job[q].old = p /\ job[q].domain = d

TrackedInv ==
  /\ \A p \in Projects, d \in Domains : MayBeRouted(p, d) => Tracked(p, d)
  /\ \A p \in Projects : job[p].stage = "unmark" =>
       /\ route[RouteId[job[p].current]] # p
       /\ \A q \in Projects : /\ job[q].stage \in Registering
                              /\ RouteId[job[q].domain] = RouteId[job[p].current]
                              => job[q].old # p
  /\ \A h \in Handlers : handler[h].stage = "clear" => Of(handler[h].project) \subseteq untracked

\* Nobody but p was ever given the route of d, and it was never withdrawn.
Uncontested(p, d) ==
  \A q \in Projects, e \in Domains :
    RouteId[e] = RouteId[d] => /\ <<q, e>> \in named => q = p
                               /\ <<q, e>> \notin withdrawn

\* The last job of p left d public, or the current one has and cleans up.
Public(p, d) ==
  \/ served[p] = d
  \/ job[p].stage \in {"list", "cleanup", "unmark"} /\ job[p].domain = d

\* What was saved, started or marked is in the histories.
NamesInv ==
  /\ \A p \in Projects : domain[p] \in Domains => <<p, domain[p]>> \in named
  /\ \A h \in Handlers : handler[h].stage = "trigger" /\ handler[h].old \in Domains
                           => <<handler[h].project, handler[h].old>> \in named
  /\ \A p \in Projects :
       /\ job[p].domain \in Domains => <<p, job[p].domain>> \in named
       /\ {p} \X job[p].todo \subseteq withdrawn
       /\ job[p].stage # "idle" => served[p] = NoDomain
  /\ retired \subseteq withdrawn

ServedInv ==
  /\ NamesInv
  /\ \A p \in Projects, d \in Domains :
       Uncontested(p, d) /\ Public(p, d) => route[RouteId[d]] = p

-----------------------------------------------------------------------------
(* Types, and the mutual exclusion of Caddy.Register.                      *)

\* TypeOK without the handlers, the jobs and the lock.
TablesOK ==
  /\ domain   \in [Projects -> MaybeDomain \cup {NotFound}]
  /\ route    \in [RouteIds -> Projects \cup {Nobody}]
  /\ served   \in [Projects -> MaybeDomain]
  /\ {retired, named, withdrawn, untracked} \subseteq Marks
  /\ requests \in 0..MaxRequests
  /\ failures \in 0..MaxFailures

\* A call that works or fails keeps the count within its bound.
LEMMA FailureCount ==
  ASSUME TypeOK, Works \/ Fails
  PROVE  failures' \in 0..MaxFailures
  BY RouteBounds DEF TypeOK, Works, Fails

\* A request to Caddy changes the route of one id.
LEMMA RouteUpdate ==
  ASSUME TypeOK, NEW d \in Domains, NEW x \in Projects \cup {Nobody},
         route' = [route EXCEPT ![RouteId[d]] = x]
  PROVE  /\ route' \in [RouteIds -> Projects \cup {Nobody}]
         /\ RouteId[d] \in RouteIds /\ route'[RouteId[d]] = x
         /\ \A r \in RouteIds \ {RouteId[d]} : route'[r] = route[r]
  BY RoutesAssumption DEF TypeOK

LEMMA IdleTypes == IdleHandler \in Handler /\ IdleJob \in Job
  BY DEF IdleHandler, Handler, IdleJob, Job, MaybeDomain

HandlerShape(w) ==
  /\ w.stage # "idle" => w.project \in Projects
  /\ w.stage \in {"retire", "deregister"} => w.old \in Domains

JobShape(j) ==
  /\ j.stage \in Registering \cup {"register"} => j.domain \in Domains
  /\ j.stage = "unmark" => j.current \in Domains

\* A step of one handler that leaves the jobs alone.
LEMMA OneHandler ==
  ASSUME RInv, NEW h \in Handlers, NEW new \in Handler, SetHandler(h, new),
         HandlerShape(new), TablesOK', UNCHANGED <<job, mu>>, mu = Nobody \/ route' = route
  PROVE  RInv'
<1>1. /\ handler' \in [Handlers -> Handler] /\ handler'[h] = new
      /\ \A g \in Handlers \ {h} : handler'[g] = handler[g]
  BY DEF RInv, TypeOK, SetHandler
<1>2. TypeOK'
  BY <1>1 DEF RInv, TypeOK, TablesOK
<1>3. ShapeInv'
  BY <1>1 DEF RInv, ShapeInv, HandlerShape
<1>4. LockInv'
  BY DEF RInv, LockInv
<1>5. SnapshotIsCurrent'
  <2>1. CASE route' = route
    BY <2>1 DEF RInv, SnapshotIsCurrent, At
  <2>2. CASE mu = Nobody
    <3>1. \A p \in Projects : job[p].stage \notin Registering
      BY <2>2, RoutesAssumption DEF RInv, LockInv
    <3>2. QED
      BY <3>1 DEF SnapshotIsCurrent, At, Registering
  <2>3. QED
    BY <2>1, <2>2
<1>6. QED
  BY <1>2, <1>3, <1>4, <1>5 DEF RInv

\* A step of one job.
LEMMA OneJob ==
  ASSUME RInv, NEW p \in Projects, NEW new \in Job, SetJob(p, new), JobShape(new), TablesOK',
         UNCHANGED handler, mu' \in Projects \cup {Nobody},
         new.stage \in Registering <=> mu' = p,
         mu' # mu => mu' \in {p, Nobody} /\ mu \in {p, Nobody},
         mu \in {p, Nobody} \/ route' = route,
         new.stage = "delete" => route'[RouteId[new.domain]] = new.old,
         new.stage = "post" => route'[RouteId[new.domain]] = Nobody
  PROVE  RInv'
<1>1. /\ job' \in [Projects -> Job] /\ job'[p] = new
      /\ \A q \in Projects \ {p} : job'[q] = job[q]
  BY DEF RInv, TypeOK, SetJob
<1>2. TypeOK'
  BY <1>1 DEF RInv, TypeOK, TablesOK
<1>3. ShapeInv'
  BY <1>1 DEF RInv, ShapeInv, JobShape
<1>4. LockInv'
  BY <1>1, RoutesAssumption DEF RInv, LockInv
<1>5. SnapshotIsCurrent'
  <2> SUFFICES ASSUME NEW q \in Projects
               PROVE  /\ At(q, "delete")' => route'[RouteId[job'[q].domain]] = job'[q].old
                      /\ At(q, "post")' => route'[RouteId[job'[q].domain]] = Nobody
    BY DEF SnapshotIsCurrent
  <2>1. CASE q = p
    BY <1>1, <2>1 DEF At
  <2>2. CASE q # p
    <3>1. job[q].stage \in Registering => mu = q /\ route' = route
      BY <2>2, RoutesAssumption DEF RInv, LockInv
    <3>2. QED
      BY <1>1, <2>2, <3>1 DEF RInv, SnapshotIsCurrent, At, Registering
  <2>3. QED
    BY <2>1, <2>2
<1>6. QED
  BY <1>2, <1>3, <1>4, <1>5 DEF RInv

\* A request reaches its handler.
LEMMA ReadKeeps ==
  ASSUME RInv, NEW h \in Handlers, NEW p \in Projects,
         NEW stage \in {"upsert", "deregister", "drop", "trigger"},
         NEW old \in MaybeDomain, NEW new \in MaybeDomain,
         stage = "deregister" => old \in Domains, Works \/ Fails,
         Read(h, p, stage, old, new)
  PROVE  RInv'
<1> DEFINE w == [stage |-> stage, project |-> p, old |-> old, new |-> new]
<1>1. w \in Handler /\ HandlerShape(w)
  BY DEF Handler, HandlerShape
<1>2. requests' \in 0..MaxRequests
  BY RouteBounds DEF RInv, TypeOK, Read
<1>3. TablesOK'
  BY <1>2, FailureCount DEF RInv, TypeOK, TablesOK, Read
<1>4. SetHandler(h, w) /\ UNCHANGED <<job, mu, route>>
  BY DEF Read
<1>5. QED
  <2> HIDE DEF w
  <2> QED  BY <1>1, <1>3, <1>4, OneHandler

LEMMA RequestKeeps ==
  ASSUME RInv, NEW h \in Handlers, NEW p \in Projects,
         \/ \E d \in MaybeDomain : SaveProject(h, p, d)
         \/ SaveUnchanged(h, p)
         \/ DeleteProject(h, p)
         \/ DeployProject(h, p)
  PROVE  RInv'
<1>1. Seen(p) \in MaybeDomain /\ NoDomain \in MaybeDomain
      /\ (domain[p] # NotFound => domain[p] \in MaybeDomain)
  BY DEF RInv, TypeOK, Seen, MaybeDomain
<1>2. ASSUME NEW d \in MaybeDomain, SaveProject(h, p, d)
      PROVE  RInv'
  BY <1>1, <1>2, ReadKeeps DEF SaveProject
<1>3. CASE SaveUnchanged(h, p)
  BY <1>1, <1>3, ReadKeeps DEF SaveUnchanged
<1>4. CASE DeleteProject(h, p)
  BY <1>1, <1>4, ReadKeeps DEF DeleteProject, MaybeDomain
<1>5. CASE DeployProject(h, p)
  BY <1>1, <1>5, ReadKeeps DEF DeployProject
<1>6. QED
  BY <1>2, <1>3, <1>4, <1>5

LEMMA HandlerKeeps ==
  ASSUME RInv, NEW h \in Handlers, HandlerStep(h)
  PROVE  RInv'
<1>0. TypeOK /\ ShapeInv /\ handler[h] \in Handler
  BY DEF RInv, TypeOK
<1>i. HandlerShape(IdleHandler)
  BY DEF HandlerShape, IdleHandler
<1>1. CASE UpsertProject(h)
  <2> DEFINE w == [handler[h] EXCEPT !.stage = "retire"]
  <2>1. handler[h].project \in Projects /\ w \in Handler
        /\ (handler[h].old \notin {NoDomain, handler[h].new} => HandlerShape(w))
    BY <1>0, <1>1 DEF UpsertProject, ShapeInv, Handler, HandlerShape, MaybeDomain
  <2>2. TablesOK'
    <3>1. \A d : Known(handler[h].project, d) \in Marks
      BY <2>1 DEF Known, Marks
    <3>2. failures' \in 0..MaxFailures
      BY <1>0, <1>1, FailureCount DEF UpsertProject
    <3>3. handler[h].new \in MaybeDomain
      BY <1>0 DEF Handler
    <3>4. QED
      BY <1>0, <1>1, <2>1, <3>1, <3>2, <3>3 DEF UpsertProject, TypeOK, TablesOK, Marks
  <2>3. /\ \/ SetHandler(h, IdleHandler)
           \/ handler[h].old \notin {NoDomain, handler[h].new} /\ SetHandler(h, w)
        /\ UNCHANGED <<job, mu, route>>
    BY <1>1 DEF UpsertProject
  <2>4. QED
    <3> HIDE DEF w
    <3> QED  BY <1>i, <2>1, <2>2, <2>3, IdleTypes, OneHandler
<1>2. CASE RetireProxyDomain(h)
  <2>1. <<handler[h].project, handler[h].old>> \in Projects \X Domains
    BY <1>0, <1>2 DEF RetireProxyDomain, ShapeInv
  <2>2. TablesOK'
    BY <1>0, <1>2, <2>1, FailureCount DEF RetireProxyDomain, TypeOK, TablesOK, Marks
  <2>3. SetHandler(h, IdleHandler) /\ UNCHANGED <<job, mu, route>>
    BY <1>2 DEF RetireProxyDomain
  <2>4. QED
    BY <1>i, <2>2, <2>3, IdleTypes, OneHandler
<1>3. CASE DeregisterDeleted(h)
  <2> DEFINE w == [handler[h] EXCEPT !.stage = "drop"]
  <2>1. handler[h].project \in Projects /\ handler[h].old \in Domains /\ w \in Handler
        /\ HandlerShape(w)
    BY <1>0, <1>3 DEF DeregisterDeleted, ShapeInv, Handler, HandlerShape
  <2>2. route' \in [RouteIds -> Projects \cup {Nobody}]
    BY <1>0, <1>3, <2>1, RouteUpdate DEF DeregisterDeleted, DeleteRoute, DeleteRouteFails, TypeOK
  <2>3. TablesOK'
    BY <1>0, <1>3, <2>1, <2>2, FailureCount
    DEF DeregisterDeleted, DeleteRouteFails, TypeOK, TablesOK, Marks
  <2>4. (SetHandler(h, IdleHandler) \/ SetHandler(h, w)) /\ UNCHANGED <<job, mu>> /\ mu = Nobody
    BY <1>3 DEF DeregisterDeleted
  <2>5. QED
    <3> HIDE DEF w
    <3> QED  BY <1>i, <2>1, <2>3, <2>4, IdleTypes, OneHandler
<1>4. CASE DropProject(h)
  <2> DEFINE w == [handler[h] EXCEPT !.stage = "clear"]
  <2>1. handler[h].project \in Projects /\ w \in Handler /\ HandlerShape(w)
    BY <1>0, <1>4 DEF DropProject, ShapeInv, Handler, HandlerShape
  <2>2. TablesOK'
    BY <1>0, <1>4, <2>1, FailureCount DEF DropProject, TypeOK, TablesOK, Marks, Of
  <2>3. (SetHandler(h, IdleHandler) \/ SetHandler(h, w)) /\ UNCHANGED <<job, mu, route>>
    BY <1>4 DEF DropProject
  <2>4. QED
    <3> HIDE DEF w
    <3> QED  BY <1>i, <2>1, <2>2, <2>3, IdleTypes, OneHandler
<1>5. CASE ClearRetired(h)
  <2>1. TablesOK'
    BY <1>0, <1>5, FailureCount DEF ClearRetired, TypeOK, TablesOK, Marks, history
  <2>2. SetHandler(h, IdleHandler) /\ UNCHANGED <<job, mu, route>>
    BY <1>5 DEF ClearRetired
  <2>3. QED
    BY <1>i, <2>1, <2>2, IdleTypes, OneHandler
<1>6. CASE Trigger(h)
  <2> DEFINE p == handler[h].project
             started == [IdleJob EXCEPT !.stage = "target", !.domain = handler[h].old]
  <2>1. /\ p \in Projects /\ handler[h].old \in MaybeDomain
        /\ SetHandler(h, IdleHandler) /\ UNCHANGED <<route, mu>>
        /\ Known(p, handler[h].old) \in Marks
    BY <1>0, <1>6 DEF Trigger, ShapeInv, Handler, Known, Marks
  <2>2. TablesOK'
    BY <1>0, <1>6, <2>1 DEF Trigger, TypeOK, TablesOK, Marks, MaybeDomain
  <2>3. CASE UNCHANGED job
    BY <1>i, <2>1, <2>2, <2>3, IdleTypes, OneHandler
  <2>4. CASE job[p].stage = "idle" /\ SetJob(p, started)
    <3>1. started \in Job /\ started.stage = "target"
      BY <2>1, IdleTypes DEF Job, IdleJob
    <3>2. /\ job' \in [Projects -> Job] /\ job'[p] = started
          /\ \A q \in Projects \ {p} : job'[q] = job[q]
      BY <1>0, <2>1, <2>4, <3>1 DEF TypeOK, SetJob
    <3>3. /\ handler' \in [Handlers -> Handler] /\ handler'[h] = IdleHandler
          /\ \A g \in Handlers \ {h} : handler'[g] = handler[g]
      BY <1>0, <2>1, IdleTypes DEF TypeOK, SetHandler
    <3> HIDE DEF started, p
    <3>4. TypeOK'
      BY <1>0, <2>1, <2>2, <3>2, <3>3 DEF TypeOK, TablesOK
    <3>5. ShapeInv'
      BY <1>0, <3>1, <3>2, <3>3 DEF ShapeInv, Registering, IdleHandler
    <3>6. LockInv'
      BY <2>1, <2>4, <3>1, <3>2 DEF RInv, LockInv, Registering
    <3>7. SnapshotIsCurrent'
      BY <2>1, <3>1, <3>2 DEF RInv, SnapshotIsCurrent, At
    <3>8. QED
      BY <3>4, <3>5, <3>6, <3>7 DEF RInv
  <2>5. QED
    BY <1>6, <2>3, <2>4 DEF Trigger
<1>7. QED
  BY <1>1, <1>2, <1>3, <1>4, <1>5, <1>6 DEF HandlerStep

LEMMA JobKeeps ==
  ASSUME RInv, NEW p \in Projects, JobStep(p)
  PROVE  RInv'
<1>0. /\ TypeOK /\ job[p] \in Job
      /\ JobShape(job[p]) /\ (job[p].stage \in Registering <=> mu = p)
      /\ IdleJob \in Job /\ IdleJob.stage = "idle" /\ JobShape(IdleJob)
      /\ p # Nobody /\ Nobody \in Projects \cup {Nobody}
  BY IdleTypes, RoutesAssumption
  DEF RInv, TypeOK, ShapeInv, LockInv, JobShape, IdleJob, Registering
<1>1. CASE Cancel(p)
  <2> DEFINE new == [job[p] EXCEPT !.cancelled = TRUE]
  <2>1. /\ new \in Job /\ new.stage = job[p].stage /\ new.domain = job[p].domain
        /\ new.old = job[p].old /\ new.current = job[p].current
    BY <1>0 DEF Job
  <2>2. SetJob(p, new) /\ UNCHANGED <<retired, route, mu, served, failures, handler>>
    BY <1>1 DEF Cancel, JobFrame
  <2>3. TablesOK'
    BY <1>0, <1>1, <2>2 DEF Cancel, JobFrame, TypeOK, TablesOK
  <2> HIDE DEF new
  <2>4. JobShape(new) /\ (new.stage \in Registering <=> mu' = p)
    BY <1>0, <2>1, <2>2 DEF JobShape
  <2>5. /\ new.stage = "delete" => route'[RouteId[new.domain]] = new.old
        /\ new.stage = "post" => route'[RouteId[new.domain]] = Nobody
    BY <2>1, <2>2 DEF RInv, SnapshotIsCurrent, At
  <2>6. mu' \in Projects \cup {Nobody}
    BY <1>0, <2>2 DEF TypeOK
  <2>7. QED
    BY <2>1, <2>2, <2>3, <2>4, <2>5, <2>6, OneJob
<1>2. CASE RunTarget(p)
  <2> DEFINE new == [job[p] EXCEPT !.stage = IF job[p].domain = NoDomain THEN "list"
                                             ELSE "register"]
  <2>1. new \in Job /\ new.stage \in {"list", "register"} /\ JobShape(new)
    BY <1>0 DEF Job, JobShape, Registering, MaybeDomain
  <2>2. (SetJob(p, new) \/ SetJob(p, IdleJob)) /\ UNCHANGED <<route, mu, handler>>
    BY <1>2 DEF RunTarget, JobFrame, Goto
  <2>3. TablesOK' /\ mu # p /\ mu \in Projects \cup {Nobody}
    BY <1>0, <1>2 DEF RunTarget, JobFrame, TypeOK, TablesOK, At, Registering
  <2> HIDE DEF new
  <2>4. QED
    BY <1>0, <2>1, <2>2, <2>3, OneJob DEF Registering
<1>3. CASE Snapshot(p)
  <2> DEFINE new == [job[p] EXCEPT !.stage = "delete", !.old = route[RouteId[job[p].domain]]]
  <2>1. job[p].domain \in Domains
    BY <1>0, <1>3 DEF Snapshot, At, JobShape
  <2>2. /\ new \in Job /\ new.stage = "delete" /\ new.old = route[RouteId[new.domain]]
        /\ new.domain = job[p].domain
    BY <1>0, <2>1, RoutesAssumption DEF Job, TypeOK
  <2>3. \/ SetJob(p, new) /\ mu' = p
        \/ SetJob(p, IdleJob) /\ mu' = Nobody
    BY <1>3 DEF Snapshot
  <2>4. TablesOK' /\ mu = Nobody /\ UNCHANGED <<route, handler>>
    BY <1>0, <1>3, FailureCount DEF Snapshot, JobFrame, Sent, Unsent, Works, TypeOK, TablesOK
  <2> HIDE DEF new
  <2>5. JobShape(new)
    BY <2>1, <2>2 DEF JobShape
  <2>6. CASE SetJob(p, new) /\ mu' = p
    BY <1>0, <2>2, <2>4, <2>5, <2>6, OneJob DEF Registering
  <2>7. CASE SetJob(p, IdleJob) /\ mu' = Nobody
    BY <1>0, <2>4, <2>7, OneJob DEF Registering
  <2>8. QED
    BY <2>3, <2>6, <2>7
<1>4. CASE DeleteOldRoute(p)
  <2> DEFINE new == [job[p] EXCEPT !.stage = "post"]
  <2>1. job[p].domain \in Domains /\ mu = p
    BY <1>0, <1>4 DEF DeleteOldRoute, At, JobShape, Registering
  <2>2. new \in Job /\ new.stage = "post" /\ new.domain = job[p].domain
    BY <1>0 DEF Job
  <2>3. route' = route \/ DeleteRoute(job[p].domain)
    BY <1>4 DEF DeleteOldRoute, DeleteRouteFails
  <2>4. \/ SetJob(p, new) /\ mu' = mu /\ DeleteRoute(job[p].domain)
        \/ SetJob(p, IdleJob) /\ mu' = Nobody
    BY <1>4 DEF DeleteOldRoute, Goto
  <2>5. route' \in [RouteIds -> Projects \cup {Nobody}]
        /\ (DeleteRoute(job[p].domain) => route'[RouteId[job[p].domain]] = Nobody)
    BY <1>0, <2>1, <2>3, RouteUpdate DEF DeleteRoute, TypeOK
  <2>6. TablesOK' /\ UNCHANGED handler
    BY <1>0, <1>4, <2>5, FailureCount
    DEF DeleteOldRoute, DeleteRouteFails, JobFrame, Sent, Works, TypeOK, TablesOK
  <2> HIDE DEF new
  <2>7. CASE SetJob(p, new) /\ mu' = mu /\ DeleteRoute(job[p].domain)
    <3>1. JobShape(new) /\ route'[RouteId[new.domain]] = Nobody
      BY <2>1, <2>2, <2>5, <2>7 DEF JobShape
    <3>2. QED
      BY <1>0, <2>1, <2>2, <2>6, <2>7, <3>1, OneJob DEF Registering
  <2>8. CASE SetJob(p, IdleJob) /\ mu' = Nobody
    BY <1>0, <2>1, <2>6, <2>8, OneJob DEF Registering
  <2>9. QED
    BY <2>4, <2>7, <2>8
<1>5. CASE PostRoute(p)
  <2> DEFINE listed   == [job[p] EXCEPT !.stage = "list"]
             restored == [job[p] EXCEPT !.stage = "restore"]
  <2>1. job[p].domain \in Domains /\ mu = p
    BY <1>0, <1>5 DEF PostRoute, At, JobShape, Registering
  <2>2. /\ listed \in Job /\ listed.stage = "list"
        /\ restored \in Job /\ restored.stage = "restore" /\ restored.domain = job[p].domain
    BY <1>0 DEF Job
  <2>3. /\ \/ route' = route
           \/ route' = [route EXCEPT ![RouteId[job[p].domain]] = p]
        /\ \/ SetJob(p, listed) /\ mu' = Nobody
           \/ SetJob(p, restored) /\ mu' = mu
           \/ SetJob(p, IdleJob) /\ mu' = Nobody
    BY <1>5 DEF PostRoute, Goto
  <2>4. route' \in [RouteIds -> Projects \cup {Nobody}]
    BY <1>0, <2>1, <2>3, RouteUpdate DEF TypeOK
  <2>5. TablesOK' /\ UNCHANGED handler
    BY <1>0, <1>5, <2>4, FailureCount DEF PostRoute, JobFrame, Sent, Works, TypeOK, TablesOK
  <2> HIDE DEF listed, restored
  <2>6. JobShape(listed) /\ JobShape(restored)
    BY <2>1, <2>2 DEF JobShape, Registering
  <2>7. QED
    BY <1>0, <2>1, <2>2, <2>3, <2>5, <2>6, OneJob DEF Registering
<1>6. CASE RestoreRoute(p)
  <2>1. job[p].domain \in Domains /\ mu = p
    BY <1>0, <1>6 DEF RestoreRoute, At, JobShape, Registering
  <2>2. route' = route \/ \E x \in Projects \cup {Nobody} :
                            route' = [route EXCEPT ![RouteId[job[p].domain]] = x]
    BY <1>0, <1>6, <2>1, RoutesAssumption DEF RestoreRoute, TypeOK, Job
  <2>3. route' \in [RouteIds -> Projects \cup {Nobody}]
    BY <1>0, <2>1, <2>2, RouteUpdate DEF TypeOK
  <2>4. TablesOK' /\ UNCHANGED handler /\ SetJob(p, IdleJob) /\ mu' = Nobody
    BY <1>0, <1>6, <2>3, FailureCount
    DEF RestoreRoute, JobFrame, Sent, Unsent, Works, TypeOK, TablesOK
  <2>5. QED
    BY <1>0, <2>1, <2>4, OneJob DEF Registering
<1>7. CASE ListRetired(p) \/ FinishJob(p)
  <2> DEFINE new == [job[p] EXCEPT !.stage = "cleanup", !.todo = DomainsOf(retired, p)]
  <2>1. new \in Job /\ new.stage = "cleanup"
    BY <1>0 DEF Job, DomainsOf
  <2>2. /\ SetJob(p, new) \/ SetJob(p, IdleJob)
        /\ mu # p /\ UNCHANGED <<route, mu, handler>>
    BY <1>0, <1>7 DEF ListRetired, FinishJob, Succeed, JobFrame, At, Registering
  <2>3. served' \in [Projects -> MaybeDomain]
    BY <1>0, <1>7 DEF ListRetired, FinishJob, Succeed, TypeOK, Job
  <2>4. TablesOK' /\ mu \in Projects \cup {Nobody}
    BY <1>0, <1>7, <2>3, FailureCount DEF ListRetired, FinishJob, JobFrame, TypeOK, TablesOK
  <2> HIDE DEF new
  <2>5. JobShape(new)
    BY <2>1 DEF JobShape, Registering
  <2>6. QED
    BY <1>0, <2>1, <2>2, <2>4, <2>5, OneJob DEF Registering
<1>8. ASSUME NEW d \in Domains, DeregisterRetired(p, d)
      PROVE  RInv'
  <2> DEFINE rest   == [job[p] EXCEPT !.todo = @ \ {d}]
             unmark == [rest EXCEPT !.stage = "unmark", !.current = d]
  <2>1. /\ rest \in Job /\ rest.stage = job[p].stage
        /\ unmark \in Job /\ unmark.stage = "unmark" /\ unmark.current = d
    BY <1>0 DEF Job, MaybeDomain
  <2>2. job[p].stage = "cleanup" /\ mu = Nobody /\ mu' = Nobody
    BY <1>8 DEF DeregisterRetired, At
  <2>3. route' = route \/ DeleteRoute(d)
    BY <1>8 DEF DeregisterRetired, DeleteRouteFails
  <2>4. route' \in [RouteIds -> Projects \cup {Nobody}]
    BY <1>0, <2>3, RouteUpdate DEF DeleteRoute, TypeOK
  <2>5. TablesOK' /\ UNCHANGED handler
    BY <1>0, <1>8, <2>4, FailureCount
    DEF DeregisterRetired, DeleteRouteFails, JobFrame, TypeOK, TablesOK
  <2>6. SetJob(p, rest) \/ SetJob(p, unmark)
    BY <1>8 DEF DeregisterRetired
  <2> HIDE DEF rest, unmark
  <2>7. JobShape(rest) /\ JobShape(unmark)
    BY <2>1, <2>2 DEF JobShape, Registering
  <2>8. QED
    BY <1>0, <2>1, <2>2, <2>5, <2>6, <2>7, OneJob DEF Registering
<1>9. CASE DeleteMark(p)
  <2> DEFINE new == [job[p] EXCEPT !.stage = "cleanup", !.current = NoDomain]
  <2>1. new \in Job /\ new.stage = "cleanup"
    BY <1>0 DEF Job, MaybeDomain
  <2>2. SetJob(p, new) /\ UNCHANGED <<route, mu, handler>> /\ mu # p
    BY <1>0, <1>9 DEF DeleteMark, JobFrame, At, Registering
  <2>3. TablesOK' /\ mu \in Projects \cup {Nobody}
    BY <1>0, <1>9, FailureCount DEF DeleteMark, JobFrame, TypeOK, TablesOK, Marks
  <2> HIDE DEF new
  <2>4. JobShape(new)
    BY <2>1 DEF JobShape, Registering
  <2>5. QED
    BY <1>0, <2>1, <2>2, <2>3, <2>4, OneJob DEF Registering
<1>10. QED
  BY <1>1, <1>2, <1>3, <1>4, <1>5, <1>6, <1>7, <1>8, <1>9 DEF JobStep

LEMMA CrashKeeps ==
  ASSUME RInv, Crash
  PROVE  RInv'
<1>1. /\ \A h \in Handlers : handler'[h] = IdleHandler
      /\ \A p \in Projects : job'[p] = IdleJob
      /\ mu' = Nobody /\ IdleJob.stage = "idle" /\ IdleHandler.stage = "idle"
  BY DEF Crash, IdleJob, IdleHandler
<1>2. untracked' \in Marks
  BY DEF Crash, RInv, TypeOK, ShapeInv, Marks
<1>3. TypeOK'
  BY <1>2, FailureCount, IdleTypes DEF Crash, RInv, TypeOK
<1>4. ShapeInv' /\ LockInv' /\ SnapshotIsCurrent'
  BY <1>1, RoutesAssumption DEF ShapeInv, LockInv, SnapshotIsCurrent, At, Registering
<1>5. QED
  BY <1>3, <1>4 DEF RInv

LEMMA InitRInv == Init => RInv
<1> SUFFICES ASSUME Init PROVE RInv
  OBVIOUS
<1>1. TypeOK
  BY RouteBounds, IdleTypes DEF Init, TypeOK, Marks, MaybeDomain
<1>2. ShapeInv /\ LockInv /\ SnapshotIsCurrent
  BY RoutesAssumption
  DEF Init, ShapeInv, LockInv, SnapshotIsCurrent, At, IdleHandler, IdleJob, Registering
<1>3. QED
  BY <1>1, <1>2 DEF RInv

LEMMA NextRInv == RInv /\ [Next]_vars => RInv'
<1>1. ASSUME RInv, UNCHANGED vars
      PROVE  RInv'
  BY <1>1 DEF vars, history, RInv, TypeOK, ShapeInv, LockInv, SnapshotIsCurrent, At
<1>2. QED
  BY <1>1, RequestKeeps, HandlerKeeps, JobKeeps, CrashKeeps DEF Next

LEMMA RoutesInvariance == Spec => []RInv
  BY InitRInv, NextRInv, PTL DEF Spec

\* Every variable of the routes keeps its type in every behaviour.
THEOREM RoutesTypeCorrect == Spec => []TypeOK
<1>1. RInv => TypeOK
  BY DEF RInv
<1>2. QED
  BY <1>1, RoutesInvariance, PTL

\* Nobody changes a route between Register's snapshot of it and its last request.
THEOREM SnapshotStaysCurrent == Spec => []SnapshotIsCurrent
<1>1. RInv => SnapshotIsCurrent
  BY DEF RInv
<1>2. QED
  BY <1>1, RoutesInvariance, PTL

-----------------------------------------------------------------------------
(* What a job's step does, field by field.                                 *)

\* The job goes to a stage with its domain and its snapshot as they were.
Moved(p, stage) == /\ job'[p].stage = stage
                   /\ job'[p].domain = job[p].domain /\ job'[p].old = job[p].old
                   /\ job'[p].todo = job[p].todo

Ended(p) == job'[p] = IdleJob

\* The route of d is what it was, or x; every other route is what it was.
RouteIs(d, x) == /\ route'[RouteId[d]] = x
                 /\ \A r \in RouteIds \ {RouteId[d]} : route'[r] = route[r]

JobEffect(p) ==
  LET d == job[p].domain
  IN  \/ /\ job[p].stage \in {"target", "register", "delete", "post", "restore"}
         /\ Moved(p, job[p].stage)
         /\ UNCHANGED <<retired, route, served>>
      \/ /\ job[p].stage = "target"
         /\ Moved(p, "register") \/ (d = NoDomain /\ Moved(p, "list")) \/ Ended(p)
         /\ UNCHANGED <<retired, route, served>>
      \/ /\ job[p].stage = "register"
         /\ \/ Ended(p)
            \/ /\ job'[p].stage = "delete" /\ job'[p].domain = d /\ job'[p].todo = job[p].todo
               /\ job'[p].old = route[RouteId[d]]
         /\ UNCHANGED <<retired, route, served>>
      \/ /\ job[p].stage = "delete"
         /\ UNCHANGED route \/ RouteIs(d, Nobody)
         /\ Ended(p) \/ Moved(p, "post")
         /\ UNCHANGED <<retired, served>>
      \/ /\ job[p].stage = "post"
         /\ \/ RouteIs(d, p) /\ Moved(p, "list")
            \/ (UNCHANGED route \/ RouteIs(d, p)) /\ (Ended(p) \/ Moved(p, "restore"))
         /\ UNCHANGED <<retired, served>>
      \/ /\ job[p].stage = "restore" /\ Ended(p)
         /\ UNCHANGED route \/ RouteIs(d, job[p].old)
         /\ UNCHANGED <<retired, served>>
      \/ /\ job[p].stage = "list"
         /\ job'[p].stage = "cleanup" /\ job'[p].domain = d
         /\ job'[p].todo = DomainsOf(retired, p)
         /\ UNCHANGED <<retired, route, served>>
      \/ /\ job[p].stage \in {"list", "cleanup"} /\ Ended(p)
         /\ served' = [served EXCEPT ![p] = d]
         /\ UNCHANGED <<retired, route>>
      \/ /\ job[p].stage = "cleanup" /\ mu = Nobody
         /\ \E e \in job[p].todo :
              \/ /\ UNCHANGED route \/ RouteIs(e, Nobody)
                 /\ job'[p].stage = "cleanup"
              \/ RouteIs(e, Nobody) /\ job'[p].stage = "unmark" /\ job'[p].current = e
         /\ job'[p].domain = d /\ job'[p].todo \subseteq job[p].todo
         /\ UNCHANGED <<retired, served>>
      \/ /\ job[p].stage = "unmark" /\ Moved(p, "cleanup")
         /\ retired' \in {retired, retired \ {<<p, job[p].current>>}}
         /\ UNCHANGED <<route, served>>

LEMMA JobEffects ==
  ASSUME RInv, NEW p \in Projects, JobStep(p)
  PROVE  /\ \A q \in Projects \ {p} : job'[q] = job[q]
         /\ UNCHANGED <<domain, handler, named, withdrawn, untracked>>
         /\ JobEffect(p)
         /\ job'[p].stage = "unmark" => job[p].stage = "cleanup"
<1>0. /\ TypeOK /\ job[p] \in Job /\ JobShape(job[p]) /\ job \in [Projects -> Job]
      /\ IdleJob.stage = "idle"
  BY DEF RInv, TypeOK, ShapeInv, JobShape, IdleJob
<1>1. UNCHANGED <<domain, handler, named, withdrawn, untracked>>
  BY DEF JobStep, Cancel, RunTarget, Snapshot, DeleteOldRoute, PostRoute, RestoreRoute,
     ListRetired, DeregisterRetired, DeleteMark, FinishJob, JobFrame
<1>d. ASSUME NEW e \in Domains, NEW x \in Projects \cup {Nobody},
             route' = [route EXCEPT ![RouteId[e]] = x]
      PROVE  RouteIs(e, x)
  BY <1>0, <1>d, RouteUpdate DEF RouteIs
<1> DEFINE Goal == /\ \A q \in Projects \ {p} : job'[q] = job[q]
                   /\ JobEffect(p)
                   /\ job'[p].stage = "unmark" => job[p].stage = "cleanup"
<1> USE DEF Moved, Ended
<1>3. CASE Cancel(p)
  <2>1. /\ Moved(p, job[p].stage)
        /\ \A q \in Projects \ {p} : job'[q] = job[q]
    BY <1>0, <1>3 DEF SetJob, Cancel, Job
  <2>2. QED
    BY <1>1, <1>3, <2>1 DEF Cancel, JobEffect
<1>4. CASE RunTarget(p)
  <2>1. /\ Moved(p, "register") \/ (job[p].domain = NoDomain /\ Moved(p, "list")) \/ Ended(p)
        /\ \A q \in Projects \ {p} : job'[q] = job[q]
    BY <1>0, <1>4 DEF SetJob, RunTarget, Goto, Job
  <2>2. QED
    BY <1>0, <1>1, <1>4, <2>1 DEF RunTarget, JobEffect, At
<1>5. CASE Snapshot(p)
  <2>1. /\ \/ Ended(p)
           \/ /\ job'[p].stage = "delete" /\ job'[p].domain = job[p].domain
              /\ job'[p].todo = job[p].todo /\ job'[p].old = route[RouteId[job[p].domain]]
        /\ \A q \in Projects \ {p} : job'[q] = job[q]
    <3> DEFINE new == [job[p] EXCEPT !.stage = "delete", !.old = route[RouteId[job[p].domain]]]
    <3>1. /\ new.stage = "delete" /\ new.domain = job[p].domain
          /\ new.todo = job[p].todo /\ new.old = route[RouteId[job[p].domain]]
      BY <1>0 DEF Job
    <3>2. SetJob(p, new) \/ SetJob(p, IdleJob)
      BY <1>5 DEF Snapshot
    <3> HIDE DEF new
    <3>3. QED
      BY <1>0, <3>1, <3>2 DEF SetJob
  <2>2. QED
    BY <1>0, <1>1, <1>5, <2>1 DEF Snapshot, JobEffect, At
<1>6. CASE DeleteOldRoute(p)
  <2>0. job[p].domain \in Domains /\ job[p].stage = "delete"
    BY <1>0, <1>6 DEF DeleteOldRoute, At, JobShape, Registering
  <2>1. /\ Ended(p) \/ Moved(p, "post")
        /\ \A q \in Projects \ {p} : job'[q] = job[q]
    BY <1>0, <1>6 DEF SetJob, DeleteOldRoute, Goto, Job
  <2>2. UNCHANGED route \/ RouteIs(job[p].domain, Nobody)
    BY <1>6, <1>d, <2>0 DEF DeleteOldRoute, DeleteRouteFails, DeleteRoute
  <2>3. QED
    BY <1>0, <1>1, <1>6, <2>0, <2>1, <2>2 DEF DeleteOldRoute, JobEffect
<1>7. CASE PostRoute(p)
  <2>0. job[p].domain \in Domains /\ job[p].stage = "post"
    BY <1>0, <1>7 DEF PostRoute, At, JobShape, Registering
  <2>1. \/ RouteIs(job[p].domain, p) /\ Goto(p, "list")
        \/ /\ UNCHANGED route \/ RouteIs(job[p].domain, p)
           /\ SetJob(p, IdleJob) \/ Goto(p, "restore")
    BY <1>7, <1>d, <2>0 DEF PostRoute
  <2>2. /\ Goto(p, "list") => Moved(p, "list")
        /\ Goto(p, "restore") => Moved(p, "restore")
        /\ \A q \in Projects \ {p} : job'[q] = job[q]
    BY <1>0, <2>1 DEF SetJob, Goto, Job
  <2>3. SetJob(p, IdleJob) => Ended(p)
    BY <1>0 DEF SetJob
  <2>4. QED
    BY <1>0, <1>1, <1>7, <2>0, <2>1, <2>2, <2>3 DEF PostRoute, JobEffect
<1>8. CASE RestoreRoute(p)
  <2>0. job[p].domain \in Domains /\ job[p].stage = "restore"
    BY <1>0, <1>8 DEF RestoreRoute, At, JobShape, Registering
  <2>1. UNCHANGED route \/ RouteIs(job[p].domain, job[p].old)
    <3>1. RouteId[job[p].domain] \in RouteIds /\ route \in [RouteIds -> Projects \cup {Nobody}]
      BY <1>0, <2>0, RoutesAssumption DEF TypeOK
    <3>2. QED
      BY <1>8, <3>1 DEF RestoreRoute, RouteIs
  <2>2. QED
    BY <1>0, <1>1, <1>8, <2>0, <2>1 DEF SetJob, RestoreRoute, JobEffect
<1>9. CASE ListRetired(p)
  <2>0. job[p].stage = "list" /\ UNCHANGED <<retired, route>>
    BY <1>9 DEF ListRetired, At
  <2>1. \/ /\ job'[p].stage = "cleanup" /\ job'[p].domain = job[p].domain
           /\ job'[p].todo = DomainsOf(retired, p) /\ UNCHANGED served
        \/ Ended(p) /\ served' = [served EXCEPT ![p] = job[p].domain]
    <3> DEFINE new == [job[p] EXCEPT !.stage = "cleanup", !.todo = DomainsOf(retired, p)]
    <3>1. /\ new.stage = "cleanup" /\ new.domain = job[p].domain
          /\ new.todo = DomainsOf(retired, p)
      BY <1>0 DEF Job
    <3>2. \/ SetJob(p, new) /\ UNCHANGED served
          \/ SetJob(p, IdleJob) /\ served' = [served EXCEPT ![p] = job[p].domain]
      BY <1>9 DEF ListRetired, Succeed
    <3> HIDE DEF new
    <3>3. QED
      BY <1>0, <3>1, <3>2 DEF SetJob
  <2>2. \A q \in Projects \ {p} : job'[q] = job[q]
    BY <1>0, <1>9 DEF SetJob, ListRetired, Succeed
  <2>3. QED
    BY <1>0, <1>1, <2>0, <2>1, <2>2 DEF JobEffect
<1>10. ASSUME NEW e \in Domains, DeregisterRetired(p, e)
       PROVE  Goal
  <2>0. job[p].stage = "cleanup" /\ e \in job[p].todo /\ mu = Nobody
        /\ UNCHANGED <<retired, served>>
    BY <1>10 DEF DeregisterRetired, At
  <2>1. /\ \/ (UNCHANGED route \/ RouteIs(e, Nobody)) /\ job'[p].stage = "cleanup"
           \/ RouteIs(e, Nobody) /\ job'[p].stage = "unmark" /\ job'[p].current = e
        /\ job'[p].domain = job[p].domain /\ job'[p].todo \subseteq job[p].todo
    <3> DEFINE rest   == [job[p] EXCEPT !.todo = @ \ {e}]
               unmark == [rest EXCEPT !.stage = "unmark", !.current = e]
    <3>1. /\ rest.stage = "cleanup" /\ rest.domain = job[p].domain
          /\ rest.todo \subseteq job[p].todo
          /\ unmark.stage = "unmark" /\ unmark.current = e
          /\ unmark.domain = job[p].domain /\ unmark.todo \subseteq job[p].todo
      BY <1>0, <2>0 DEF Job
    <3>2. \/ DeleteRoute(e) /\ SetJob(p, unmark)
          \/ (UNCHANGED route \/ DeleteRoute(e)) /\ SetJob(p, rest)
      BY <1>10 DEF DeregisterRetired, DeleteRouteFails
    <3>3. DeleteRoute(e) => RouteIs(e, Nobody)
      BY <1>d DEF DeleteRoute
    <3> HIDE DEF rest, unmark
    <3>4. QED
      BY <1>0, <3>1, <3>2, <3>3 DEF SetJob
  <2>2. \A q \in Projects \ {p} : job'[q] = job[q]
    BY <1>0, <1>10 DEF SetJob, DeregisterRetired
  <2>3. QED
    BY <2>0, <2>1, <2>2 DEF JobEffect
<1>11. CASE DeleteMark(p)
  <2>1. /\ Moved(p, "cleanup")
        /\ \A q \in Projects \ {p} : job'[q] = job[q]
    BY <1>0, <1>11 DEF SetJob, DeleteMark, Job
  <2>2. QED
    BY <1>0, <1>1, <1>11, <2>1 DEF DeleteMark, JobEffect, At
<1>12. CASE FinishJob(p)
  BY <1>0, <1>1, <1>12 DEF SetJob, FinishJob, Succeed, JobEffect, At
<1>13. QED
  BY <1>1, <1>3, <1>4, <1>5, <1>6, <1>7, <1>8, <1>9, <1>10, <1>11, <1>12 DEF JobStep

-----------------------------------------------------------------------------
(* Routes that are not for the configured domain.                          *)

\* What has to change for a tracked route to be forgotten: the domain of the
\* project without a mark or a handler that will write it, or a mark.
LEMMA TrackedKept ==
  ASSUME RInv, NEW p \in Projects, NEW d \in Domains, Tracked(p, d),
         \/ domain'[p] = domain[p]
         \/ domain[p] \notin Domains
         \/ <<p, domain[p]>> \in retired' \cup untracked'
         \/ \E h \in Handlers : /\ handler'[h].stage = "retire" /\ handler'[h].project = p
                                /\ handler'[h].old = domain[p],
         \A e \in Domains : RouteId[e] = RouteId[d] /\ <<p, e>> \in retired \cup untracked
                              => <<p, e>> \in retired' \cup untracked',
         \A h \in Handlers : handler[h].stage = "retire" =>
           \/ handler'[h] = handler[h]
           \/ <<handler[h].project, handler[h].old>> \in retired' \cup untracked'
  PROVE  Tracked(p, d)'
<1>1. CASE domain[p] # NotFound /\ domain[p] # NoDomain /\ RouteId[domain[p]] = RouteId[d]
  <2>1. domain[p] \in Domains
    BY <1>1 DEF RInv, TypeOK, MaybeDomain
  <2>2. QED
    BY <1>1, <2>1 DEF Tracked
<1>2. CASE \E e \in Domains : RouteId[e] = RouteId[d] /\ <<p, e>> \in retired \cup untracked
  BY <1>2 DEF Tracked
<1>3. ASSUME NEW h \in Handlers, handler[h].stage = "retire", handler[h].project = p,
             RouteId[handler[h].old] = RouteId[d]
      PROVE  Tracked(p, d)'
  <2>1. handler[h].old \in Domains
    BY <1>3 DEF RInv, ShapeInv
  <2>2. QED
    BY <1>3, <2>1 DEF Tracked
<1>4. QED
  BY <1>1, <1>2, <1>3 DEF Tracked

\* A step that leaves the jobs alone, keeps what is tracked and at most removes
\* a route.
LEMMA HandlerKeepsTracked ==
  ASSUME RInv, TrackedInv, UNCHANGED job,
         \A r \in RouteIds : route'[r] \in {route[r], Nobody},
         \A p \in Projects, d \in Domains : Tracked(p, d) => Tracked(p, d)',
         \A h \in Handlers : handler'[h].stage = "clear" =>
                               Of(handler'[h].project) \subseteq untracked'
  PROVE  TrackedInv'
<1>1. ASSUME NEW p \in Projects, NEW d \in Domains, MayBeRouted(p, d)'
      PROVE  MayBeRouted(p, d)
  BY <1>1, RoutesAssumption DEF MayBeRouted
<1>2. ASSUME NEW p \in Projects, job[p].stage = "unmark"
      PROVE  route'[RouteId[job[p].current]] # p
  BY <1>2, RoutesAssumption DEF TrackedInv, RInv, ShapeInv
<1>3. QED
  BY <1>1, <1>2 DEF TrackedInv

\* Requests only read.
LEMMA RequestKeepsTracked ==
  ASSUME RInv, TrackedInv, NEW h \in Handlers, NEW p \in Projects,
         \/ \E d \in MaybeDomain : SaveProject(h, p, d)
         \/ SaveUnchanged(h, p)
         \/ DeleteProject(h, p)
         \/ DeployProject(h, p)
  PROVE  TrackedInv'
<1>1. PICK stage, old, new :
        stage \in {"upsert", "deregister", "drop", "trigger"} /\ Read(h, p, stage, old, new)
  BY DEF SaveProject, SaveUnchanged, DeleteProject, DeployProject
<1>2. /\ handler[h].stage = "idle" /\ handler'[h].stage = stage
      /\ \A g \in Handlers \ {h} : handler'[g] = handler[g]
      /\ UNCHANGED <<domain, retired, route, job, untracked>>
  BY <1>1 DEF Read, SetHandler, IdleHandler, RInv, TypeOK
<1>3. \A q \in Projects, d \in Domains : Tracked(q, d) => Tracked(q, d)'
  BY <1>2, TrackedKept
<1>4. \A g \in Handlers : handler'[g].stage = "clear" =>
                            Of(handler'[g].project) \subseteq untracked'
  BY <1>1, <1>2 DEF TrackedInv
<1>5. QED
  BY <1>2, <1>3, <1>4, HandlerKeepsTracked

LEMMA HandlerStepKeepsTracked ==
  ASSUME RInv, TrackedInv, NEW h \in Handlers, HandlerStep(h), ~Trigger(h)
  PROVE  TrackedInv'
<1> DEFINE p == handler[h].project
<1>0. /\ TypeOK /\ ShapeInv /\ handler[h] \in Handler /\ handler \in [Handlers -> Handler]
      /\ IdleHandler.stage = "idle" /\ UNCHANGED job
  BY DEF RInv, TypeOK, IdleHandler, HandlerStep, UpsertProject, RetireProxyDomain,
     DeregisterDeleted, DropProject, ClearRetired
<1>1. CASE UpsertProject(h)
  <2> DEFINE w == [handler[h] EXCEPT !.stage = "retire"]
  <2>1. /\ w.stage = "retire" /\ w.project = p /\ w.old = handler[h].old
        /\ p \in Projects /\ handler[h].stage = "upsert"
    BY <1>0, <1>1 DEF UpsertProject, ShapeInv, Handler
  <2>2. SetHandler(h, w) \/ SetHandler(h, IdleHandler)
    BY <1>1 DEF UpsertProject
  <2>3. \/ UNCHANGED <<domain, untracked>>
        \/ /\ domain' = [domain EXCEPT ![p] = handler[h].new]
           /\ domain[p] = handler[h].old =>
                /\ UNCHANGED untracked
                /\ handler[h].old \notin {NoDomain, handler[h].new} => SetHandler(h, w)
           /\ domain[p] # handler[h].old => untracked' = untracked \cup Known(p, domain[p])
    BY <1>1 DEF UpsertProject
  <2>4. UNCHANGED <<retired, route>>
    BY <1>1 DEF UpsertProject
  <2> HIDE DEF w
  <2>5. /\ \A g \in Handlers \ {h} : handler'[g] = handler[g]
        /\ handler'[h].stage # "clear"
        /\ SetHandler(h, w) => handler'[h] = w
    BY <1>0, <2>1, <2>2 DEF SetHandler
  <2>6. ASSUME NEW q \in Projects, NEW d \in Domains, Tracked(q, d)
        PROVE  Tracked(q, d)'
    <3>1. untracked \subseteq untracked'
      BY <2>3
    <3>2. \/ domain'[q] = domain[q]
          \/ domain[q] \notin Domains
          \/ <<q, domain[q]>> \in retired' \cup untracked'
          \/ \E g \in Handlers : /\ handler'[g].stage = "retire" /\ handler'[g].project = q
                                 /\ handler'[g].old = domain[q]
      <4>1. CASE q # p \/ UNCHANGED domain
        BY <1>0, <2>3, <4>1 DEF TypeOK
      <4>2. CASE /\ q = p /\ domain' = [domain EXCEPT ![p] = handler[h].new]
                 /\ domain[p] = handler[h].old
        <5>1. domain'[p] = handler[h].new
          BY <1>0, <2>1, <4>2 DEF TypeOK
        <5>2. CASE handler[h].old \in {NoDomain, handler[h].new}
          BY <4>2, <5>1, <5>2, RoutesAssumption
        <5>3. CASE handler[h].old \notin {NoDomain, handler[h].new}
          <6>1. SetHandler(h, w)
            BY <2>3, <4>2, <5>3, <5>1, <1>1 DEF UpsertProject, w
          <6>2. QED
            BY <2>1, <2>5, <4>2, <6>1
        <5>4. QED
          BY <5>2, <5>3
      <4>3. CASE /\ q = p /\ domain' = [domain EXCEPT ![p] = handler[h].new]
                 /\ domain[p] # handler[h].old /\ ~UNCHANGED domain
        BY <2>3, <4>3 DEF Known
      <4>4. QED
        BY <2>3, <4>1, <4>2, <4>3
    <3>3. \A g \in Handlers : handler[g].stage = "retire" => handler'[g] = handler[g]
      BY <2>1, <2>5
    <3>4. QED
      BY <2>4, <2>6, <3>1, <3>2, <3>3, TrackedKept
  <2>7. \A g \in Handlers : handler'[g].stage = "clear" =>
                              Of(handler'[g].project) \subseteq untracked'
    <3>1. untracked \subseteq untracked'
      BY <2>3
    <3>2. QED
      BY <2>5, <3>1 DEF TrackedInv
  <2>8. QED
    BY <1>0, <2>4, <2>6, <2>7, HandlerKeepsTracked
<1>2. CASE RetireProxyDomain(h)
  <2>1. /\ retired \cup untracked \cup {<<p, handler[h].old>>} \subseteq retired' \cup untracked'
        /\ untracked \subseteq untracked' /\ UNCHANGED <<domain, route>>
        /\ handler'[h] = IdleHandler
        /\ \A g \in Handlers \ {h} : handler'[g] = handler[g]
    BY <1>0, <1>2 DEF RetireProxyDomain, SetHandler
  <2>2. \A q \in Projects, d \in Domains : Tracked(q, d) => Tracked(q, d)'
    BY <2>1, TrackedKept
  <2>3. \A g \in Handlers : handler'[g].stage = "clear" =>
                              Of(handler'[g].project) \subseteq untracked'
    BY <1>0, <2>1 DEF TrackedInv
  <2>4. QED
    BY <1>0, <2>1, <2>2, <2>3, HandlerKeepsTracked
<1>3. CASE DeregisterDeleted(h)
  <2>1. /\ UNCHANGED <<domain, retired, untracked>>
        /\ handler[h].stage = "deregister" /\ handler'[h].stage \in {"idle", "drop"}
        /\ \A g \in Handlers \ {h} : handler'[g] = handler[g]
    BY <1>0, <1>3 DEF DeregisterDeleted, SetHandler, Handler
  <2>2. \A r \in RouteIds : route'[r] \in {route[r], Nobody}
    BY <1>0, <1>3 DEF DeregisterDeleted, DeleteRoute, DeleteRouteFails, TypeOK
  <2>3. \A q \in Projects, d \in Domains : Tracked(q, d) => Tracked(q, d)'
    BY <2>1, TrackedKept
  <2>4. \A g \in Handlers : handler'[g].stage = "clear" =>
                              Of(handler'[g].project) \subseteq untracked'
    BY <2>1 DEF TrackedInv
  <2>5. QED
    BY <1>0, <2>2, <2>3, <2>4, HandlerKeepsTracked
<1>4. CASE DropProject(h)
  <2>1. /\ UNCHANGED <<retired, route>> /\ untracked \subseteq untracked'
        /\ handler[h].stage = "drop" /\ handler'[h].stage \in {"idle", "clear"}
        /\ \A g \in Handlers \ {h} : handler'[g] = handler[g]
        /\ \/ UNCHANGED domain /\ handler'[h].stage = "idle"
           \/ /\ Of(p) \subseteq untracked' /\ domain' = [domain EXCEPT ![p] = NotFound]
              /\ handler'[h].project = p
    <3> DEFINE w == [handler[h] EXCEPT !.stage = "clear"]
    <3>1. w.stage = "clear" /\ w.project = p
      BY <1>0 DEF Handler
    <3>2. /\ UNCHANGED <<retired, route>> /\ untracked \subseteq untracked'
          /\ handler[h].stage = "drop"
          /\ \/ UNCHANGED domain /\ SetHandler(h, IdleHandler)
             \/ /\ Of(p) \subseteq untracked' /\ domain' = [domain EXCEPT ![p] = NotFound]
                /\ SetHandler(h, w)
      BY <1>4 DEF DropProject
    <3> HIDE DEF w
    <3>3. QED
      BY <1>0, <3>1, <3>2 DEF SetHandler
  <2>2. ASSUME NEW q \in Projects, NEW d \in Domains, Tracked(q, d)
        PROVE  Tracked(q, d)'
    <3>1. domain'[q] = domain[q] \/ domain[q] \notin Domains
          \/ <<q, domain[q]>> \in retired' \cup untracked'
      BY <1>0, <2>1 DEF TypeOK, Of
    <3>2. QED
      BY <2>1, <2>2, <3>1, TrackedKept
  <2>3. \A g \in Handlers : handler'[g].stage = "clear" =>
                              Of(handler'[g].project) \subseteq untracked'
    BY <2>1 DEF TrackedInv
  <2>4. QED
    BY <1>0, <2>1, <2>2, <2>3, HandlerKeepsTracked
<1>5. CASE ClearRetired(h)
  <2>1. /\ UNCHANGED <<domain, route, untracked>> /\ handler[h].stage = "clear"
        /\ handler'[h] = IdleHandler
        /\ \A g \in Handlers \ {h} : handler'[g] = handler[g]
        /\ retired \ Of(p) \subseteq retired'
    BY <1>0, <1>5 DEF ClearRetired, SetHandler, history
  <2>2. Of(p) \subseteq untracked
    BY <2>1 DEF TrackedInv
  <2>3. \A q \in Projects, d \in Domains : Tracked(q, d) => Tracked(q, d)'
    BY <2>1, <2>2, TrackedKept
  <2>4. \A g \in Handlers : handler'[g].stage = "clear" =>
                              Of(handler'[g].project) \subseteq untracked'
    BY <1>0, <2>1 DEF TrackedInv
  <2>5. QED
    BY <1>0, <2>1, <2>3, <2>4, HandlerKeepsTracked
<1>6. QED
  BY <1>1, <1>2, <1>3, <1>4, <1>5 DEF HandlerStep

\* A job starts with the configured domain, or with one it makes untracked.
LEMMA TriggerKeepsTracked ==
  ASSUME RInv, TrackedInv, NEW h \in Handlers, Trigger(h)
  PROVE  TrackedInv'
<1>0. PICK p, d : p = handler[h].project /\ d = handler[h].old
  OBVIOUS
<1> DEFINE started == [IdleJob EXCEPT !.stage = "target", !.domain = d]
<1>1. /\ TypeOK /\ p \in Projects /\ d \in MaybeDomain /\ handler[h].stage = "trigger"
      /\ UNCHANGED <<domain, retired, route>> /\ untracked \subseteq untracked'
      /\ handler'[h].stage = "idle"
      /\ \A g \in Handlers \ {h} : handler'[g] = handler[g]
  BY <1>0 DEF RInv, TypeOK, ShapeInv, Trigger, SetHandler, Handler, IdleHandler
<1>2. ASSUME NEW q \in Projects, NEW e \in Domains, Tracked(q, e)
      PROVE  Tracked(q, e)'
  BY <1>1, <1>2, TrackedKept
<1>3. \A g \in Handlers : handler'[g].stage = "clear" =>
                            Of(handler'[g].project) \subseteq untracked'
  BY <1>1 DEF TrackedInv
<1>4. CASE UNCHANGED job
  BY <1>1, <1>2, <1>3, <1>4, HandlerKeepsTracked
<1>5. CASE job[p].stage = "idle" /\ SetJob(p, started)
  <2>1. started.stage = "target" /\ started.domain = d
    BY DEF IdleJob
  <2> HIDE DEF started
  <2>2. job'[p] = started /\ \A q \in Projects \ {p} : job'[q] = job[q]
    BY <1>1, <1>5 DEF SetJob, TypeOK
  <2>3. d \in Domains => Tracked(p, d)'
    <3> SUFFICES ASSUME d \in Domains PROVE Tracked(p, d)'
      OBVIOUS
    <3>1. CASE d = domain[p]
      BY <1>1, <3>1, RoutesAssumption DEF Tracked
    <3>2. CASE d # domain[p]
      <4>1. <<p, d>> \in untracked'
        BY <1>0, <1>5, <1>1, <3>2, RoutesAssumption DEF Trigger, Known
      <4>2. QED
        BY <4>1 DEF Tracked
    <3>3. QED
      BY <3>1, <3>2
  <2>4. ASSUME NEW q \in Projects, NEW e \in Domains, MayBeRouted(q, e)'
        PROVE  Tracked(q, e)'
    <3>1. CASE q = p /\ e = d
      BY <2>3, <3>1
    <3>2. CASE q # p \/ e # d
      <4>1. MayBeRouted(q, e)
        BY <1>1, <2>1, <2>2, <2>4, <3>2 DEF MayBeRouted, Registering
      <4>2. QED
        BY <1>2, <4>1 DEF TrackedInv
    <3>3. QED
      BY <3>1, <3>2
  <2>6. ASSUME NEW q \in Projects, job'[q].stage = "unmark"
        PROVE  /\ route'[RouteId[job'[q].current]] # q
               /\ \A r \in Projects :
                    /\ job'[r].stage \in Registering
                    /\ RouteId[job'[r].domain] = RouteId[job'[q].current]
                    => job'[r].old # q
    <3>1. job'[q] = job[q]
      BY <2>1, <2>2, <2>6
    <3>2. \A r \in Projects : job'[r].stage \in Registering => job'[r] = job[r]
      BY <2>1, <2>2 DEF Registering
    <3>3. QED
      BY <1>1, <2>6, <3>1, <3>2 DEF TrackedInv
  <2>7. QED
    BY <1>3, <2>4, <2>6 DEF TrackedInv
<1>6. QED
  BY <1>0, <1>4, <1>5 DEF Trigger

\* The steps of a job post only what was its own or what its snapshot holds.
LEMMA JobRoutes ==
  ASSUME RInv, NEW p \in Projects, JobStep(p)
  PROVE  /\ \A r \in RouteIds :
              \/ route'[r] \in {route[r], Nobody}
              \/ job[p].stage = "post" /\ r = RouteId[job[p].domain] /\ route'[r] = p
              \/ job[p].stage = "restore" /\ r = RouteId[job[p].domain] /\ route'[r] = job[p].old
         /\ job'[p].stage \in Registering =>
              /\ job'[p].domain = job[p].domain
              /\ \/ job[p].stage \in Registering /\ job'[p].old = job[p].old
                 \/ job[p].stage = "register" /\ job'[p].old = route[RouteId[job[p].domain]]
         /\ job'[p].stage \in {"target", "register", "delete", "post"} =>
              /\ job[p].stage \in {"target", "register", "delete", "post"}
              /\ job'[p].domain = job[p].domain
<1>1. JobEffect(p) /\ job[p] \in Job
  BY JobEffects DEF RInv, TypeOK
<1>2. ASSUME NEW r \in RouteIds
      PROVE  \/ route'[r] \in {route[r], Nobody}
             \/ job[p].stage = "post" /\ r = RouteId[job[p].domain] /\ route'[r] = p
             \/ job[p].stage = "restore" /\ r = RouteId[job[p].domain] /\ route'[r] = job[p].old
  BY <1>1 DEF JobEffect, RouteIs
<1>3. job'[p].stage \in Registering =>
        /\ job'[p].domain = job[p].domain
        /\ \/ job[p].stage \in Registering /\ job'[p].old = job[p].old
           \/ job[p].stage = "register" /\ job'[p].old = route[RouteId[job[p].domain]]
  BY <1>1 DEF JobEffect, Registering, Moved, Ended, IdleJob
<1>4. job'[p].stage \in {"target", "register", "delete", "post"} =>
        /\ job[p].stage \in {"target", "register", "delete", "post"}
        /\ job'[p].domain = job[p].domain
  BY <1>1 DEF JobEffect, Moved, Ended, IdleJob
<1>5. QED
  BY <1>2, <1>3, <1>4

\* A job's step routes nothing new: what it may post was routed, or about to be.
LEMMA JobMayRoute ==
  ASSUME RInv, NEW p \in Projects, JobStep(p),
         NEW q \in Projects, NEW e \in Domains, MayBeRouted(q, e)'
  PROVE  \E f \in Domains : RouteId[f] = RouteId[e] /\ MayBeRouted(q, f)
<1>0. /\ \A s \in Projects \ {p} : job'[s] = job[s]
      /\ RouteId[e] \in RouteIds /\ q # Nobody
      /\ job[p].stage \in Registering => job[p].domain \in Domains
      /\ job'[p].stage \in Registering \cup {"register"} => job'[p].domain \in Domains
  BY JobEffects, JobKeeps, RoutesAssumption DEF RInv, ShapeInv
<1>1. CASE route'[RouteId[e]] = q
  <2>1. CASE route'[RouteId[e]] \in {route[RouteId[e]], Nobody}
    BY <1>0, <1>1, <2>1 DEF MayBeRouted
  <2>2. CASE job[p].stage = "post" /\ RouteId[e] = RouteId[job[p].domain] /\ q = p
    BY <1>0, <2>2 DEF MayBeRouted, Registering
  <2>3. CASE job[p].stage = "restore" /\ RouteId[e] = RouteId[job[p].domain] /\ q = job[p].old
    BY <1>0, <2>3 DEF MayBeRouted, Registering
  <2>4. QED
    BY <1>0, <1>1, <2>1, <2>2, <2>3, JobRoutes
<1>2. CASE job'[q].stage \in {"target", "register", "delete", "post"} /\ job'[q].domain = e
  <2>1. job[q].stage \in {"target", "register", "delete", "post"} /\ job[q].domain = e
    BY <1>0, <1>2, JobRoutes
  <2>2. QED
    BY <2>1 DEF MayBeRouted
<1>3. ASSUME NEW s \in Projects, job'[s].stage \in Registering,
             job'[s].old = q, job'[s].domain = e
      PROVE  MayBeRouted(q, e)
  <2>1. CASE job[s].stage \in Registering /\ job[s].old = q /\ job[s].domain = e
    BY <2>1 DEF MayBeRouted
  <2>2. CASE s = p /\ route[RouteId[e]] = q
    BY <2>2 DEF MayBeRouted
  <2>3. QED
    BY <1>0, <1>3, <2>1, <2>2, JobRoutes
<1>4. QED
  BY <1>1, <1>2, <1>3 DEF MayBeRouted

LEMMA JobKeepsTracked ==
  ASSUME RInv, TrackedInv, NEW p \in Projects, JobStep(p)
  PROVE  TrackedInv'
<1>0. /\ \A s \in Projects \ {p} : job'[s] = job[s]
      /\ UNCHANGED <<domain, handler, untracked>>
      /\ JobEffect(p)
      /\ job'[p].stage = "unmark" => job[p].stage = "cleanup"
      /\ TypeOK /\ job[p] \in Job
  BY JobEffects DEF RInv, TypeOK
<1>1. ASSUME NEW q \in Projects, NEW e \in Domains, MayBeRouted(q, e)'
      PROVE  Tracked(q, e)'
  <2>1. PICK f \in Domains : RouteId[f] = RouteId[e] /\ MayBeRouted(q, f)
    BY <1>1, JobMayRoute
  <2>2. Tracked(q, e)
    BY <2>1 DEF TrackedInv, Tracked
  <2>3. CASE UNCHANGED retired
    BY <1>0, <2>2, <2>3, TrackedKept
  <2>4. CASE /\ job[p].stage = "unmark" /\ Moved(p, "cleanup") /\ UNCHANGED route
             /\ retired' = retired \ {<<p, job[p].current>>}
    <3>1. CASE q = p /\ RouteId[e] = RouteId[job[p].current]
      <4>1. /\ route[RouteId[e]] # q
            /\ \A r \in Projects : /\ job[r].stage \in Registering
                                   /\ RouteId[job[r].domain] = RouteId[e]
                                   => job[r].old # q
        BY <2>4, <3>1 DEF TrackedInv
      <4>2. \A r \in Projects \ {p} : job'[r] = job[r]
        BY <1>0
      <4>3. job'[p].stage = "cleanup"
        BY <2>4 DEF Moved
      <4>4. ~ MayBeRouted(q, e)'
        BY <2>4, <3>1, <4>1, <4>2, <4>3 DEF MayBeRouted, Registering
      <4>5. QED
        BY <1>1, <4>4
    <3>2. CASE q # p \/ RouteId[e] # RouteId[job[p].current]
      BY <1>0, <2>2, <2>4, <3>2, TrackedKept
    <3>3. QED
      BY <3>1, <3>2
  <2>5. QED
    BY <1>0, <2>3, <2>4 DEF JobEffect
<1>2. ASSUME NEW q \in Projects, job'[q].stage = "unmark"
      PROVE  /\ route'[RouteId[job'[q].current]] # q
             /\ \A r \in Projects :
                  /\ job'[r].stage \in Registering
                  /\ RouteId[job'[r].domain] = RouteId[job'[q].current]
                  => job'[r].old # q
  <2>1. CASE q = p
    <3>1. mu = Nobody /\ route'[RouteId[job'[p].current]] = Nobody
      BY <1>0, <1>2, <2>1 DEF JobEffect, RouteIs, Moved, Ended, IdleJob
    <3>2. \A r \in Projects \ {p} : job'[r].stage \notin Registering
      BY <1>0, <3>1, RoutesAssumption DEF RInv, LockInv
    <3>3. job'[p].stage \notin Registering
      BY <1>2, <2>1 DEF Registering
    <3>4. QED
      BY <2>1, <3>1, <3>2, <3>3, RoutesAssumption
  <2>2. CASE q # p
    <3>1. job'[q] = job[q] /\ job[q].current \in Domains
      BY <1>0, <1>2, <2>2 DEF RInv, ShapeInv
    <3>2. PICK x : x = RouteId[job[q].current]
      OBVIOUS
    <3>3. /\ x \in RouteIds /\ route[x] # q
          /\ \A r \in Projects : job[r].stage \in Registering /\ RouteId[job[r].domain] = x
                                   => job[r].old # q
      BY <1>2, <3>1, <3>2, RoutesAssumption DEF TrackedInv
    <3>4. route'[x] # q
      BY <2>2, <3>3, JobRoutes, RoutesAssumption DEF Registering
    <3>5. \A r \in Projects \ {p} : job'[r].stage \in Registering /\ RouteId[job'[r].domain] = x
                                      => job'[r].old # q
      BY <1>0, <3>3
    <3>6. job'[p].stage \in Registering /\ RouteId[job'[p].domain] = x => job'[p].old # q
      BY <3>3, JobRoutes
    <3>7. QED
      BY <3>1, <3>2, <3>4, <3>5, <3>6
  <2>3. QED
    BY <2>1, <2>2
<1>3. \A h \in Handlers : handler'[h].stage = "clear" => Of(handler'[h].project) \subseteq untracked'
  BY <1>0 DEF TrackedInv
<1>4. QED
  BY <1>1, <1>2, <1>3 DEF TrackedInv

LEMMA CrashKeepsTracked ==
  ASSUME RInv, TrackedInv, Crash
  PROVE  TrackedInv'
<1>1. /\ UNCHANGED <<domain, retired, route>>
      /\ \A h \in Handlers : handler'[h].stage = "idle"
      /\ \A p \in Projects : job'[p].stage = "idle"
      /\ untracked \subseteq untracked'
      /\ \A h \in Handlers : handler[h].stage = "retire" =>
                               <<handler[h].project, handler[h].old>> \in untracked'
  BY DEF Crash, IdleHandler, IdleJob
<1>2. ASSUME NEW p \in Projects, NEW d \in Domains, MayBeRouted(p, d)'
      PROVE  Tracked(p, d)'
  <2>1. MayBeRouted(p, d)
    BY <1>1, <1>2 DEF MayBeRouted, Registering
  <2>2. Tracked(p, d)
    BY <2>1 DEF TrackedInv
  <2>3. QED
    BY <1>1, <2>2, TrackedKept
<1>3. QED
  BY <1>1, <1>2 DEF TrackedInv

LEMMA InitTracked == Init => TrackedInv
<1> SUFFICES ASSUME Init PROVE TrackedInv
  OBVIOUS
<1>1. ASSUME NEW p \in Projects, NEW d \in Domains
      PROVE  ~ MayBeRouted(p, d)
  BY RoutesAssumption DEF Init, MayBeRouted, IdleJob, Registering
<1>2. QED
  BY <1>1 DEF Init, TrackedInv, IdleHandler, IdleJob

LEMMA NextTracked == RInv /\ TrackedInv /\ [Next]_vars => TrackedInv'
<1> SUFFICES ASSUME RInv, TrackedInv, [Next]_vars PROVE TrackedInv'
  OBVIOUS
<1>1. ASSUME NEW h \in Handlers, HandlerStep(h)
      PROVE  TrackedInv'
  BY <1>1, HandlerStepKeepsTracked, TriggerKeepsTracked
<1>2. CASE UNCHANGED vars
  BY <1>2 DEF vars, TrackedInv, MayBeRouted, Tracked
<1>3. QED
  BY <1>1, <1>2, RequestKeepsTracked, JobKeepsTracked, CrashKeepsTracked DEF Next

\* A route that is not for its project's configured domain is marked for
\* removal, about to be marked, or one of those the code can forget.
THEOREM StaleRoutesAreTracked == Spec => []StaleRouteIsTracked
<1>1. Spec => []TrackedInv
  BY InitTracked, NextTracked, RoutesInvariance, PTL DEF Spec
<1>2. TrackedInv => StaleRouteIsTracked
  BY DEF TrackedInv, MayBeRouted, Tracked, StaleRouteIsTracked
<1>3. QED
  BY <1>1, <1>2, PTL

\* A job deletes a mark only after the route it stands for.
THEOREM MarksOutliveRoutes == Spec => MarkOutlivesRoute
<1>1. Spec => []TrackedInv
  BY InitTracked, NextTracked, RoutesInvariance, PTL DEF Spec
<1> DEFINE Step == [\A p \in Projects, d \in Domains :
                      /\ <<p, d>> \in retired /\ <<p, d>> \notin retired'
                      /\ job'[p] # job[p]
                      => route[RouteId[d]] # p]_retired
<1>2. RInv /\ TrackedInv /\ [Next]_vars => Step
  <2> SUFFICES ASSUME RInv, TrackedInv, [Next]_vars,
                      NEW p \in Projects, NEW d \in Domains,
                      <<p, d>> \in retired, <<p, d>> \notin retired', job'[p] # job[p]
               PROVE  route[RouteId[d]] # p
    OBVIOUS
  <2>1. ASSUME NEW q \in Projects, JobStep(q)
        PROVE  job[p].stage = "unmark" /\ job[p].current = d
    <3>1. JobEffect(q) /\ \A s \in Projects \ {q} : job'[s] = job[s]
      BY <2>1, JobEffects
    <3>2. p = q
      BY <3>1
    <3>3. QED
      BY <3>1, <3>2 DEF JobEffect
  <2>2. \E q \in Projects : JobStep(q)
    <3>1. ASSUME NEW h \in Handlers, HandlerStep(h)
          PROVE  FALSE
      BY <3>1 DEF HandlerStep, UpsertProject, RetireProxyDomain, DeregisterDeleted, DropProject,
         ClearRetired, Trigger
    <3>2. ASSUME NEW h \in Handlers, NEW q \in Projects,
                 \/ \E e \in MaybeDomain : SaveProject(h, q, e)
                 \/ SaveUnchanged(h, q)
                 \/ DeleteProject(h, q)
                 \/ DeployProject(h, q)
          PROVE  FALSE
      BY <3>2 DEF SaveProject, SaveUnchanged, DeleteProject, DeployProject, Read
    <3>3. QED
      BY <3>1, <3>2 DEF Next, Crash, vars
  <2>3. QED
    BY <2>1, <2>2 DEF TrackedInv
<1>3. QED
  BY <1>1, <1>2, RoutesInvariance, PTL DEF Spec, MarkOutlivesRoute

-----------------------------------------------------------------------------
(* Domains nobody else was given.                                          *)

\* Histories only grow.
LEMMA UncontestedBefore ==
  ASSUME NEW p \in Projects, NEW d \in Domains, Uncontested(p, d)',
         named \subseteq named', withdrawn \subseteq withdrawn'
  PROVE  Uncontested(p, d)
  BY DEF Uncontested

\* A step of a handler or a crash: nothing becomes public, and a route that is
\* removed is withdrawn.
LEMMA HandlersKeepServed ==
  ASSUME RInv, ServedInv, NamesInv', named \subseteq named', withdrawn \subseteq withdrawn',
         \A p \in Projects, d \in Domains : Public(p, d)' => Public(p, d),
         \A p \in Projects, d \in Domains :
           \/ route'[RouteId[d]] = route[RouteId[d]]
           \/ \E q \in Projects, e \in Domains : RouteId[e] = RouteId[d] /\ <<q, e>> \in withdrawn'
  PROVE  ServedInv'
<1>1. ASSUME NEW p \in Projects, NEW d \in Domains, Uncontested(p, d)', Public(p, d)'
      PROVE  route'[RouteId[d]] = p
  <2>1. route[RouteId[d]] = p
    BY <1>1, UncontestedBefore DEF ServedInv
  <2>2. route'[RouteId[d]] = route[RouteId[d]]
    BY <1>1 DEF Uncontested
  <2>3. QED
    BY <2>1, <2>2
<1>2. QED
  BY <1>1 DEF ServedInv

LEMMA RequestKeepsServed ==
  ASSUME RInv, ServedInv, NEW h \in Handlers, NEW p \in Projects,
         \/ \E d \in MaybeDomain : SaveProject(h, p, d)
         \/ SaveUnchanged(h, p)
         \/ DeleteProject(h, p)
         \/ DeployProject(h, p)
  PROVE  ServedInv'
<1>1. PICK stage, old, new :
        Read(h, p, stage, old, new) /\ (stage = "trigger" => old = domain[p])
  BY DEF SaveProject, SaveUnchanged, DeleteProject, DeployProject
<1>2. /\ handler'[h].stage = stage /\ handler'[h].project = p /\ handler'[h].old = old
      /\ \A g \in Handlers \ {h} : handler'[g] = handler[g]
      /\ UNCHANGED <<domain, retired, route, job, served, named, withdrawn>>
  BY <1>1 DEF Read, SetHandler, RInv, TypeOK
<1>3. NamesInv'
  BY <1>1, <1>2 DEF ServedInv, NamesInv
<1>4. QED
  BY <1>2, <1>3, HandlersKeepServed DEF Public

LEMMA HandlerStepKeepsServed ==
  ASSUME RInv, ServedInv, NEW h \in Handlers, HandlerStep(h)
  PROVE  ServedInv'
<1>0. /\ TypeOK /\ ShapeInv /\ handler[h] \in Handler /\ handler \in [Handlers -> Handler]
      /\ IdleHandler.stage = "idle" /\ NamesInv
  BY DEF RInv, TypeOK, IdleHandler, ServedInv
<1>1. CASE UpsertProject(h)
  <2>1. /\ UNCHANGED <<retired, route, job, served, withdrawn>> /\ named \subseteq named'
        /\ handler'[h].stage # "trigger"
        /\ \A g \in Handlers \ {h} : handler'[g] = handler[g]
    BY <1>0, <1>1 DEF UpsertProject, SetHandler, Handler
  <2>2. ASSUME NEW p \in Projects, domain'[p] \in Domains
        PROVE  <<p, domain'[p]>> \in named'
    <3>1. CASE domain'[p] = domain[p]
      BY <1>0, <2>1, <2>2, <3>1 DEF NamesInv
    <3>2. CASE domain'[p] # domain[p]
      <4>1. p = handler[h].project /\ domain'[p] = handler[h].new
            /\ named' = named \cup Known(p, handler[h].new)
        BY <1>0, <1>1, <3>2 DEF UpsertProject, TypeOK
      <4>2. QED
        BY <2>2, <4>1 DEF Known
    <3>3. QED
      BY <3>1, <3>2
  <2>3. NamesInv'
    BY <1>0, <2>1, <2>2 DEF NamesInv
  <2>4. QED
    BY <2>1, <2>3, HandlersKeepServed DEF Public
<1>2. CASE RetireProxyDomain(h)
  <2>1. /\ UNCHANGED <<domain, route, job, served, named>> /\ withdrawn \subseteq withdrawn'
        /\ retired' \subseteq withdrawn' /\ handler'[h].stage = "idle"
        /\ \A g \in Handlers \ {h} : handler'[g] = handler[g]
    BY <1>0, <1>2 DEF RetireProxyDomain, SetHandler, NamesInv
  <2>2. NamesInv'
    BY <1>0, <2>1 DEF NamesInv
  <2>3. QED
    BY <2>1, <2>2, HandlersKeepServed DEF Public
<1>3. CASE DeregisterDeleted(h)
  <2>1. /\ UNCHANGED <<domain, retired, job, served, named>>
        /\ handler[h].project \in Projects /\ handler[h].old \in Domains
        /\ withdrawn' = withdrawn \cup {<<handler[h].project, handler[h].old>>}
        /\ handler'[h].stage # "trigger"
        /\ \A g \in Handlers \ {h} : handler'[g] = handler[g]
    BY <1>0, <1>3 DEF DeregisterDeleted, SetHandler, Handler, ShapeInv
  <2>2. \A r \in RouteIds \ {RouteId[handler[h].old]} : route'[r] = route[r]
    BY <1>0, <1>3 DEF DeregisterDeleted, DeleteRoute, DeleteRouteFails, TypeOK
  <2>3. NamesInv'
    BY <1>0, <2>1 DEF NamesInv
  <2>4. QED
    BY <2>1, <2>2, <2>3, HandlersKeepServed, RoutesAssumption DEF Public
<1>4. CASE DropProject(h)
  <2>1. /\ UNCHANGED <<retired, route, job, served, named, withdrawn>>
        /\ handler'[h].stage # "trigger"
        /\ \A g \in Handlers \ {h} : handler'[g] = handler[g]
        /\ \A p \in Projects : domain'[p] \in {domain[p], NotFound}
    BY <1>0, <1>4 DEF DropProject, SetHandler, Handler, TypeOK
  <2>2. NamesInv'
    BY <1>0, <2>1, RoutesAssumption DEF NamesInv
  <2>3. QED
    BY <2>1, <2>2, HandlersKeepServed DEF Public
<1>5. CASE ClearRetired(h)
  <2>1. /\ UNCHANGED <<domain, route, job, served, named, withdrawn>>
        /\ retired' \subseteq retired /\ handler'[h].stage = "idle"
        /\ \A g \in Handlers \ {h} : handler'[g] = handler[g]
    BY <1>0, <1>5 DEF ClearRetired, SetHandler, history
  <2>2. NamesInv'
    BY <1>0, <2>1 DEF NamesInv
  <2>3. QED
    BY <2>1, <2>2, HandlersKeepServed DEF Public
<1>6. CASE Trigger(h)
  <2> DEFINE started == [IdleJob EXCEPT !.stage = "target", !.domain = handler[h].old]
  <2>0. PICK p : p = handler[h].project
    OBVIOUS
  <2>1. /\ UNCHANGED <<domain, retired, route, named, withdrawn>> /\ handler'[h].stage = "idle"
        /\ \A g \in Handlers \ {h} : handler'[g] = handler[g]
        /\ p \in Projects
        /\ handler[h].old \in Domains => <<p, handler[h].old>> \in named
        /\ \/ UNCHANGED <<job, served>>
           \/ SetJob(p, started) /\ served' = [served EXCEPT ![p] = NoDomain]
    BY <1>0, <1>6, <2>0 DEF Trigger, SetHandler, NamesInv, ShapeInv
  <2>2. started.stage = "target" /\ started.domain = handler[h].old /\ started.todo = {}
    BY DEF IdleJob
  <2> HIDE DEF started
  <2>3. /\ \A q \in Projects \ {p} : job'[q] = job[q] /\ served'[q] = served[q]
        /\ \/ job'[p] = job[p] /\ served'[p] = served[p]
           \/ job'[p] = started /\ served'[p] = NoDomain
    BY <1>0, <2>1 DEF TypeOK, SetJob
  <2>4. NamesInv'
    <3>1. ASSUME NEW q \in Projects
          PROVE  /\ job'[q].domain \in Domains => <<q, job'[q].domain>> \in named'
                 /\ {q} \X job'[q].todo \subseteq withdrawn'
                 /\ job'[q].stage # "idle" => served'[q] = NoDomain
      BY <1>0, <2>1, <2>2, <2>3 DEF NamesInv
    <3>2. QED
      BY <1>0, <2>1, <3>1 DEF NamesInv
  <2>5. \A q \in Projects, d \in Domains : Public(q, d)' => Public(q, d)
    BY <2>2, <2>3, RoutesAssumption DEF Public
  <2>6. QED
    BY <2>1, <2>4, <2>5, HandlersKeepServed
<1>7. QED
  BY <1>1, <1>2, <1>3, <1>4, <1>5, <1>6 DEF HandlerStep

LEMMA JobKeepsServed ==
  ASSUME RInv, ServedInv, NEW p \in Projects, JobStep(p)
  PROVE  ServedInv'
<1>0. /\ TypeOK /\ ShapeInv /\ NamesInv /\ job[p] \in Job
      /\ \A q \in Projects \ {p} : job'[q] = job[q]
      /\ UNCHANGED <<domain, handler, named, withdrawn>>
      /\ JobEffect(p)
  BY JobEffects DEF RInv, TypeOK, ServedInv
<1>1. NamesInv'
  <2>1. retired' \subseteq retired
    BY <1>0 DEF JobEffect
  <2>2. \A q \in Projects \ {p} : served'[q] = served[q]
    BY <1>0 DEF JobEffect, TypeOK
  <2>3. job'[p].domain \in Domains => job'[p].domain = job[p].domain
    BY <1>0, RoutesAssumption DEF JobEffect, Moved, Ended, IdleJob
  <2>4. {p} \X job'[p].todo \subseteq withdrawn'
    <3>1. \/ job'[p].todo \subseteq job[p].todo
          \/ job'[p].todo = DomainsOf(retired, p)
          \/ job'[p].todo = {}
      BY <1>0 DEF JobEffect, Moved, Ended, IdleJob
    <3>2. \A e \in job[p].todo : <<p, e>> \in withdrawn
      BY <1>0 DEF NamesInv
    <3>3. \A e \in DomainsOf(retired, p) : <<p, e>> \in withdrawn
      BY <1>0 DEF NamesInv, DomainsOf
    <3>4. \A e \in job'[p].todo : <<p, e>> \in withdrawn
      BY <3>1, <3>2, <3>3
    <3>5. QED
      BY <1>0, <3>4
  <2>5. job'[p].stage # "idle" => job[p].stage # "idle" /\ served'[p] = served[p]
    BY <1>0 DEF JobEffect, Moved, Ended, IdleJob
  <2>6. QED
    BY <1>0, <2>1, <2>2, <2>3, <2>4, <2>5 DEF NamesInv
<1>2. ASSUME NEW q \in Projects, NEW d \in Domains, Uncontested(q, d)', Public(q, d)'
      PROVE  route'[RouteId[d]] = q
  <2>0. Uncontested(q, d) /\ RouteId[d] \in RouteIds /\ d # NoDomain
    BY <1>0, <1>2, UncontestedBefore, RoutesAssumption
  <2>1. CASE Public(q, d)
    <3>1. route[RouteId[d]] = q
      BY <2>0, <2>1 DEF ServedInv
    <3>2. \A e \in job[p].todo : RouteId[e] # RouteId[d]
      <4>1. \A e \in job[p].todo : <<p, e>> \in withdrawn
        BY <1>0 DEF NamesInv
      <4>2. job[p].todo \subseteq Domains
        BY <1>0 DEF Job
      <4>3. QED
        BY <2>0, <4>1, <4>2 DEF Uncontested
    <3>3. ~ (job[p].stage \in Registering /\ RouteId[job[p].domain] = RouteId[d])
      <4> SUFFICES ASSUME job[p].stage \in Registering, RouteId[job[p].domain] = RouteId[d]
                   PROVE  FALSE
        OBVIOUS
      <4>1. job[p].domain \in Domains /\ <<p, job[p].domain>> \in named
        BY <1>0 DEF ShapeInv, NamesInv
      <4>2. q = p
        BY <2>0, <4>1 DEF Uncontested
      <4>3. served[p] = NoDomain
        BY <1>0 DEF NamesInv, Registering
      <4>4. QED
        BY <2>0, <2>1, <4>2, <4>3 DEF Public, Registering
    <3>4. route'[RouteId[d]] = route[RouteId[d]]
      BY <1>0, <2>0, <3>2, <3>3 DEF JobEffect, RouteIs, Registering
    <3>5. QED
      BY <3>1, <3>4
  <2>2. CASE ~ Public(q, d)
    <3>1. q = p
      BY <1>0, <1>2, <2>2 DEF JobEffect, TypeOK, Public
    <3>2. job[p].domain = d /\ job'[p].stage = "list" /\ RouteIs(d, p)
      BY <1>0, <1>2, <2>0, <2>2, <3>1 DEF JobEffect, TypeOK, Public, Moved, Ended, IdleJob
    <3>3. QED
      BY <3>1, <3>2 DEF RouteIs
  <2>3. QED
    BY <2>1, <2>2
<1>3. QED
  BY <1>1, <1>2 DEF ServedInv

LEMMA CrashKeepsServed ==
  ASSUME RInv, ServedInv, Crash
  PROVE  ServedInv'
<1>1. /\ UNCHANGED <<domain, retired, route, served, named, withdrawn>>
      /\ \A h \in Handlers : handler'[h].stage = "idle"
      /\ \A p \in Projects : job'[p].stage = "idle" /\ job'[p].domain = NoDomain
                             /\ job'[p].todo = {}
  BY DEF Crash, IdleHandler, IdleJob
<1>2. NamesInv'
  BY <1>1, RoutesAssumption DEF ServedInv, NamesInv
<1>3. QED
  BY <1>1, <1>2, HandlersKeepServed DEF Public

\* The inductive invariant of the domains that jobs left public.
LEMMA ServedInvariance == Spec => []ServedInv
<1>1. Init => ServedInv
  BY RoutesAssumption DEF Init, ServedInv, NamesInv, Public, IdleHandler, IdleJob
<1>2. RInv /\ ServedInv /\ [Next]_vars => ServedInv'
  <2> SUFFICES ASSUME RInv, ServedInv, [Next]_vars PROVE ServedInv'
    OBVIOUS
  <2>1. CASE UNCHANGED vars
    BY <2>1 DEF vars, ServedInv, NamesInv, Public, Uncontested
  <2>2. QED
    BY <2>1, RequestKeepsServed, HandlerStepKeepsServed, JobKeepsServed, CrashKeepsServed DEF Next
<1>3. QED
  BY <1>1, <1>2, RoutesInvariance, PTL DEF Spec

\* A project whose last job succeeded is reachable at the domain that job
\* registered, unless the name was given to another project or withdrawn.
THEOREM UncontestedDomainsAreServed == Spec => []UncontestedDomainIsServed
<1>1. ServedInv => UncontestedDomainIsServed
  BY DEF ServedInv, Public, Uncontested, UncontestedDomainIsServed
<1>2. QED
  BY <1>1, ServedInvariance, PTL

=============================================================================
