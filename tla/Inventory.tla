------------------------------ MODULE Inventory ------------------------------
(***************************************************************************)
(* Servers, projects and the credentials servers are reached with: how     *)
(* they are seeded from servers.yaml and projects.yaml at boot             *)
(* (seedInventory of cmd/control-center/main.go), edited by concurrent     *)
(* requests (internal/server/admin.go, api.go, setup.go) and registered by *)
(* onboarding (internal/server/onboard.go, onboardWindowsServer).  The     *)
(* boot's provisioning run and `winify bootstrap' register the machine     *)
(* itself (localTargetServer).                                             *)
(*                                                                         *)
(* A request reads, decides and writes in separate statements of the       *)
(* store; the process may stop at any point and boots again.  ProxyRoutes  *)
(* models what saving and deleting a project does to its domain.           *)
(***************************************************************************)
EXTENDS Naturals, FiniteSets

CONSTANTS
  Hosts,         \* server ids
  Apps,          \* project ids
  NoHost,        \* the server of a project that does not exist
  YamlServers,   \* ids in servers.yaml
  YamlProjects,  \* projects.yaml: the server of each project in it
  Local,         \* the id of the machine itself, "local"
  Invalid,       \* ids whose entry in a file fails validation
  Admins,        \* requests at once
  MaxEdits,      \* bound: requests that change something
  MaxStops,      \* bound: restarts
  MaxPasswords   \* bound: passwords a host ever has

\* What the constants are assumed to be; the MC module that instantiates them states it.
InventoryBounds ==
  /\ YamlServers \cup {Local} \subseteq Hosts /\ NoHost \notin Hosts
  /\ DOMAIN YamlProjects \subseteq Apps /\ \A a \in DOMAIN YamlProjects : YamlProjects[a] \in Hosts
  /\ {MaxEdits, MaxStops} \subseteq Nat /\ MaxPasswords \in Nat \ {0}

VARIABLES
  servers,       \* the servers table
  projects,      \* the projects table: the server of each project
  stored,        \* the password in each server's credential, 0: none
  password,      \* the password each host has
  daemon,        \* how far the process has booted
  todo,          \* entries of the file that is being imported
  request,       \* what each request has read and is about to write
  edits,         \* edits so far
  stops,         \* restarts so far
  ran,           \* history: a boot has got as far as serving
  removed,       \* history: servers an operator deleted and nobody added again
  emptied,       \* history: the servers table has been empty after a deletion
  raced,         \* history: projects whose save overlapped the deletion of their server
  onboarded      \* history: the password onboarding registered a server with

tables        == <<servers, projects>>
vault         == <<stored, password>>
booting       == <<daemon, todo>>
bounds        == <<edits, stops>>
inventoryPast == <<ran, removed, emptied, raced, onboarded>>
inventoryVars == <<tables, vault, booting, request, bounds, inventoryPast>>

-----------------------------------------------------------------------------

Boots     == {"down", "counting", "servers", "projects", "serving"}
NoRequest == [op |-> "none", host |-> NoHost, app |-> NoHost]
Pending   == [op : {"delete server", "save project", "put credential", "register"},
              host : Hosts, app : Apps \cup {NoHost}] \cup {NoRequest}

TypeOK ==
  /\ servers \subseteq Hosts
  /\ projects \in [Apps -> Hosts \cup {NoHost}]
  /\ stored \in [Hosts -> 0..MaxPasswords] /\ password \in [Hosts -> 1..MaxPasswords]
  /\ daemon \in Boots /\ todo \subseteq Hosts \cup Apps
  /\ request \in [Admins -> Pending]
  /\ edits \in 0..MaxEdits /\ stops \in 0..MaxStops
  /\ ran \in BOOLEAN /\ removed \subseteq Hosts /\ emptied \in BOOLEAN /\ raced \subseteq Apps
  /\ onboarded \in [Hosts -> 0..MaxPasswords]

\* A fresh install.
Init ==
  /\ servers = {} /\ projects = [a \in Apps |-> NoHost]
  /\ stored = [h \in Hosts |-> 0] /\ password = [h \in Hosts |-> 1]
  /\ daemon = "counting" /\ todo = {}
  /\ request = [o \in Admins |-> NoRequest]
  /\ edits = 0 /\ stops = 0
  /\ ran = FALSE /\ removed = {} /\ emptied = FALSE /\ raced = {}
  /\ onboarded = [h \in Hosts |-> 0]

NoProjects == \A a \in Apps : projects[a] = NoHost
Using(h)   == {a \in Apps : projects[a] = h}

-----------------------------------------------------------------------------
(* seedInventory.                                                          *)

\* The file is imported whatever the table holds.
CountNothing ==
  /\ daemon = "counting"
  /\ daemon' = "servers" /\ todo' = YamlServers
  /\ UNCHANGED <<tables, vault, request, bounds, inventoryPast>>

\* CountServers: only an empty table takes the file.
CountServers ==
  /\ daemon = "counting"
  /\ daemon' = "servers"
  /\ todo' = IF servers = {} THEN YamlServers ELSE {}
  /\ UNCHANGED <<tables, vault, request, bounds, inventoryPast>>

ImportServer(h) ==
  /\ daemon = "servers" /\ h \in todo \ Invalid
  /\ servers' = servers \cup {h} /\ todo' = todo \ {h}
  /\ UNCHANGED <<projects, vault, daemon, request, bounds, inventoryPast>>

CountProjects ==
  /\ daemon = "servers" /\ todo = {}
  /\ daemon' = "projects"
  /\ todo' = IF NoProjects THEN DOMAIN YamlProjects ELSE {}
  /\ UNCHANGED <<tables, vault, request, bounds, inventoryPast>>

ImportProject(a) ==
  /\ daemon = "projects" /\ a \in todo \ Invalid /\ YamlProjects[a] \in servers
  /\ projects' = [projects EXCEPT ![a] = YamlProjects[a]] /\ todo' = todo \ {a}
  /\ UNCHANGED <<servers, vault, daemon, request, bounds, inventoryPast>>

\* log.Fatalf: an invalid entry, or a project whose server is unknown; what was imported stays.
Refused(e) == e \in Invalid \/ (e \in DOMAIN YamlProjects /\ YamlProjects[e] \notin servers)

Fatal ==
  /\ \E e \in todo : Refused(e)
  /\ daemon' = "down" /\ todo' = {}
  /\ UNCHANGED <<tables, vault, request, bounds, inventoryPast>>

\* provisionIfNeeded: unless it may not, or fails before, it takes the step local-target
\* when the machine is not registered.
ProvisionLocal ==
  /\ daemon = "projects" /\ todo = {} /\ Local \notin servers
  /\ servers' = servers \cup {Local}
  /\ UNCHANGED <<projects, vault, booting, request, bounds, inventoryPast>>

Serve ==
  /\ daemon = "projects" /\ todo = {}
  /\ daemon' = "serving" /\ ran' = TRUE
  /\ UNCHANGED <<tables, vault, todo, request, bounds, removed, emptied, raced, onboarded>>

\* The process is stopped, or dies, with its requests.
Stop ==
  /\ daemon # "down"
  /\ daemon' = "down" /\ todo' = {}
  /\ request' = [o \in Admins |-> NoRequest]
  /\ UNCHANGED <<tables, vault, bounds, inventoryPast>>

Boot ==
  /\ daemon = "down" /\ stops < MaxStops /\ stops' = stops + 1
  /\ daemon' = "counting"
  /\ UNCHANGED <<tables, vault, todo, request, edits, inventoryPast>>

-----------------------------------------------------------------------------
(* Requests.                                                               *)

Edit(o) == daemon = "serving" /\ request[o] = NoRequest /\ edits < MaxEdits /\ edits' = edits + 1

Asks(o, op, h, a) == request' = [request EXCEPT ![o] = [op |-> op, host |-> h, app |-> a]]
Answered(o)       == request' = [request EXCEPT ![o] = NoRequest]
Doomed(h)         == \E o \in Admins : request[o].op = "delete server" /\ request[o].host = h

\* UpsertServer for an operator: a save, the local target of the Setup page, onboarding.
UpsertServer(h) == servers' = servers \cup {h} /\ removed' = removed \ {h}

SaveServer(o, h) ==
  /\ Edit(o)
  /\ UpsertServer(h)
  /\ UNCHANGED <<projects, vault, booting, request, stops, ran, emptied, raced, onboarded>>

\* runBootstrap, the command: another process, whatever this one is doing.
RunBootstrap ==
  /\ edits < MaxEdits /\ edits' = edits + 1 /\ Local \notin servers
  /\ UpsertServer(Local)
  /\ UNCHANGED <<projects, vault, booting, request, stops, ran, emptied, raced, onboarded>>

\* The deletion is not refused to a server with projects.
DeleteUnchecked(o, h) ==
  /\ Edit(o)
  /\ Asks(o, "delete server", h, NoHost)
  /\ UNCHANGED <<tables, vault, booting, stops, inventoryPast>>

\* CountProjectsByServer: a server in use is not deleted.
CheckUnused(o, h) ==
  /\ Edit(o) /\ h \in servers /\ Using(h) = {}
  /\ Asks(o, "delete server", h, NoHost)
  /\ UNCHANGED <<tables, vault, booting, stops, inventoryPast>>

\* DeleteServer; its credential stays.
DeleteServer(o) ==
  /\ request[o].op = "delete server"
  /\ LET h == request[o].host
     IN  /\ servers' = servers \ {h}
         /\ removed' = removed \cup {h}
         /\ emptied' = (emptied \/ servers \subseteq {h})
  /\ Answered(o)
  /\ UNCHANGED <<projects, vault, booting, bounds, ran, raced, onboarded>>

\* GetServer and the validation against it.
CheckProject(o, a, h) ==
  /\ Edit(o) /\ h \in servers
  /\ Asks(o, "save project", h, a)
  /\ UNCHANGED <<tables, vault, booting, stops, inventoryPast>>

UpsertProject(o) ==
  /\ request[o].op = "save project"
  /\ LET a == request[o].app  h == request[o].host
     IN  /\ projects' = [projects EXCEPT ![a] = h]
         /\ raced' = IF h \notin servers \/ Doomed(h)
                     THEN raced \cup {a} ELSE raced \ {a}
  /\ Answered(o)
  /\ UNCHANGED <<servers, vault, booting, bounds, ran, removed, emptied, onboarded>>

DeleteProject(o, a) ==
  /\ Edit(o) /\ projects[a] # NoHost
  /\ projects' = [projects EXCEPT ![a] = NoHost]
  /\ UNCHANGED <<servers, vault, booting, request, stops, inventoryPast>>

\* handleCredentialSave with the password the host has now, and handleCredentialDelete.
SetCredential(o, h) ==
  /\ Edit(o)
  /\ \E w \in {0, password[h]} : stored' = [stored EXCEPT ![h] = w]
  /\ onboarded' = [onboarded EXCEPT ![h] = 0]
  /\ UNCHANGED <<tables, password, booting, request, stops, ran, removed, emptied, raced>>

-----------------------------------------------------------------------------
(* Onboarding, one run at a time (onboardMu).  It gets as far as its last  *)
(* step only with the password the host has now.                           *)

Onboarding == {"put credential", "register"}
Unlocked   == \A o \in Admins : request[o].op \notin Onboarding

\* A server that is already there is left as it is, with the credential it has.
Onboard(o, h) ==
  /\ Unlocked /\ Edit(o) /\ h \notin servers
  /\ Asks(o, "put credential", h, NoHost)
  /\ UNCHANGED <<tables, vault, booting, stops, inventoryPast>>

\* A credential that is there is kept.
PutIfAbsent(o) ==
  /\ request[o].op = "put credential"
  /\ LET h == request[o].host
     IN  /\ stored' = [stored EXCEPT ![h] = IF @ = 0 THEN password[h] ELSE @]
         /\ Asks(o, "register", h, NoHost)
  /\ UNCHANGED <<tables, password, booting, bounds, inventoryPast>>

PutCredential(o) ==
  /\ request[o].op = "put credential"
  /\ LET h == request[o].host
     IN  stored' = [stored EXCEPT ![h] = password[h]] /\ Asks(o, "register", h, NoHost)
  /\ UNCHANGED <<tables, password, booting, bounds, inventoryPast>>

RegisterHost(o) ==
  /\ request[o].op = "register"
  /\ LET h == request[o].host
     IN  UpsertServer(h) /\ onboarded' = [onboarded EXCEPT ![h] = password[h]]
  /\ Answered(o)
  /\ UNCHANGED <<projects, vault, booting, bounds, ran, emptied, raced>>

\* The host's administrator changes its password, between runs of onboarding.
ChangePassword(h) ==
  /\ Unlocked /\ password[h] < MaxPasswords
  /\ password' = [password EXCEPT ![h] = @ + 1]
  /\ onboarded' = [onboarded EXCEPT ![h] = 0]
  /\ UNCHANGED <<tables, stored, booting, request, bounds, ran, removed, emptied, raced>>

Seeding ==
  \/ CountServers
  \/ \E h \in Hosts : ImportServer(h)
  \/ CountProjects
  \/ \E a \in Apps : ImportProject(a)
  \/ Fatal \/ ProvisionLocal \/ Serve

Requested(o) ==
  \/ \E h \in Hosts : SaveServer(o, h) \/ CheckUnused(o, h) \/ SetCredential(o, h) \/ Onboard(o, h)
  \/ \E a \in Apps : DeleteProject(o, a) \/ \E h \in Hosts : CheckProject(o, a, h)
  \/ DeleteServer(o) \/ UpsertProject(o) \/ PutCredential(o) \/ RegisterHost(o)

Next ==
  \/ Seeding \/ Stop \/ Boot \/ RunBootstrap
  \/ \E o \in Admins : Requested(o)
  \/ \E h \in Hosts : ChangePassword(h)

Spec == Init /\ [][Next]_inventoryVars

-----------------------------------------------------------------------------
(* Properties.                                                             *)

\* A project is without its server only if it was saved while the server was being deleted:
\* neither the import nor any sequence of requests that do not overlap gets there.
OrphansComeFromOverlap ==
  \A a \in Apps : projects[a] # NoHost => projects[a] \in servers \/ a \in raced

\* A server an operator deleted stays deleted across restarts, unless the table was emptied
\* in between.  The machine itself does not: a boot that provisions registers it again.
DeletedStaysDeleted == \A h \in removed \cap servers : h = Local \/ emptied

\* "After the first run the database is the source of truth and the dashboard manages the
\* inventory, so the files are not re-imported" (cmd/control-center/main.go): once the system
\* has run, no boot imports anything.
FilesAreNotReimported == ran /\ daemon \in {"servers", "projects"} => todo = {}

\* "store the credential and register the server" (internal/server/onboard.go): a server is
\* registered with the password its host has, whatever older credential an interrupted run or
\* a deleted server left, as long as neither is changed or deleted afterwards.
OnboardedIsReachable ==
  \A h \in Hosts : onboarded[h] # 0 => stored[h] \in {0, onboarded[h]}
=============================================================================
