--------------------------- MODULE MCControlPlane ---------------------------
(***************************************************************************)
(* The components of the control center that share no state with each      *)
(* other, checked in one run: the initial state chooses a part, and only   *)
(* the actions of that part happen.  The cfg file gives the constants.     *)
(***************************************************************************)
EXTENDS Naturals, FiniteSets, TLC

CONSTANTS
  Deliveries, Requests, NoDelivery, MaxArrivals, MaxFailures,
  Viewers, Sinks, LogLimit, MaxLines, MaxFaults,
  Browsers, Informed, Names, AdminUser, LockAfter, Window, LockFor, MaxTime, MaxBoots,
  Commands, MaxKeys, MaxKeyFaults,
  Targets, Interval, Timeout, Retention, MaxClock, MaxLost,
  Hosts, Apps, NoHost, YamlServers, YamlProjects, Local, Invalid, Admins, MaxEdits,
  MaxStops, MaxPasswords, h1, a1,
  Enabled, Runners, MaxMishaps, MaxRuns,
  Callers, MaxTunnels, MaxTroubles,
  Clicks, Repos, Urls, NoRepo, MaxSecrets, MaxErrors

VARIABLES
  part,
  record, request, busy, starts, inWindow, blocked, arrivals, failures,
  worker, status, log, written, viewer, posts, heard, trimmed, unwritten, faults,
  accounts, call, backoff, now, boots, registered,
  file, synced, phase, key, sealed, minted, torn, withdrawn, keyFaults,
  clock, watched, since, due, ticked, began, waiting, polling, latest, unstored, lost,
  servers, projects, stored, password, daemon, todo, admin, edits, stops, ran, removed,
  emptied, raced, onboarded,
  host, recorded, run, outcome, damaged, uninstalled, mishaps, runs,
  tunnels, ingress, cname, made, provision, provided, undercut, troubles,
  vaultSecret, hook, linked, click, secrets, unsettled, errors

webhookVars == <<record, request, busy, starts, inWindow, blocked, arrivals, failures>>
feedVars    == <<worker, status, log, written, viewer, posts, heard, trimmed, unwritten, faults>>
accessVars  == <<accounts, call, backoff, now, boots, registered>>
keyVars     == <<file, synced, phase, key, sealed, minted, torn, withdrawn, keyFaults>>
pollerVars  == <<clock, watched, since, due, ticked, began, waiting, polling, latest, unstored, lost>>
stockVars   == <<servers, projects, stored, password, daemon, todo, admin, edits, stops, ran, removed,
                 emptied, raced, onboarded>>
setupVars   == <<host, recorded, run, outcome, damaged, uninstalled, mishaps, runs>>
edgeVars    == <<tunnels, ingress, cname, made, provision, provided, undercut, troubles>>
connectVars == <<vaultSecret, hook, linked, click, secrets, unsettled, errors>>

Webhooks   == INSTANCE WebhookDelivery
Feed       == INSTANCE DeployFeed
Accounts   == INSTANCE Access
Vault      == INSTANCE MasterKey
Poller     == INSTANCE Monitoring
Stock      == INSTANCE Inventory WITH request <- admin
Setup      == INSTANCE Installation
Edge       == INSTANCE Tunnel
Connecting == INSTANCE GitHubConnect

\* The files name one server, and one project on it.
MCYamlServers  == {h1}
MCYamlProjects == a1 :> h1

ASSUME Bounds ==
  /\ Webhooks!DeliveriesAssumption /\ Feed!FeedBounds /\ Accounts!AccessBounds
  /\ Vault!KeyBounds /\ Poller!MonitoringBounds /\ Stock!InventoryBounds
  /\ Setup!InstallationBounds /\ Edge!TunnelBounds /\ Connecting!ConnectBounds

-----------------------------------------------------------------------------

Parts == {"webhooks", "feed", "accounts", "vault", "poller", "stock", "setup", "edge",
          "connecting"}

Init ==
  /\ part \in Parts
  /\ Webhooks!Init /\ Feed!Init /\ Accounts!Init /\ Vault!Init /\ Poller!Init
  /\ Stock!Init /\ Setup!Init /\ Edge!Init /\ Connecting!Init
  /\ part # "accounts" => accounts = {}

DeliverPushes ==
  /\ part = "webhooks" /\ Webhooks!Next
  /\ UNCHANGED <<part, feedVars, accessVars, keyVars, pollerVars, stockVars, setupVars,
                 edgeVars, connectVars>>

FollowDeployment ==
  /\ part = "feed" /\ Feed!Next
  /\ UNCHANGED <<part, webhookVars, accessVars, keyVars, pollerVars, stockVars, setupVars,
                 edgeVars, connectVars>>

SignIns ==
  /\ part = "accounts" /\ Accounts!Next
  /\ UNCHANGED <<part, webhookVars, feedVars, keyVars, pollerVars, stockVars, setupVars,
                 edgeVars, connectVars>>

LoadKeys ==
  /\ part = "vault" /\ Vault!Next
  /\ UNCHANGED <<part, webhookVars, feedVars, accessVars, pollerVars, stockVars, setupVars,
                 edgeVars, connectVars>>

PollServers ==
  /\ part = "poller" /\ Poller!Next
  /\ UNCHANGED <<part, webhookVars, feedVars, accessVars, keyVars, stockVars, setupVars,
                 edgeVars, connectVars>>

EditInventory ==
  /\ part = "stock" /\ Stock!Next
  /\ UNCHANGED <<part, webhookVars, feedVars, accessVars, keyVars, pollerVars, setupVars,
                 edgeVars, connectVars>>

ProvisionHost ==
  /\ part = "setup" /\ Setup!Next
  /\ UNCHANGED <<part, webhookVars, feedVars, accessVars, keyVars, pollerVars, stockVars,
                 edgeVars, connectVars>>

ProvisionTunnel ==
  /\ part = "edge" /\ Edge!Next
  /\ UNCHANGED <<part, webhookVars, feedVars, accessVars, keyVars, pollerVars, stockVars,
                 setupVars, connectVars>>

ConnectRepository ==
  /\ part = "connecting" /\ Connecting!Next
  /\ UNCHANGED <<part, webhookVars, feedVars, accessVars, keyVars, pollerVars, stockVars,
                 setupVars, edgeVars>>

Next ==
  \/ DeliverPushes
  \/ FollowDeployment
  \/ SignIns
  \/ LoadKeys
  \/ PollServers
  \/ EditInventory
  \/ ProvisionHost
  \/ ProvisionTunnel
  \/ ConnectRepository

Spec == Init /\ [][Next]_<<part, webhookVars, feedVars, accessVars, keyVars, pollerVars, stockVars,
                           setupVars, edgeVars, connectVars>>

-----------------------------------------------------------------------------
(* The properties of the modules, where they are explained.                *)

\* Every variable of every part has its type.
TypeOK ==
  /\ part \in Parts
  /\ Webhooks!TypeOK /\ Feed!TypeOK /\ Accounts!TypeOK /\ Vault!TypeOK /\ Poller!TypeOK
  /\ Stock!TypeOK /\ Setup!TypeOK /\ Edge!TypeOK /\ Connecting!TypeOK

\* Copies of a push start one deployment while its record is fresh (webhook.go).
OneDeploymentPerWindow == Webhooks!OneDeploymentPerWindow

\* A push answered as a duplicate was started or is being tried (store.go).
DuplicateMeansStarted == Webhooks!DuplicateMeansStarted

\* An event stream shows the log, and all of it before the verdict (deploy_stream.go).
StreamIsFaithful == Feed!StreamIsFaithful

\* What a sink hears of the outcome is what the history says (deployer.go).
SinksHearTheVerdict == Feed!SinksHearTheVerdict

\* Overlapping first-run registrations make one account (auth.go).
OneAdministrator == Accounts!OneAdministrator

\* The backoff bounds guessing although requests overtake it (auth.go).
GuessesAreBounded == Accounts!GuessesAreBounded

\* Every process seals and opens credentials with the same key (credentials.go).
SecretsStayReadable == Vault!SecretsStayReadable

\* No error path leaves a key file without a key (credentials.go).
UnfinishedKeyHasWriter == Vault!UnfinishedKeyHasWriter

\* A card goes stale only when nobody polls (scheduler.go).
StaleMeansNotPolled == Poller!StaleMeansNotPolled

\* A project loses its server only to an overlapping deletion (admin.go).
OrphansComeFromOverlap == Stock!OrphansComeFromOverlap

\* No boot brings a deleted server back into a table that was never emptied, but for the
\* machine itself (main.go).
DeletedStaysDeleted == Stock!DeletedStaysDeleted

\* A server is onboarded with the password it has (onboard.go).
OnboardedIsReachable == Stock!OnboardedIsReachable

\* A provisioning run that ends well leaves every check satisfied (bootstrap.go).
GoodRunsSatisfyTheChecks == Setup!GoodRunsSatisfyTheChecks

\* A tunnel that was provisioned is routed and named by its record (tunnel.go).
ProvisionedIsReachable == Edge!ProvisionedIsReachable

\* The hook a repository was linked with signs with the stored secret (main.go).
LinkedPushesVerify == Connecting!LinkedPushesVerify
=============================================================================
