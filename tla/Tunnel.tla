------------------------------- MODULE Tunnel -------------------------------
(***************************************************************************)
(* Provision of internal/tunnel/tunnel.go: a tunnel of the configured      *)
(* name, its connector token, its ingress and the wildcard CNAME, one      *)
(* request to the provider after the other.  Any request may fail before   *)
(* or after it took effect, runs are repeated and may overlap, and an      *)
(* operator may delete tunnels and records in the provider's dashboard.    *)
(*                                                                         *)
(* The provider is external: it keeps one tunnel per name and one record   *)
(* per host, and refuses a second.                                         *)
(***************************************************************************)
EXTENDS Naturals

CONSTANTS
  Callers,      \* runs that may overlap
  MaxTunnels,   \* bound: tunnels ever created
  MaxTroubles   \* bound: failing requests and deletions

\* What the constants are assumed to be; the MC module that instantiates them states it.
TunnelBounds == {MaxTunnels, MaxTroubles} \subseteq Nat

VARIABLES
  tunnels,      \* the tunnels of that name
  ingress,      \* tunnels whose ingress sends the wildcard host to Caddy
  cname,        \* the tunnel the record names, 0: no record
  made,         \* tunnels created so far
  provision,    \* the request each run is about to send, and its tunnel
  provided,     \* the tunnel each run last succeeded with, 0: none
  undercut,     \* history: a tunnel was deleted that a record or a run named
  troubles      \* failures and deletions so far

provider   == <<tunnels, ingress, cname, made>>
tunnelVars == <<provider, provision, provided, undercut, troubles>>

-----------------------------------------------------------------------------

TunnelIds     == 1..MaxTunnels
ProviderCalls == {"none", "list tunnels", "create tunnel", "get token", "put ingress",
                  "list records", "create record"}
NotRunning    == [request |-> "none", tunnel |-> 0]

TypeOK ==
  /\ tunnels \subseteq TunnelIds /\ ingress \subseteq TunnelIds
  /\ cname \in {0} \cup TunnelIds /\ made \in 0..MaxTunnels
  /\ provision \in [Callers -> [request : ProviderCalls, tunnel : {0} \cup TunnelIds]]
  /\ provided \in [Callers -> {0} \cup TunnelIds]
  /\ undercut \in BOOLEAN /\ troubles \in 0..MaxTroubles

Init ==
  /\ tunnels = {} /\ ingress = {} /\ cname = 0 /\ made = 0
  /\ provision = [c \in Callers |-> NotRunning] /\ provided = [c \in Callers |-> 0]
  /\ undercut = FALSE /\ troubles = 0

Sends(c, request) == provision[c].request = request
Goes(c, request, t) == provision' = [provision EXCEPT ![c] = [request |-> request, tunnel |-> t]]
GoesOn(c, request)  == provision' = [provision EXCEPT ![c].request = request]
Fails(c)   == provision' = [provision EXCEPT ![c] = NotRunning]
Trouble    == troubles < MaxTroubles /\ troubles' = troubles + 1

-----------------------------------------------------------------------------

\* The zone is known or has been looked up.
Begin(c) ==
  /\ Sends(c, "none")
  /\ Goes(c, "list tunnels", 0)
  /\ provided' = [provided EXCEPT ![c] = 0]
  /\ UNCHANGED <<provider, undercut, troubles>>

\* A tunnel that exists needs no ingress.
ReuseConfigured(c) ==
  /\ Sends(c, "list tunnels")
  /\ IF tunnels = {} THEN Goes(c, "create tunnel", 0)
     ELSE \E t \in tunnels : Goes(c, "list records", t)
  /\ UNCHANGED <<provider, provided, undercut, troubles>>

\* ensureTunnel takes the tunnel that has the name.
ListTunnels(c) ==
  /\ Sends(c, "list tunnels")
  /\ IF tunnels = {} THEN Goes(c, "create tunnel", 0)
     ELSE \E t \in tunnels : Goes(c, "get token", t)
  /\ UNCHANGED <<provider, provided, undercut, troubles>>

CreateTunnel(c) ==
  /\ Sends(c, "create tunnel")
  /\ IF tunnels # {} THEN Fails(c) /\ UNCHANGED <<tunnels, made>>
     ELSE /\ made < MaxTunnels /\ made' = made + 1
          /\ tunnels' = {made + 1}
          /\ Goes(c, "get token", made + 1)
  /\ UNCHANGED <<ingress, cname, provided, undercut, troubles>>

TunnelToken(c) ==
  /\ Sends(c, "get token")
  /\ IF provision[c].tunnel \in tunnels THEN GoesOn(c, "put ingress") ELSE Fails(c)
  /\ UNCHANGED <<provider, provided, undercut, troubles>>

SetIngress(c) ==
  /\ Sends(c, "put ingress")
  /\ IF provision[c].tunnel \in tunnels
     THEN ingress' = ingress \cup {provision[c].tunnel} /\ GoesOn(c, "list records")
     ELSE Fails(c) /\ UNCHANGED ingress
  /\ UNCHANGED <<tunnels, cname, made, provided, undercut, troubles>>

Succeeds(c) == Fails(c) /\ provided' = [provided EXCEPT ![c] = provision[c].tunnel]

\* ensureDNS is content with any record of that host, whichever tunnel it names.
ListRecords(c) ==
  /\ Sends(c, "list records")
  /\ IF cname # 0 THEN Succeeds(c) ELSE GoesOn(c, "create record") /\ UNCHANGED provided
  /\ UNCHANGED <<provider, undercut, troubles>>

CreateRecord(c) ==
  /\ Sends(c, "create record")
  /\ IF cname = 0 THEN Succeeds(c) /\ cname' = provision[c].tunnel
     ELSE Fails(c) /\ UNCHANGED <<cname, provided>>
  /\ UNCHANGED <<tunnels, ingress, made, undercut, troubles>>

\* A request fails without an effect, or its answer is lost.
Unanswered(c) ==
  /\ Trouble /\ ~Sends(c, "none")
  /\ Fails(c)
  /\ LET t == provision[c].tunnel
     IN  \/ Sends(c, "create tunnel") /\ tunnels = {} /\ made < MaxTunnels
            /\ made' = made + 1 /\ tunnels' = {made + 1} /\ UNCHANGED <<ingress, cname>>
         \/ Sends(c, "put ingress") /\ t \in tunnels
            /\ ingress' = ingress \cup {t} /\ UNCHANGED <<tunnels, cname, made>>
         \/ Sends(c, "create record") /\ cname = 0
            /\ cname' = t /\ UNCHANGED <<tunnels, ingress, made>>
         \/ UNCHANGED provider
  /\ UNCHANGED <<provided, undercut>>

-----------------------------------------------------------------------------
(* The dashboard.                                                          *)

\* A record that names the tunnel stays.
DeleteTunnel(t) ==
  /\ Trouble /\ t \in tunnels
  /\ tunnels' = tunnels \ {t}
  /\ undercut' = (undercut \/ cname = t \/ \E c \in Callers : provision[c].tunnel = t)
  /\ provided' = [c \in Callers |-> 0]
  /\ UNCHANGED <<ingress, cname, made, provision>>

DeleteRecord ==
  /\ Trouble /\ cname # 0
  /\ cname' = 0 /\ provided' = [c \in Callers |-> 0]
  /\ UNCHANGED <<tunnels, ingress, made, provision, undercut>>

Next ==
  \/ \E c \in Callers :
       \/ Begin(c) \/ ListTunnels(c) \/ CreateTunnel(c) \/ TunnelToken(c) \/ SetIngress(c)
       \/ ListRecords(c) \/ CreateRecord(c) \/ Unanswered(c)
  \/ \E t \in tunnels : DeleteTunnel(t)
  \/ DeleteRecord

Spec == Init /\ [][Next]_tunnelVars

-----------------------------------------------------------------------------
(* Properties.                                                             *)

\* "Every call is idempotent, so re-running is safe" (tunnel.go): a run that succeeds,
\* whatever overlapping or failed runs did before it, leaves the record at its tunnel and
\* the tunnel routed, unless a tunnel was deleted whose record stayed or that a run used.
ProvisionedIsReachable ==
  \A c \in Callers : provided[c] # 0 /\ ~undercut =>
    /\ provided[c] \in tunnels \cap ingress
    /\ cname = provided[c]
=============================================================================
