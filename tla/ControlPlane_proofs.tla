------------------------- MODULE ControlPlane_proofs -------------------------
(***************************************************************************)
(* Proofs about the components of MCControlPlane, for any constants: each  *)
(* part of the combined run behaves as its own module says                 *)
(* (PartsKeepTheirSpecs), so what is proved of a module holds in the run.  *)
(*                                                                         *)
(* Every section states the inductive invariant of one part, why the       *)
(* property alone is not inductive, and one lemma for each action or for   *)
(* a group of actions that disturb the same conjuncts.                     *)
(***************************************************************************)
EXTENDS MCControlPlane, FiniteSetTheorems, TLAPS

KeyProofs == INSTANCE MasterKey_proofs

controlPlane == <<part, webhookVars, feedVars, accessVars, keyVars, pollerVars, stockVars,
                  setupVars, edgeVars, connectVars>>

-----------------------------------------------------------------------------
(* The parts.                                                              *)

LEMMA WebhookSteps == [Next]_controlPlane => Webhooks!Next \/ UNCHANGED webhookVars
  BY DEF Next, DeliverPushes, FollowDeployment, SignIns, LoadKeys, PollServers, EditInventory,
     ProvisionHost, ProvisionTunnel, ConnectRepository, controlPlane, webhookVars

LEMMA FeedSteps == [Next]_controlPlane => Feed!Next \/ UNCHANGED feedVars
  BY DEF Next, DeliverPushes, FollowDeployment, SignIns, LoadKeys, PollServers, EditInventory,
     ProvisionHost, ProvisionTunnel, ConnectRepository, controlPlane, feedVars

LEMMA AccessSteps == [Next]_controlPlane => Accounts!Next \/ UNCHANGED accessVars
  BY DEF Next, DeliverPushes, FollowDeployment, SignIns, LoadKeys, PollServers, EditInventory,
     ProvisionHost, ProvisionTunnel, ConnectRepository, controlPlane, accessVars

LEMMA KeySteps == [Next]_controlPlane => Vault!Next \/ UNCHANGED keyVars
  BY DEF Next, DeliverPushes, FollowDeployment, SignIns, LoadKeys, PollServers, EditInventory,
     ProvisionHost, ProvisionTunnel, ConnectRepository, controlPlane, keyVars

LEMMA PollerSteps == [Next]_controlPlane => Poller!Next \/ UNCHANGED pollerVars
  BY DEF Next, DeliverPushes, FollowDeployment, SignIns, LoadKeys, PollServers, EditInventory,
     ProvisionHost, ProvisionTunnel, ConnectRepository, controlPlane, pollerVars

LEMMA StockSteps == [Next]_controlPlane => Stock!Next \/ UNCHANGED stockVars
  BY DEF Next, DeliverPushes, FollowDeployment, SignIns, LoadKeys, PollServers, EditInventory,
     ProvisionHost, ProvisionTunnel, ConnectRepository, controlPlane, stockVars

LEMMA SetupSteps == [Next]_controlPlane => Setup!Next \/ UNCHANGED setupVars
  BY DEF Next, DeliverPushes, FollowDeployment, SignIns, LoadKeys, PollServers, EditInventory,
     ProvisionHost, ProvisionTunnel, ConnectRepository, controlPlane, setupVars

LEMMA EdgeSteps == [Next]_controlPlane => Edge!Next \/ UNCHANGED edgeVars
  BY DEF Next, DeliverPushes, FollowDeployment, SignIns, LoadKeys, PollServers, EditInventory,
     ProvisionHost, ProvisionTunnel, ConnectRepository, controlPlane, edgeVars

LEMMA ConnectSteps == [Next]_controlPlane => Connecting!Next \/ UNCHANGED connectVars
  BY DEF Next, DeliverPushes, FollowDeployment, SignIns, LoadKeys, PollServers, EditInventory,
     ProvisionHost, ProvisionTunnel, ConnectRepository, controlPlane, connectVars

\* The run of all parts at once adds nothing to what each module allows: every behaviour of
\* MCControlPlane is one of each component's own specification.
THEOREM PartsKeepTheirSpecs ==
  Spec => /\ Webhooks!Spec /\ Feed!Spec /\ Accounts!Spec /\ Vault!Spec /\ Poller!Spec
          /\ Stock!Spec /\ Setup!Spec /\ Edge!Spec /\ Connecting!Spec
<1>1. Init => /\ Webhooks!Init /\ Feed!Init /\ Accounts!Init /\ Vault!Init /\ Poller!Init
              /\ Stock!Init /\ Setup!Init /\ Edge!Init /\ Connecting!Init
  BY DEF Init
<1>2. [Next]_controlPlane => /\ Webhooks!Next \/ UNCHANGED Webhooks!vars
                             /\ Feed!Next \/ UNCHANGED Feed!feedVars
                             /\ Accounts!Next \/ UNCHANGED Accounts!accessVars
                             /\ Vault!Next \/ UNCHANGED Vault!keyVars
                             /\ Poller!Next \/ UNCHANGED Poller!monitoringVars
                             /\ Stock!Next \/ UNCHANGED Stock!inventoryVars
                             /\ Setup!Next \/ UNCHANGED Setup!installationVars
                             /\ Edge!Next \/ UNCHANGED Edge!tunnelVars
                             /\ Connecting!Next \/ UNCHANGED Connecting!connectVars
  <2> SUFFICES ASSUME [Next]_controlPlane
               PROVE  /\ Webhooks!Next \/ UNCHANGED Webhooks!vars
                      /\ Feed!Next \/ UNCHANGED Feed!feedVars
                      /\ Accounts!Next \/ UNCHANGED Accounts!accessVars
                      /\ Vault!Next \/ UNCHANGED Vault!keyVars
                      /\ Poller!Next \/ UNCHANGED Poller!monitoringVars
                      /\ Stock!Next \/ UNCHANGED Stock!inventoryVars
                      /\ Setup!Next \/ UNCHANGED Setup!installationVars
                      /\ Edge!Next \/ UNCHANGED Edge!tunnelVars
                      /\ Connecting!Next \/ UNCHANGED Connecting!connectVars
    OBVIOUS
  <2>1. Webhooks!Next \/ UNCHANGED Webhooks!vars
    BY WebhookSteps DEF webhookVars, Webhooks!vars
  <2>2. Feed!Next \/ UNCHANGED Feed!feedVars
    BY FeedSteps DEF feedVars, Feed!feedVars, Feed!row, Feed!outside
  <2>3. Accounts!Next \/ UNCHANGED Accounts!accessVars
    BY AccessSteps DEF accessVars, Accounts!accessVars, Accounts!people
  <2>4. Vault!Next \/ UNCHANGED Vault!keyVars
    BY KeySteps DEF keyVars, Vault!keyVars, Vault!disk, Vault!past
  <2>5. Poller!Next \/ UNCHANGED Poller!monitoringVars
    BY PollerSteps DEF pollerVars, Poller!monitoringVars, Poller!timer, Poller!cycle
  <2>6. Stock!Next \/ UNCHANGED Stock!inventoryVars
    BY StockSteps DEF stockVars, Stock!inventoryVars, Stock!tables, Stock!vault, Stock!booting,
       Stock!bounds, Stock!inventoryPast
  <2>7. Setup!Next \/ UNCHANGED Setup!installationVars
    BY SetupSteps DEF setupVars, Setup!installationVars
  <2>8. Edge!Next \/ UNCHANGED Edge!tunnelVars
    BY EdgeSteps DEF edgeVars, Edge!tunnelVars, Edge!provider
  <2>9. Connecting!Next \/ UNCHANGED Connecting!connectVars
    BY ConnectSteps DEF connectVars, Connecting!connectVars
  <2>10. QED
    BY <2>1, <2>2, <2>3, <2>4, <2>5, <2>6, <2>7, <2>8, <2>9
<1>3. QED
  BY <1>1, <1>2, PTL DEF Spec, controlPlane, Webhooks!Spec, Feed!Spec, Accounts!Spec, Vault!Spec,
     Poller!Spec, Stock!Spec, Setup!Spec, Edge!Spec, Connecting!Spec

-----------------------------------------------------------------------------
(* The key file: MasterKey_proofs.                                         *)

LEMMA KeySpec == Vault!Spec => KeyProofs!Spec
<1>1. Vault!Init => KeyProofs!Init
  BY DEF Vault!Init, KeyProofs!Init, Vault!Absent, KeyProofs!Absent, Vault!NoKey, KeyProofs!NoKey
<1>2. Vault!Next \/ UNCHANGED Vault!keyVars => KeyProofs!Next \/ UNCHANGED KeyProofs!keyVars
  BY DEF Vault!Next, KeyProofs!Next, Vault!keyVars, KeyProofs!keyVars, Vault!disk, KeyProofs!disk,
     Vault!past, KeyProofs!past, Vault!Start, KeyProofs!Start, Vault!Read, KeyProofs!Read,
     Vault!Create, KeyProofs!Create, Vault!Reread, KeyProofs!Reread, Vault!Write,
     KeyProofs!Write, Vault!Sync, KeyProofs!Sync, Vault!RemoveFile, KeyProofs!RemoveFile,
     Vault!Seal, KeyProofs!Seal, Vault!Exit, KeyProofs!Exit, Vault!PowerCut, KeyProofs!PowerCut,
     Vault!Moves, KeyProofs!Moves, Vault!KeyFault, KeyProofs!KeyFault, Vault!Decode,
     KeyProofs!Decode, Vault!Shared, KeyProofs!Shared, Vault!Whole, KeyProofs!Whole, Vault!Keys,
     KeyProofs!Keys, Vault!NoKey, KeyProofs!NoKey, Vault!Absent, KeyProofs!Absent,
     Vault!Unfinished, KeyProofs!Unfinished
<1>3. QED
  BY <1>1, <1>2, PTL DEF Vault!Spec, KeyProofs!Spec

\* The credentials sealed by any of the processes stay readable for all of them.
THEOREM CredentialsStayReadable == Spec => []SecretsStayReadable
<1>1. Vault!KeyBounds
  BY Bounds
<1>2. KeyProofs!KeyBounds
  BY <1>1 DEF Vault!KeyBounds, KeyProofs!KeyBounds
<1>3. KeyProofs!Spec => []KeyProofs!SecretsStayReadable
  BY <1>2, KeyProofs!SecretsAlwaysReadable
<1>4. KeyProofs!SecretsStayReadable => SecretsStayReadable
  BY DEF KeyProofs!SecretsStayReadable, SecretsStayReadable, Vault!SecretsStayReadable
<1>5. QED
  BY <1>3, <1>4, PartsKeepTheirSpecs, KeySpec, PTL

\* No error path of any process leaves a key file that the next start cannot use.
THEOREM UnfinishedKeyIsFinished == Spec => []UnfinishedKeyHasWriter
<1>1. Vault!KeyBounds
  BY Bounds
<1>2. KeyProofs!KeyBounds
  BY <1>1 DEF Vault!KeyBounds, KeyProofs!KeyBounds
<1>3. KeyProofs!Spec => []KeyProofs!UnfinishedKeyHasWriter
  BY <1>2, KeyProofs!UnfinishedKeyAlwaysHasWriter
<1>4. KeyProofs!UnfinishedKeyHasWriter => UnfinishedKeyHasWriter
  BY DEF KeyProofs!UnfinishedKeyHasWriter, UnfinishedKeyHasWriter, Vault!UnfinishedKeyHasWriter,
     KeyProofs!Unfinished, Vault!Unfinished
<1>5. QED
  BY <1>3, <1>4, PartsKeepTheirSpecs, KeySpec, PTL

-----------------------------------------------------------------------------
(* Push webhooks: WebhookDelivery.                                         *)
(*                                                                         *)
(* That a delivery starts once is not inductive: two requests could own    *)
(* its record.  OwnerInv says that they cannot, and that the record of an  *)
(* owner stays fresh and has started nothing yet.                          *)

Owns(r)      == request[r].stage \in {"recorded", "guarded", "refused"}
CarriedBy(r) == request[r].delivery

WebhookTypes ==
  /\ record   \in [Deliveries -> {"absent", "fresh", "stale"}]
  /\ request  \in [Requests -> Webhooks!Request]
  /\ inWindow \in [Deliveries -> Nat]
  /\ \A r \in Requests : IF request[r].stage = "idle" THEN request[r] = Webhooks!IdleRequest
                                                      ELSE CarriedBy(r) \in Deliveries

OwnerInv ==
  /\ \A q, r \in Requests : Owns(q) /\ Owns(r) /\ CarriedBy(q) = CarriedBy(r) => q = r
  /\ \A r \in Requests : Owns(r) => record[CarriedBy(r)] = "fresh" /\ inWindow[CarriedBy(r)] = 0
  /\ \A d \in Deliveries : record[d] # "fresh" => inWindow[d] = 0

WebhookInv == WebhookTypes /\ OwnerInv /\ OneDeploymentPerWindow /\ DuplicateMeansStarted

LEMMA WebhookInit == Webhooks!Init => WebhookInv
  BY DEF Webhooks!Init, WebhookInv, WebhookTypes, OwnerInv, Owns, CarriedBy, Webhooks!Request,
     Webhooks!IdleRequest, OneDeploymentPerWindow, Webhooks!OneDeploymentPerWindow,
     DuplicateMeansStarted, Webhooks!DuplicateMeansStarted

\* The three ways a request changes.
LEMMA GotoFields ==
  ASSUME WebhookTypes, NEW r \in Requests, Webhooks!Goto(r, "recorded") \/
         Webhooks!Goto(r, "guarded") \/ Webhooks!Goto(r, "refused")
  PROVE  /\ request' \in [Requests -> Webhooks!Request]
         /\ \A q \in Requests \ {r} : request'[q] = request[q]
         /\ Owns(r)' /\ CarriedBy(r)' = CarriedBy(r)
<1>1. PICK stage \in {"recorded", "guarded", "refused"} :
        request' = [request EXCEPT ![r] = [request[r] EXCEPT !.stage = stage]]
  BY DEF Webhooks!Goto
<1> DEFINE new == [request[r] EXCEPT !.stage = stage]
<1>2. request[r] \in Webhooks!Request
  BY DEF WebhookTypes
<1>3. /\ new \in Webhooks!Request /\ new.stage = stage /\ new.delivery = request[r].delivery
  BY <1>2 DEF Webhooks!Request
<1> HIDE DEF new
<1>4. /\ request' \in [Requests -> Webhooks!Request]
      /\ request'[r] = new
      /\ \A q \in Requests \ {r} : request'[q] = request[q]
  BY <1>1, <1>3 DEF WebhookTypes, new
<1>5. QED
  BY <1>3, <1>4 DEF Owns, CarriedBy

LEMMA AnswerFields ==
  ASSUME WebhookTypes, NEW r \in Requests, Webhooks!Answer(r)
  PROVE  /\ request' \in [Requests -> Webhooks!Request]
         /\ \A q \in Requests \ {r} : request'[q] = request[q]
         /\ request'[r] = Webhooks!IdleRequest /\ ~Owns(r)'
  BY DEF WebhookTypes, Webhooks!Answer, Webhooks!IdleRequest, Webhooks!Request, Owns

LEMMA HangUpFields ==
  ASSUME WebhookTypes, NEW r \in Requests, Webhooks!HangUp(r)
  PROVE  /\ request' \in [Requests -> Webhooks!Request]
         /\ \A q \in Requests \ {r} : request'[q] = request[q]
         /\ request'[r].stage = request[r].stage /\ CarriedBy(r)' = CarriedBy(r)
         /\ request[r].stage # "idle"
<1> DEFINE new == [request[r] EXCEPT !.hungUp = TRUE]
<1>1. request[r] \in Webhooks!Request
  BY DEF WebhookTypes
<1>2. new \in Webhooks!Request /\ new.stage = request[r].stage /\ new.delivery = request[r].delivery
  BY <1>1 DEF Webhooks!Request
<1>3. request' = [request EXCEPT ![r] = new]
  BY DEF Webhooks!HangUp
<1> HIDE DEF new
<1>4. QED
  BY <1>2, <1>3 DEF WebhookTypes, CarriedBy, Webhooks!HangUp, Webhooks!At

\* A request that arrives or is hung up on owns what it owned.
LEMMA ArriveKeeps ==
  ASSUME WebhookInv, NEW r \in Requests, NEW d \in Deliveries,
         Webhooks!Arrive(r, d) \/ Webhooks!HangUp(r)
  PROVE  WebhookInv'
<1>1. /\ request' \in [Requests -> Webhooks!Request]
      /\ \A q \in Requests \ {r} : request'[q] = request[q]
      /\ request'[r].stage # "idle" /\ request'[r].delivery \in Deliveries
      /\ Owns(r)' <=> Owns(r)
      /\ Owns(r) => CarriedBy(r)' = CarriedBy(r)
  <2>1. CASE Webhooks!Arrive(r, d)
    BY <2>1 DEF WebhookInv, WebhookTypes, Webhooks!Arrive, Webhooks!Request, Webhooks!IdleRequest,
       Owns, CarriedBy
  <2>2. CASE Webhooks!HangUp(r)
    BY <2>2, HangUpFields DEF WebhookInv, WebhookTypes, Owns, CarriedBy
  <2>3. QED
    BY <2>1, <2>2
<1>2. UNCHANGED <<record, inWindow, blocked>>
  BY DEF Webhooks!Arrive, Webhooks!HangUp
<1>3. \A q \in Requests : /\ Owns(q)' <=> Owns(q)
                          /\ Owns(q) => CarriedBy(q)' = CarriedBy(q)
  BY <1>1 DEF Owns, CarriedBy
<1>4. WebhookTypes'
  BY <1>1, <1>2 DEF WebhookInv, WebhookTypes, CarriedBy
<1>5. QED
  BY <1>2, <1>3, <1>4 DEF WebhookInv, OwnerInv, OneDeploymentPerWindow,
     Webhooks!OneDeploymentPerWindow, DuplicateMeansStarted, Webhooks!DuplicateMeansStarted,
     Owns, CarriedBy

LEMMA RecordKeeps ==
  ASSUME WebhookInv, NEW r \in Requests, Webhooks!RecordWebhookDelivery(r)
  PROVE  WebhookInv'
<1> DEFINE d == request[r].delivery
<1>1. d \in Deliveries /\ ~Owns(r) /\ UNCHANGED <<inWindow, blocked>>
  BY DEF WebhookInv, WebhookTypes, CarriedBy, Owns, Webhooks!RecordWebhookDelivery, Webhooks!At
<1>2. CASE Webhooks!Answer(r) /\ UNCHANGED record
  <2>1. /\ request' \in [Requests -> Webhooks!Request]
        /\ request'[r] = Webhooks!IdleRequest
        /\ \A q \in Requests \ {r} : request'[q] = request[q]
    BY <1>2 DEF WebhookInv, WebhookTypes, Webhooks!Answer, Webhooks!IdleRequest, Webhooks!Request
  <2>2. \A q \in Requests : /\ Owns(q)' <=> Owns(q)
                            /\ Owns(q) => CarriedBy(q)' = CarriedBy(q)
    BY <1>1, <2>1 DEF Owns, CarriedBy, Webhooks!IdleRequest
  <2>3. WebhookTypes'
    BY <1>1, <1>2, <2>1 DEF WebhookInv, WebhookTypes, CarriedBy, Webhooks!IdleRequest
  <2>4. QED
    BY <1>1, <1>2, <2>2, <2>3 DEF WebhookInv, OwnerInv, OneDeploymentPerWindow,
       Webhooks!OneDeploymentPerWindow, DuplicateMeansStarted, Webhooks!DuplicateMeansStarted,
       Owns, CarriedBy
<1>3. ASSUME NEW old \in SUBSET {e \in Deliveries : record[e] = "stale"},
             record' = [e \in Deliveries |-> IF e = d THEN "fresh"
                                             ELSE IF e \in old THEN "absent" ELSE record[e]],
             IF record[d] = "fresh" THEN Webhooks!Answer(r) ELSE Webhooks!Goto(r, "recorded")
      PROVE  WebhookInv'
  <2>1. /\ record' \in [Deliveries -> {"absent", "fresh", "stale"}]
        /\ record'[d] = "fresh"
        /\ \A e \in Deliveries \ {d} : record'[e] = "fresh" <=> record[e] = "fresh"
    BY <1>1, <1>3 DEF WebhookInv, WebhookTypes
  <2>2. /\ request' \in [Requests -> Webhooks!Request]
        /\ \A q \in Requests \ {r} : request'[q] = request[q]
        /\ IF record[d] = "fresh" THEN request'[r] = Webhooks!IdleRequest
           ELSE request'[r].stage = "recorded" /\ request'[r].delivery = d
    <3>1. WebhookTypes
      BY DEF WebhookInv
    <3>2. CASE record[d] = "fresh"
      BY <1>3, <3>1, <3>2, AnswerFields
    <3>3. CASE record[d] # "fresh"
      <4>1. Webhooks!Goto(r, "recorded")
        BY <1>3, <3>3
      <4>2. request'[r].stage = "recorded"
        BY <3>1, <4>1 DEF Webhooks!Goto, WebhookTypes, Webhooks!Request
      <4>3. QED
        BY <3>1, <3>3, <4>1, <4>2, GotoFields DEF CarriedBy
    <3>4. QED
      BY <3>2, <3>3
  <2>3. \A q \in Requests \ {r} : /\ Owns(q)' <=> Owns(q)
                                  /\ CarriedBy(q)' = CarriedBy(q)
    BY <2>2 DEF Owns, CarriedBy
  <2>4. \A q \in Requests : Owns(q) /\ CarriedBy(q) = d => record[d] = "fresh"
    BY DEF WebhookInv, OwnerInv
  <2>5. Owns(r)' => record[d] # "fresh" /\ CarriedBy(r)' = d /\ inWindow[d] = 0
    BY <1>1, <2>2 DEF Owns, CarriedBy, Webhooks!IdleRequest, WebhookInv, OwnerInv
  <2>6. record[d] # "fresh" => Owns(r)' /\ CarriedBy(r)' = d
    BY <2>2 DEF Owns, CarriedBy
  <2>7. WebhookTypes'
    BY <1>1, <2>1, <2>2 DEF WebhookInv, WebhookTypes, CarriedBy, Webhooks!IdleRequest
  <2>8. OwnerInv'
    <3>1. ASSUME NEW p \in Requests, NEW q \in Requests, Owns(p)', Owns(q)',
                 CarriedBy(p)' = CarriedBy(q)'
          PROVE  p = q
      BY <2>3, <2>4, <2>5, <3>1 DEF WebhookInv, OwnerInv
    <3>2. ASSUME NEW q \in Requests, Owns(q)'
          PROVE  record'[CarriedBy(q)'] = "fresh" /\ inWindow'[CarriedBy(q)'] = 0
      <4>1. CASE q = r
        BY <1>1, <2>1, <2>5, <3>2, <4>1
      <4>2. CASE q # r
        BY <1>1, <2>1, <2>3, <3>2, <4>2 DEF WebhookInv, OwnerInv, WebhookTypes, Owns, CarriedBy
      <4>3. QED
        BY <4>1, <4>2
    <3>3. ASSUME NEW e \in Deliveries, record'[e] # "fresh" PROVE inWindow'[e] = 0
      BY <1>1, <2>1, <3>3 DEF WebhookInv, OwnerInv
    <3>4. QED
      BY <3>1, <3>2, <3>3 DEF OwnerInv
  <2>9. OneDeploymentPerWindow'
    BY <1>1 DEF WebhookInv, OneDeploymentPerWindow, Webhooks!OneDeploymentPerWindow
  <2>10. DuplicateMeansStarted'
    <3>1. SUFFICES ASSUME NEW e \in Deliveries, record'[e] = "fresh", inWindow'[e] # 1,
                          e \notin blocked'
                   PROVE  \E q \in Requests : CarriedBy(q)' = e /\ Owns(q)'
      BY DEF DuplicateMeansStarted, Webhooks!DuplicateMeansStarted, Owns, CarriedBy
    <3>2. CASE e = d /\ record[d] # "fresh"
      BY <2>6, <3>2
    <3>3. CASE record[e] = "fresh"
      <4>1. PICK q \in Requests : CarriedBy(q) = e /\ Owns(q)
        BY <1>1, <3>1, <3>3 DEF WebhookInv, DuplicateMeansStarted,
           Webhooks!DuplicateMeansStarted, Owns, CarriedBy
      <4>2. QED
        BY <1>1, <2>3, <4>1
    <3>4. QED
      BY <2>1, <3>1, <3>2, <3>3
  <2>11. QED
    BY <2>7, <2>8, <2>9, <2>10 DEF WebhookInv
<1>4. QED
  BY <1>2, <1>3 DEF Webhooks!RecordWebhookDelivery

LEMMA TakeGuardKeeps ==
  ASSUME WebhookInv, NEW r \in Requests, Webhooks!TakeGuard(r)
  PROVE  WebhookInv'
<1>1. WebhookTypes /\ Owns(r) /\ CarriedBy(r) \in Deliveries /\ UNCHANGED <<record, inWindow, blocked>>
  BY DEF WebhookInv, WebhookTypes, Webhooks!TakeGuard, Webhooks!At, Owns
<1>2. Webhooks!Goto(r, "guarded") \/ Webhooks!Goto(r, "refused")
  BY DEF Webhooks!TakeGuard
<1>3. /\ request' \in [Requests -> Webhooks!Request]
      /\ \A q \in Requests \ {r} : request'[q] = request[q]
      /\ Owns(r)' /\ CarriedBy(r)' = CarriedBy(r)
  BY <1>1, <1>2, GotoFields
<1>4. \A q \in Requests : (Owns(q)' <=> Owns(q)) /\ CarriedBy(q)' = CarriedBy(q)
  BY <1>1, <1>3 DEF Owns, CarriedBy
<1>5. WebhookTypes'
  BY <1>1, <1>3 DEF WebhookTypes, CarriedBy, Owns
<1>6. QED
  BY <1>1, <1>4, <1>5 DEF WebhookInv, OwnerInv, OneDeploymentPerWindow,
     Webhooks!OneDeploymentPerWindow, DuplicateMeansStarted, Webhooks!DuplicateMeansStarted,
     Owns, CarriedBy

\* The insert counts the one deployment of the window and gives the record up.
LEMMA CreateKeeps ==
  ASSUME WebhookInv, NEW r \in Requests, Webhooks!CreateDeployment(r)
  PROVE  WebhookInv'
<1> DEFINE d == request[r].delivery
<1>1. /\ WebhookTypes /\ Owns(r) /\ d = CarriedBy(r) /\ d \in Deliveries
      /\ inWindow[d] = 0 /\ UNCHANGED <<record, blocked>>
  BY DEF WebhookInv, WebhookTypes, OwnerInv, Webhooks!CreateDeployment, Webhooks!At, Owns, CarriedBy
<1>2. CASE inWindow' = [inWindow EXCEPT ![d] = @ + 1] /\ Webhooks!Answer(r)
  <2>1. /\ request' \in [Requests -> Webhooks!Request]
        /\ \A q \in Requests \ {r} : request'[q] = request[q]
        /\ request'[r] = Webhooks!IdleRequest /\ ~Owns(r)'
    BY <1>1, <1>2, AnswerFields
  <2>2. \A q \in Requests \ {r} : (Owns(q)' <=> Owns(q)) /\ CarriedBy(q)' = CarriedBy(q)
    BY <2>1 DEF Owns, CarriedBy
  <2>3. \A q \in Requests \ {r} : Owns(q) => CarriedBy(q) # d
    BY <1>1 DEF WebhookInv, OwnerInv
  <2>4. /\ inWindow' \in [Deliveries -> Nat] /\ inWindow'[d] = 1
        /\ \A e \in Deliveries \ {d} : inWindow'[e] = inWindow[e]
    BY <1>1, <1>2 DEF WebhookTypes
  <2>5. WebhookTypes'
    BY <1>1, <2>1, <2>4 DEF WebhookTypes, CarriedBy, Webhooks!IdleRequest
  <2>6. OwnerInv'
    <3>1. ASSUME NEW q \in Requests, Owns(q)'
          PROVE  record'[CarriedBy(q)'] = "fresh" /\ inWindow'[CarriedBy(q)'] = 0
      <4>1. q # r /\ Owns(q) /\ CarriedBy(q)' = CarriedBy(q) /\ CarriedBy(q) # d
        BY <2>1, <2>2, <2>3, <3>1
      <4>2. CarriedBy(q) \in Deliveries
        BY <1>1, <4>1 DEF WebhookTypes, Owns
      <4>3. QED
        BY <1>1, <2>4, <4>1, <4>2 DEF WebhookInv, OwnerInv
    <3>2. \A p, q \in Requests : Owns(p)' /\ Owns(q)' /\ CarriedBy(p)' = CarriedBy(q)' => p = q
      BY <2>1, <2>2 DEF WebhookInv, OwnerInv
    <3>3. \A e \in Deliveries : record'[e] # "fresh" => inWindow'[e] = 0
      <4>1. record[d] = "fresh"
        BY <1>1 DEF WebhookInv, OwnerInv
      <4>2. QED
        BY <1>1, <2>4, <4>1 DEF WebhookInv, OwnerInv
    <3>4. QED
      BY <3>1, <3>2, <3>3 DEF OwnerInv
  <2>7. OneDeploymentPerWindow'
    BY <2>4 DEF WebhookInv, OneDeploymentPerWindow, Webhooks!OneDeploymentPerWindow
  <2>8. DuplicateMeansStarted'
    <3>1. SUFFICES ASSUME NEW e \in Deliveries, record'[e] = "fresh", inWindow'[e] # 1,
                          e \notin blocked'
                   PROVE  \E q \in Requests : CarriedBy(q)' = e /\ Owns(q)'
      BY DEF DuplicateMeansStarted, Webhooks!DuplicateMeansStarted, Owns, CarriedBy
    <3>2. e # d
      BY <2>4, <3>1
    <3>3. PICK q \in Requests : CarriedBy(q) = e /\ Owns(q)
      BY <1>1, <2>4, <3>1, <3>2 DEF WebhookInv, DuplicateMeansStarted,
         Webhooks!DuplicateMeansStarted, Owns, CarriedBy
    <3>4. QED
      BY <1>1, <2>2, <3>2, <3>3
  <2>9. QED
    BY <2>5, <2>6, <2>7, <2>8 DEF WebhookInv
<1>3. CASE Webhooks!Goto(r, "refused") /\ UNCHANGED inWindow
  <2>1. /\ request' \in [Requests -> Webhooks!Request]
        /\ \A q \in Requests \ {r} : request'[q] = request[q]
        /\ Owns(r)' /\ CarriedBy(r)' = CarriedBy(r)
    BY <1>1, <1>3, GotoFields
  <2>2. \A q \in Requests : (Owns(q)' <=> Owns(q)) /\ CarriedBy(q)' = CarriedBy(q)
    BY <1>1, <2>1 DEF Owns, CarriedBy
  <2>3. WebhookTypes'
    BY <1>1, <1>3, <2>1 DEF WebhookTypes, CarriedBy, Owns
  <2>4. QED
    BY <1>1, <1>3, <2>2, <2>3 DEF WebhookInv, OwnerInv, OneDeploymentPerWindow,
       Webhooks!OneDeploymentPerWindow, DuplicateMeansStarted, Webhooks!DuplicateMeansStarted,
       Owns, CarriedBy
<1>4. QED
  BY <1>2, <1>3 DEF Webhooks!CreateDeployment

\* A record is given up by its owner, or kept by nobody and blocked.
LEMMA ReleaseKeeps ==
  ASSUME WebhookInv, NEW r \in Requests, Webhooks!ReleaseDelivery(r)
  PROVE  WebhookInv'
<1> DEFINE d == request[r].delivery
<1>1. /\ WebhookTypes /\ Owns(r) /\ d = CarriedBy(r) /\ d \in Deliveries
      /\ inWindow[d] = 0 /\ UNCHANGED inWindow /\ Webhooks!Answer(r)
  BY DEF WebhookInv, WebhookTypes, OwnerInv, Webhooks!ReleaseDelivery, Webhooks!At, Owns, CarriedBy
<1>2. /\ request' \in [Requests -> Webhooks!Request]
      /\ \A q \in Requests \ {r} : request'[q] = request[q]
      /\ request'[r] = Webhooks!IdleRequest /\ ~Owns(r)'
  BY <1>1, AnswerFields
<1>3. \A q \in Requests \ {r} : (Owns(q)' <=> Owns(q)) /\ CarriedBy(q)' = CarriedBy(q)
  BY <1>2 DEF Owns, CarriedBy
<1>4. \A q \in Requests \ {r} : Owns(q) => CarriedBy(q) # d
  BY <1>1 DEF WebhookInv, OwnerInv
<1>5. /\ record' \in [Deliveries -> {"absent", "fresh", "stale"}]
      /\ \A e \in Deliveries \ {d} : record'[e] = record[e] /\ (e \in blocked => e \in blocked')
      /\ record'[d] = "absent" \/ d \in blocked'
  BY <1>1 DEF WebhookTypes, Webhooks!ReleaseDelivery
<1>6. WebhookTypes'
  BY <1>1, <1>2, <1>5 DEF WebhookTypes, CarriedBy, Webhooks!IdleRequest
<1>7. OwnerInv'
  <2>1. ASSUME NEW q \in Requests, Owns(q)'
        PROVE  record'[CarriedBy(q)'] = "fresh" /\ inWindow'[CarriedBy(q)'] = 0
    <3>1. q # r /\ Owns(q) /\ CarriedBy(q)' = CarriedBy(q) /\ CarriedBy(q) # d
      BY <1>2, <1>3, <1>4, <2>1
    <3>2. CarriedBy(q) \in Deliveries
      BY <1>1, <3>1 DEF WebhookTypes, Owns
    <3>3. QED
      BY <1>1, <1>5, <3>1, <3>2 DEF WebhookInv, OwnerInv
  <2>2. \A p, q \in Requests : Owns(p)' /\ Owns(q)' /\ CarriedBy(p)' = CarriedBy(q)' => p = q
    BY <1>2, <1>3 DEF WebhookInv, OwnerInv
  <2>3. \A e \in Deliveries : record'[e] # "fresh" => inWindow'[e] = 0
    BY <1>1, <1>5 DEF WebhookInv, OwnerInv
  <2>4. QED
    BY <2>1, <2>2, <2>3 DEF OwnerInv
<1>8. OneDeploymentPerWindow'
  BY <1>1 DEF WebhookInv, OneDeploymentPerWindow, Webhooks!OneDeploymentPerWindow
<1>9. DuplicateMeansStarted'
  <2>1. SUFFICES ASSUME NEW e \in Deliveries, record'[e] = "fresh", inWindow'[e] # 1,
                        e \notin blocked'
                 PROVE  \E q \in Requests : CarriedBy(q)' = e /\ Owns(q)'
    BY DEF DuplicateMeansStarted, Webhooks!DuplicateMeansStarted, Owns, CarriedBy
  <2>2. e # d
    BY <1>5, <2>1
  <2>3. PICK q \in Requests : CarriedBy(q) = e /\ Owns(q)
    BY <1>1, <1>5, <2>1, <2>2 DEF WebhookInv, DuplicateMeansStarted,
       Webhooks!DuplicateMeansStarted, Owns, CarriedBy
  <2>4. QED
    BY <1>1, <1>3, <2>2, <2>3
<1>10. QED
  BY <1>6, <1>7, <1>8, <1>9 DEF WebhookInv

LEMMA GrowStaleKeeps ==
  ASSUME WebhookInv, NEW d \in Deliveries, Webhooks!GrowStale(d)
  PROVE  WebhookInv'
<1>1. \A q \in Requests : Owns(q) => CarriedBy(q) # d
  BY DEF Webhooks!GrowStale, Webhooks!At, Owns, CarriedBy
<1>2. UNCHANGED request /\ \A q \in Requests : (Owns(q)' <=> Owns(q)) /\ CarriedBy(q)' = CarriedBy(q)
  BY DEF Webhooks!GrowStale, Owns, CarriedBy
<1>3. /\ WebhookTypes
      /\ record' \in [Deliveries -> {"absent", "fresh", "stale"}] /\ record'[d] = "stale"
      /\ inWindow' \in [Deliveries -> Nat] /\ inWindow'[d] = 0
      /\ \A e \in Deliveries \ {d} : /\ record'[e] = record[e] /\ inWindow'[e] = inWindow[e]
                                     /\ e \in blocked => e \in blocked'
  BY DEF Webhooks!GrowStale, WebhookInv, WebhookTypes
<1>4. WebhookTypes'
  BY <1>2, <1>3 DEF WebhookTypes, CarriedBy
<1>5. OwnerInv'
  <2>1. \A q \in Requests : Owns(q) => CarriedBy(q) \in Deliveries
    BY <1>3 DEF WebhookTypes, Owns
  <2>2. QED
    BY <1>1, <1>2, <1>3, <2>1 DEF WebhookInv, OwnerInv
<1>6. OneDeploymentPerWindow'
  BY <1>3 DEF WebhookInv, OneDeploymentPerWindow, Webhooks!OneDeploymentPerWindow
<1>7. DuplicateMeansStarted'
  BY <1>2, <1>3 DEF WebhookInv, DuplicateMeansStarted, Webhooks!DuplicateMeansStarted
<1>8. QED
  BY <1>4, <1>5, <1>6, <1>7 DEF WebhookInv

\* What a crash interrupts is blocked.
LEMMA WebhookCrashKeeps ==
  ASSUME WebhookInv, Webhooks!Crash
  PROVE  WebhookInv'
<1>1. /\ WebhookTypes /\ UNCHANGED <<record, inWindow>>
      /\ request' = [r \in Requests |-> Webhooks!IdleRequest]
      /\ \A e \in blocked : e \in blocked'
      /\ \A r \in Requests : Owns(r) => CarriedBy(r) \in blocked'
  BY DEF WebhookInv, Webhooks!Crash, Owns, CarriedBy
<1>2. /\ request' \in [Requests -> Webhooks!Request]
      /\ \A r \in Requests : request'[r] = Webhooks!IdleRequest /\ ~Owns(r)'
  BY <1>1 DEF Webhooks!IdleRequest, Webhooks!Request, Owns
<1>3. WebhookTypes' /\ OwnerInv'
  BY <1>1, <1>2 DEF WebhookInv, WebhookTypes, OwnerInv, Webhooks!IdleRequest
<1>4. QED
  BY <1>1, <1>3 DEF WebhookInv, OneDeploymentPerWindow, Webhooks!OneDeploymentPerWindow,
     DuplicateMeansStarted, Webhooks!DuplicateMeansStarted, Owns, CarriedBy

LEMMA WebhookInvariant == Webhooks!Spec => []WebhookInv
<1>1. WebhookInv /\ (Webhooks!Next \/ UNCHANGED Webhooks!vars) => WebhookInv'
  <2> SUFFICES ASSUME WebhookInv, Webhooks!Next \/ UNCHANGED Webhooks!vars PROVE WebhookInv'
    OBVIOUS
  <2>1. CASE Webhooks!Next
    <3>1. CASE Webhooks!OtherDeployment \/ Webhooks!DeploymentEnds
      BY <3>1 DEF Webhooks!OtherDeployment, Webhooks!DeploymentEnds, WebhookInv, WebhookTypes,
         OwnerInv, Owns, CarriedBy, OneDeploymentPerWindow, Webhooks!OneDeploymentPerWindow,
         DuplicateMeansStarted, Webhooks!DuplicateMeansStarted
    <3>2. ASSUME NEW r \in Requests, Webhooks!HangUp(r) PROVE WebhookInv'
      <4>1. CarriedBy(r) \in Deliveries
        BY <3>2 DEF Webhooks!HangUp, Webhooks!At, WebhookInv, WebhookTypes
      <4>2. QED
        BY <3>2, <4>1, ArriveKeeps
    <3>3. ASSUME NEW r \in Requests, Webhooks!RequestStep(r) PROVE WebhookInv'
      BY <3>3, RecordKeeps, TakeGuardKeeps, CreateKeeps, ReleaseKeeps DEF Webhooks!RequestStep
    <3>4. QED
      BY <2>1, <3>1, <3>2, <3>3, ArriveKeeps, GrowStaleKeeps, WebhookCrashKeeps
      DEF Webhooks!Next
  <2>2. CASE UNCHANGED Webhooks!vars
    BY <2>2 DEF Webhooks!vars, WebhookInv, WebhookTypes, OwnerInv, Owns, CarriedBy,
       OneDeploymentPerWindow, Webhooks!OneDeploymentPerWindow, DuplicateMeansStarted,
       Webhooks!DuplicateMeansStarted
  <2>3. QED
    BY <2>1, <2>2
<1>2. QED
  BY WebhookInit, <1>1, PTL DEF Webhooks!Spec

\* However many copies of a push overlap, with hang-ups, refusals, failing calls and crashes,
\* one deployment starts while the record of the push is fresh (handleWebhook, webhook.go).
THEOREM PushesStartOnce == Spec => []OneDeploymentPerWindow
<1>1. WebhookInv => OneDeploymentPerWindow
  BY DEF WebhookInv
<1>2. QED
  BY <1>1, WebhookInvariant, PartsKeepTheirSpecs, PTL

\* A push that is answered as a duplicate was started or is being tried, or its record could
\* not be released (RecordWebhookDelivery and DeleteWebhookDelivery, store.go).
THEOREM DuplicatesWereStarted == Spec => []DuplicateMeansStarted
<1>1. WebhookInv => DuplicateMeansStarted
  BY DEF WebhookInv
<1>2. QED
  BY <1>1, WebhookInvariant, PartsKeepTheirSpecs, PTL

-----------------------------------------------------------------------------
(* Registration and sign-in: Access.                                       *)

AdminInv ==
  /\ registered = {} \/ \E b \in Browsers : registered = {b}
  /\ accounts = {} => registered = {}

\* Requests past the backoff check whose failure is not recorded yet.
Attempting == {b \in Browsers : call[b] \in {"verifying", "failed"}}

\* What GuessesAreBounded allows t after the first failure.
Allowed(t) == (LockAfter - 1) + Cardinality(Browsers) * (1 + t \div LockFor)

\* The bound alone is not inductive: requests that are under way add to the count.  They are
\* counted with it, and what is let in when a lock expires is measured from the failure that
\* locked, at lockedUntil - LockFor.
GuessInv ==
  /\ backoff.first <= now
  /\ backoff.count >= LockAfter =>
       /\ backoff.first + LockFor <= backoff.lockedUntil /\ backoff.lockedUntil <= now + LockFor
       /\ backoff.count <= Allowed(backoff.lockedUntil - LockFor - backoff.first)
       /\ backoff.count + Cardinality(Attempting) <= Allowed(now - backoff.first)

AccessInv == Accounts!TypeOK /\ AdminInv /\ GuessInv

LEMMA AccessConstants ==
  /\ LockAfter \in Nat \ {0} /\ Window \in Nat \ {0} /\ LockFor \in Nat \ {0}
  /\ MaxTime \in Nat /\ MaxBoots \in Nat /\ AdminUser \in Names
  /\ IsFiniteSet(Browsers) /\ Informed \subseteq Browsers
<1>1. Accounts!AccessBounds
  BY Bounds
<1>2. AdminUser \in Names /\ IsFiniteSet(Browsers) /\ Informed \subseteq Browsers
  BY <1>1 DEF Accounts!AccessBounds, Accounts!IsFiniteSet, IsFiniteSet
<1>3. {LockAfter, Window, LockFor} \subseteq Nat \ {0} /\ {MaxTime, MaxBoots} \subseteq Nat
  BY <1>1 DEF Accounts!AccessBounds
<1>4. QED
  BY <1>2, <1>3

\* The allowance never shrinks, and grows by a round of requests in each LockFor.
LEMMA AllowedGrows ==
  ASSUME NEW s \in Nat, NEW t \in Nat, s <= t
  PROVE  /\ Allowed(s) \in Nat /\ Allowed(t) \in Nat /\ Allowed(s) <= Allowed(t)
         /\ (LockAfter - 1) + Cardinality(Browsers) <= Allowed(s)
<1> DEFINE n == Cardinality(Browsers)
           i == s \div LockFor
           j == t \div LockFor
<1>1. n \in Nat
  BY AccessConstants, FS_CardinalityType
<1>2. i \in Nat /\ j \in Nat /\ i <= j
  BY AccessConstants
<1>3. Allowed(s) = (LockAfter - 1) + n * (1 + i) /\ Allowed(t) = (LockAfter - 1) + n * (1 + j)
  BY DEF Allowed
<1> HIDE DEF n, i, j
<1>4. n * (1 + i) \in Nat /\ n * (1 + j) \in Nat /\ n * (1 + i) <= n * (1 + j) /\ n <= n * (1 + i)
  BY <1>1, <1>2
<1>5. QED
  BY <1>1, <1>3, <1>4, AccessConstants DEF n

LEMMA AllowedByRound ==
  ASSUME NEW t \in Nat
  PROVE  Allowed(t + LockFor) = Allowed(t) + Cardinality(Browsers)
<1> DEFINE n == Cardinality(Browsers)
           i == t \div LockFor
<1>1. n \in Nat
  BY AccessConstants, FS_CardinalityType
<1>2. i \in Nat /\ (t + LockFor) \div LockFor = i + 1
  BY AccessConstants
<1>3. Allowed(t) = (LockAfter - 1) + n * (1 + i) /\ Allowed(t + LockFor) = (LockAfter - 1) + n * (1 + (i + 1))
  BY <1>2 DEF Allowed
<1> HIDE DEF n, i
<1>4. n * (1 + (i + 1)) = n * (1 + i) + n /\ n * (1 + i) \in Nat
  BY <1>1, <1>2
<1>5. QED
  BY <1>1, <1>3, <1>4, AccessConstants DEF n

LEMMA AttemptsCounted ==
  /\ IsFiniteSet(Attempting) /\ Cardinality(Attempting) \in Nat /\ Cardinality(Browsers) \in Nat
  /\ Cardinality(Attempting) <= Cardinality(Browsers)
<1>1. Attempting \in SUBSET Browsers
  BY DEF Attempting
<1>2. QED
  BY <1>1, AccessConstants, FS_Subset, FS_CardinalityType

LEMMA AccessInit == Accounts!Init => AccessInv
<1> SUFFICES ASSUME Accounts!Init PROVE AccessInv
  OBVIOUS
<1>1. Accounts!TypeOK
  BY AccessConstants DEF Accounts!Init, Accounts!TypeOK, Accounts!Calls, Accounts!Fresh
<1>2. AdminInv /\ GuessInv
  BY AccessConstants DEF Accounts!Init, AdminInv, GuessInv, Accounts!Fresh
<1>3. QED
  BY <1>1, <1>2 DEF AccessInv

\* A step that leaves the backoff alone and starts no attempt.
LEMMA NoAttemptKeeps ==
  ASSUME AccessInv, Accounts!TypeOK', UNCHANGED <<backoff, now>>, Attempting' \subseteq Attempting
  PROVE  GuessInv'
<1>1. Cardinality(Attempting)' \in Nat /\ Cardinality(Attempting)' <= Cardinality(Attempting)
  <2>1. IsFiniteSet(Attempting)
    BY AttemptsCounted
  <2>2. IsFiniteSet(Attempting') /\ Cardinality(Attempting') <= Cardinality(Attempting)
    BY <2>1, FS_Subset
  <2>3. Cardinality(Attempting') \in Nat
    BY <2>2, FS_CardinalityType
  <2>4. QED
    BY <2>2, <2>3
<1>2. backoff.count \in Nat /\ backoff.first \in Nat /\ now \in Nat /\ backoff.first <= now
  BY AccessConstants DEF AccessInv, Accounts!TypeOK, GuessInv
<1>3. Allowed(now - backoff.first) \in Nat
  BY <1>2, AllowedGrows
<1>4. QED
  BY <1>1, <1>2, <1>3, AttemptsCounted DEF AccessInv, GuessInv, Allowed

\* A fresh backoff allows everything.
LEMMA FreshKeeps ==
  ASSUME AccessInv, backoff' = Accounts!Fresh, Accounts!TypeOK'
  PROVE  GuessInv'
<1>1. now' \in Nat /\ LockAfter \in Nat \ {0}
  BY AccessConstants DEF Accounts!TypeOK
<1>2. backoff.first' = 0 /\ backoff.count' = 0
  BY DEF Accounts!Fresh
<1>3. QED
  BY <1>1, <1>2 DEF GuessInv

\* The Cardinality of the instance is the one the library's facts are about.
LEMMA SameCardinality == \A S : Accounts!Cardinality(S) = Cardinality(S)
  BY DEF Accounts!Cardinality, Cardinality

LEMMA RegistrationKeeps ==
  ASSUME AccessInv, NEW b \in Browsers, Accounts!Register(b) \/ Accounts!CreateFirstUser(b)
  PROVE  AccessInv'
<1>1. /\ call \in [Browsers -> Accounts!Calls] /\ UNCHANGED <<backoff, now, boots>>
      /\ call[b] \in {"idle", "checked"} /\ \E to \in {"idle", "checked"} : call' = [call EXCEPT ![b] = to]
  BY DEF AccessInv, Accounts!TypeOK, Accounts!Register, Accounts!CreateFirstUser, Accounts!Goes
<1>2. call' \in [Browsers -> Accounts!Calls] /\ Attempting' \subseteq Attempting
  BY <1>1 DEF Attempting, Accounts!Calls
<1>3. /\ accounts' \subseteq Names /\ registered' \subseteq Browsers
      /\ AdminInv'
  <2>1. CASE Accounts!Register(b)
    BY <2>1 DEF AccessInv, AdminInv, Accounts!TypeOK, Accounts!Register, Accounts!people
  <2>2. CASE Accounts!CreateFirstUser(b)
    BY <2>2 DEF AccessInv, AdminInv, Accounts!TypeOK, Accounts!CreateFirstUser, Accounts!people
  <2>3. QED
    BY <2>1, <2>2
<1>4. Accounts!TypeOK'
  BY <1>1, <1>2, <1>3 DEF AccessInv, Accounts!TypeOK
<1>5. QED
  BY <1>1, <1>2, <1>3, <1>4, NoAttemptKeeps DEF AccessInv

LEMMA AuthenticateKeeps ==
  ASSUME AccessInv, NEW b \in Browsers, Accounts!Authenticate(b) \/ Accounts!ClearLoginFailures(b)
  PROVE  AccessInv'
<1>1. /\ call \in [Browsers -> Accounts!Calls] /\ UNCHANGED <<accounts, registered, now, boots>>
      /\ \/ call[b] = "verifying" /\ UNCHANGED backoff
            /\ \E to \in {"verified", "failed"} : call' = [call EXCEPT ![b] = to]
         \/ backoff' = Accounts!Fresh /\ call' = [call EXCEPT ![b] = "idle"]
  BY DEF AccessInv, Accounts!TypeOK, Accounts!Authenticate, Accounts!ClearLoginFailures,
     Accounts!Goes, Accounts!people
<1>2. call' \in [Browsers -> Accounts!Calls] /\ Attempting' \subseteq Attempting
  BY <1>1 DEF Attempting, Accounts!Calls
<1>3. Accounts!TypeOK'
  BY <1>1, <1>2, AccessConstants DEF AccessInv, Accounts!TypeOK, Accounts!Fresh
<1>4. GuessInv'
  BY <1>1, <1>2, <1>3, NoAttemptKeeps, FreshKeeps
<1>5. AdminInv'
  BY <1>1 DEF AccessInv, AdminInv
<1>6. QED
  BY <1>3, <1>4, <1>5 DEF AccessInv

\* Nobody signs in while the key is locked: a sign-in that adds to the attempts comes a whole
\* LockFor after the failure that locked it.
LEMMA SignInKeeps ==
  ASSUME AccessInv, NEW b \in Browsers, Accounts!SignIn(b)
  PROVE  AccessInv'
<1>1. /\ call \in [Browsers -> Accounts!Calls] /\ UNCHANGED <<accounts, registered, now, boots>>
      /\ call[b] = "idle" /\ call' = [call EXCEPT ![b] = "verifying"]
      /\ now >= backoff.lockedUntil /\ backoff' \in {backoff, Accounts!Fresh}
  BY DEF AccessInv, Accounts!TypeOK, Accounts!SignIn, Accounts!Goes, Accounts!people
<1>2. call' \in [Browsers -> Accounts!Calls] /\ Attempting' = Attempting \cup {b} /\ b \notin Attempting
  BY <1>1 DEF Attempting, Accounts!Calls
<1>3. Accounts!TypeOK'
  BY <1>1, <1>2, AccessConstants DEF AccessInv, Accounts!TypeOK, Accounts!Fresh
<1>4. AdminInv'
  BY <1>1 DEF AccessInv, AdminInv
<1>5. CASE backoff' = Accounts!Fresh
  BY <1>3, <1>4, <1>5, FreshKeeps DEF AccessInv
<1>6. CASE UNCHANGED backoff
  <2>1. SUFFICES ASSUME backoff.count >= LockAfter
                 PROVE  backoff.count + Cardinality(Attempting)' <= Allowed(now - backoff.first)
    BY <1>1, <1>3, <1>4, <1>6 DEF AccessInv, GuessInv, Allowed
  <2> DEFINE t == backoff.lockedUntil - LockFor - backoff.first
  <2>2. /\ backoff.count \in Nat /\ backoff.first \in Nat /\ now \in Nat /\ LockFor \in Nat
        /\ backoff.lockedUntil \in Nat /\ t \in Nat /\ t + LockFor <= now - backoff.first
        /\ backoff.count <= Allowed(t) /\ now - backoff.first \in Nat /\ t + LockFor \in Nat
    BY <1>1, <2>1, AccessConstants DEF AccessInv, Accounts!TypeOK, GuessInv
  <2> HIDE DEF t
  <2>3. /\ Allowed(t) \in Nat /\ Allowed(t + LockFor) \in Nat
        /\ Allowed(now - backoff.first) \in Nat
        /\ Allowed(t + LockFor) <= Allowed(now - backoff.first)
    BY <2>2, AllowedGrows
  <2>4. Allowed(t + LockFor) = Allowed(t) + Cardinality(Browsers)
    BY <2>2, AllowedByRound
  <2>5. Cardinality(Attempting)' \in Nat /\ Cardinality(Attempting)' <= Cardinality(Browsers)
    <3>1. Attempting' \in SUBSET Browsers
      BY DEF Attempting
    <3>2. IsFiniteSet(Attempting') /\ Cardinality(Attempting') <= Cardinality(Browsers)
      BY <3>1, AccessConstants, FS_Subset
    <3>3. Cardinality(Attempting') \in Nat
      BY <3>2, FS_CardinalityType
    <3>4. QED
      BY <3>2, <3>3
  <2>6. Cardinality(Browsers) \in Nat
    BY AttemptsCounted
  <2>7. QED
    BY <2>2, <2>3, <2>4, <2>5, <2>6
<1>7. QED
  BY <1>1, <1>5, <1>6

\* The failure that is recorded was counted as an attempt; what is under way when the key
\* locks is one round of requests at most.
LEMMA RecordFailureKeeps ==
  ASSUME AccessInv, NEW b \in Browsers, Accounts!RecordLoginFailure(b)
  PROVE  AccessInv'
<1> DEFINE again == backoff.count = 0 \/ now - backoff.first > Window
           old   == IF again THEN [Accounts!Fresh EXCEPT !.first = now] ELSE backoff
           n     == old.count + 1
           until == IF n >= LockAfter THEN now + LockFor ELSE old.lockedUntil
<1>1. /\ call \in [Browsers -> Accounts!Calls] /\ UNCHANGED <<accounts, registered, now, boots>>
      /\ call[b] = "failed" /\ call' = [call EXCEPT ![b] = "idle"]
      /\ now \in 0..MaxTime
      /\ backoff \in [count : Nat, first : 0..MaxTime, lockedUntil : 0..MaxTime + LockFor]
  BY DEF AccessInv, Accounts!TypeOK, Accounts!RecordLoginFailure, Accounts!Goes, Accounts!people
<1>2. call' \in [Browsers -> Accounts!Calls] /\ Attempting' = Attempting \ {b} /\ b \in Attempting
  BY <1>1 DEF Attempting, Accounts!Calls
<1>3. backoff' = [old EXCEPT !.count = n, !.lockedUntil = until]
  BY DEF Accounts!RecordLoginFailure, Accounts!Locks
<1>4. /\ old \in [count : Nat, first : 0..MaxTime, lockedUntil : 0..MaxTime + LockFor]
      /\ n \in Nat \ {0} /\ until \in 0..MaxTime + LockFor /\ old.first <= now
      /\ again => old.count = 0 /\ old.first = now
      /\ ~again => old = backoff
  BY <1>1, AccessConstants DEF Accounts!Fresh, AccessInv, GuessInv
<1> HIDE DEF old, until
<1>5. /\ backoff' \in [count : Nat, first : 0..MaxTime, lockedUntil : 0..MaxTime + LockFor]
      /\ backoff'.count = n /\ backoff'.first = old.first /\ backoff'.lockedUntil = until
  BY <1>3, <1>4
<1>6. Accounts!TypeOK' /\ AdminInv'
  BY <1>1, <1>2, <1>5 DEF AccessInv, Accounts!TypeOK, AdminInv
<1>7. ASSUME n >= LockAfter
      PROVE  n + Cardinality(Attempting') <= Allowed(now - old.first)
  <2> DEFINE late == now - old.first
  <2>1. late \in Nat /\ n \in Nat
    BY <1>1, <1>4, AccessConstants
  <2>2. /\ Allowed(late) \in Nat
        /\ (LockAfter - 1) + Cardinality(Browsers) <= Allowed(late)
    BY <2>1, AllowedGrows
  <2>3. /\ Cardinality(Attempting) \in Nat /\ Cardinality(Browsers) \in Nat
        /\ Cardinality(Attempting) <= Cardinality(Browsers)
        /\ Cardinality(Attempting') = Cardinality(Attempting) - 1
    BY <1>2, AttemptsCounted, FS_RemoveElement
  <2>4. CASE n = LockAfter
    BY <2>1, <2>2, <2>3, <2>4, AccessConstants
  <2>5. CASE n > LockAfter
    <3>1. ~again /\ old = backoff /\ backoff.count >= LockAfter
      BY <1>1, <1>4, <2>5, AccessConstants
    <3>2. backoff.count + Cardinality(Attempting) <= Allowed(late)
      BY <3>1 DEF AccessInv, GuessInv
    <3>3. n = backoff.count + 1 /\ backoff.count \in Nat
      BY <1>1, <3>1
    <3> HIDE DEF n
    <3>4. QED
      BY <2>2, <2>3, <3>2, <3>3
  <2>6. QED
    BY <1>7, <2>1, <2>4, <2>5, AccessConstants
<1>8. GuessInv'
  <2>1. backoff'.first <= now'
    BY <1>1, <1>4, <1>5
  <2>2. ASSUME backoff'.count >= LockAfter
        PROVE  /\ backoff'.first + LockFor <= backoff'.lockedUntil
               /\ backoff'.lockedUntil <= now' + LockFor
               /\ backoff'.count <= Allowed(backoff'.lockedUntil - LockFor - backoff'.first)
               /\ backoff'.count + Cardinality(Attempting') <= Allowed(now' - backoff'.first)
    <3>1. until = now + LockFor /\ n >= LockAfter
      BY <1>5, <2>2 DEF until
    <3>2. until - LockFor - old.first = now - old.first
      BY <1>1, <1>4, <3>1, AccessConstants
    <3>3. n + Cardinality(Attempting') <= Allowed(now - old.first)
      BY <1>7, <3>1
    <3>4. Cardinality(Attempting') \in Nat /\ now - old.first \in Nat
      <4>1. Cardinality(Attempting') = Cardinality(Attempting) - 1 /\ Cardinality(Attempting) # 0
        BY <1>2, AttemptsCounted, FS_RemoveElement, FS_EmptySet
      <4>2. QED
        BY <1>1, <1>4, <4>1, AttemptsCounted, AccessConstants
    <3>5. Allowed(now - old.first) \in Nat
      BY <3>4, AllowedGrows
    <3>6. n <= Allowed(now - old.first)
      BY <1>4, <3>3, <3>4, <3>5
    <3>7. old.first + LockFor <= until /\ until <= now + LockFor
      BY <1>1, <1>4, <3>1, AccessConstants
    <3> HIDE DEF n
    <3>8. QED
      BY <1>1, <1>5, <3>2, <3>3, <3>6, <3>7
  <2>3. QED
    BY <2>1, <2>2 DEF GuessInv, Allowed
<1>9. QED
  BY <1>6, <1>8 DEF AccessInv

LEMMA AccessTickKeeps ==
  ASSUME AccessInv, Accounts!Tick
  PROVE  AccessInv'
<1>1. /\ now \in 0..MaxTime /\ now' = now + 1 /\ now' \in 0..MaxTime
      /\ UNCHANGED <<accounts, registered, call, backoff, boots>>
  BY AccessConstants DEF AccessInv, Accounts!TypeOK, Accounts!Tick, Accounts!people
<1>2. Accounts!TypeOK' /\ AdminInv'
  BY <1>1 DEF AccessInv, Accounts!TypeOK, AdminInv
<1>3. /\ backoff.first \in Nat /\ backoff.lockedUntil \in Nat /\ backoff.count \in Nat
      /\ backoff.first <= now
  BY AccessConstants DEF AccessInv, Accounts!TypeOK, GuessInv
<1>4. /\ Allowed(now - backoff.first) \in Nat /\ Allowed(now' - backoff.first) \in Nat
      /\ Allowed(now - backoff.first) <= Allowed(now' - backoff.first)
  <2>1. now - backoff.first \in Nat /\ now' - backoff.first \in Nat /\ now - backoff.first <= now' - backoff.first
    BY <1>1, <1>3
  <2>2. QED
    BY <2>1, AllowedGrows
<1>5. UNCHANGED Attempting /\ Cardinality(Attempting) \in Nat
  BY <1>1, AttemptsCounted DEF Attempting
<1>6. backoff.count + Cardinality(Attempting) <= Allowed(now - backoff.first)
      => backoff.count + Cardinality(Attempting) <= Allowed(now' - backoff.first)
  BY <1>3, <1>4, <1>5
<1>7. GuessInv'
  <2>1. backoff.first <= now'
    BY <1>1, <1>3, AccessConstants
  <2>2. ASSUME backoff.count >= LockAfter
        PROVE  /\ backoff.first + LockFor <= backoff.lockedUntil
               /\ backoff.lockedUntil <= now' + LockFor
               /\ backoff.count <= Allowed(backoff.lockedUntil - LockFor - backoff.first)
               /\ backoff.count + Cardinality(Attempting) <= Allowed(now' - backoff.first)
    <3>1. /\ backoff.first + LockFor <= backoff.lockedUntil
          /\ backoff.lockedUntil <= now + LockFor
          /\ backoff.count <= Allowed(backoff.lockedUntil - LockFor - backoff.first)
          /\ backoff.count + Cardinality(Attempting) <= Allowed(now - backoff.first)
      BY <2>2 DEF AccessInv, GuessInv
    <3>2. backoff.lockedUntil <= now' + LockFor
      BY <1>1, <1>3, <3>1, AccessConstants
    <3>3. QED
      BY <1>6, <3>1, <3>2
  <2>3. QED
    BY <1>1, <1>5, <2>1, <2>2 DEF GuessInv, Allowed
<1>8. QED
  BY <1>2, <1>7 DEF AccessInv

LEMMA AccessBootKeeps ==
  ASSUME AccessInv, Accounts!Boot
  PROVE  AccessInv'
<1>1. Accounts!TypeOK'
  BY AccessConstants DEF AccessInv, Accounts!TypeOK, Accounts!Boot, Accounts!Fresh, Accounts!Calls
<1>2. AdminInv'
  BY DEF AccessInv, AdminInv, Accounts!Boot
<1>3. QED
  BY <1>1, <1>2, FreshKeeps DEF AccessInv, Accounts!Boot

LEMMA AccessInvariant == Accounts!Spec => []AccessInv
<1>1. AccessInv /\ (Accounts!Next \/ UNCHANGED Accounts!accessVars) => AccessInv'
  <2> SUFFICES ASSUME AccessInv, Accounts!Next \/ UNCHANGED Accounts!accessVars PROVE AccessInv'
    OBVIOUS
  <2>1. CASE Accounts!Next
    BY <2>1, RegistrationKeeps, AuthenticateKeeps, SignInKeeps, RecordFailureKeeps,
       AccessTickKeeps, AccessBootKeeps DEF Accounts!Next
  <2>2. CASE UNCHANGED Accounts!accessVars
    BY <2>2 DEF Accounts!accessVars, Accounts!people, AccessInv, Accounts!TypeOK, AdminInv,
       GuessInv, Attempting, Allowed
  <2>3. QED
    BY <2>1, <2>2
<1>2. QED
  BY AccessInit, <1>1, PTL DEF Accounts!Spec

\* However first-run registrations overlap, and whatever boots and seeds come between, one
\* browser at most becomes an administrator by registering (handleRegister, CreateFirstUser).
THEOREM OneFirstAdministrator == Spec => []OneAdministrator
<1>1. AccessInv => OneAdministrator
  <2> SUFFICES ASSUME AccessInv PROVE Cardinality(registered) <= 1
    BY SameCardinality DEF OneAdministrator, Accounts!OneAdministrator
  <2>1. CASE registered = {}
    BY <2>1, FS_EmptySet
  <2>2. CASE \E b \in Browsers : registered = {b}
    BY <2>2, FS_Singleton
  <2>3. QED
    BY <2>1, <2>2 DEF AccessInv, AdminInv
<1>2. QED
  BY <1>1, AccessInvariant, PartsKeepTheirSpecs, PTL

\* The failures counted against a key never exceed those that lock it and a round of requests
\* for each time the lock has expired, although requests overtake the backoff check
\* (LoginRetryAfter and RecordLoginFailure, auth.go).
THEOREM GuessingIsBounded == Spec => []GuessesAreBounded
<1>1. AccessInv => GuessesAreBounded
  <2> SUFFICES ASSUME AccessInv PROVE backoff.count <= Allowed(now - backoff.first)
    BY SameCardinality DEF GuessesAreBounded, Accounts!GuessesAreBounded, Allowed
  <2>1. backoff.count \in Nat /\ now - backoff.first \in Nat
    BY AccessConstants DEF AccessInv, Accounts!TypeOK, GuessInv
  <2>2. /\ Allowed(now - backoff.first) \in Nat
        /\ (LockAfter - 1) + Cardinality(Browsers) <= Allowed(now - backoff.first)
    BY <2>1, AllowedGrows
  <2>3. CASE backoff.count >= LockAfter
    BY <2>1, <2>2, <2>3, AttemptsCounted DEF AccessInv, GuessInv
  <2>4. CASE ~(backoff.count >= LockAfter)
    BY <2>1, <2>2, <2>4, AttemptsCounted, AccessConstants
  <2>5. QED
    BY <2>3, <2>4
<1>2. QED
  BY <1>1, AccessInvariant, PartsKeepTheirSpecs, PTL

-----------------------------------------------------------------------------
(* The tunnel: Tunnel.                                                     *)
(*                                                                         *)
(* A run that succeeds relies on what it has seen several requests before: *)
(* EdgeInv says that this stays true, as long as nobody deletes a tunnel   *)
(* under it, because a tunnel is created only when there is none.          *)

Uses(c, requests) == provision[c].request \in requests

ReliedOn ==
  /\ \A c \in Callers : Uses(c, {"get token", "put ingress", "list records", "create record"})
                          => provision[c].tunnel \in tunnels
  /\ \A c \in Callers : Uses(c, {"list records", "create record"}) => provision[c].tunnel \in ingress
  /\ cname # 0 => cname \in tunnels \cap ingress
  /\ \A c \in Callers : provided[c] # 0 => cname = provided[c]

EdgeInv ==
  /\ Edge!TypeOK
  /\ \A s, t \in tunnels : s = t
  /\ ~undercut => ReliedOn

LEMMA EdgeConstants == MaxTunnels \in Nat /\ MaxTroubles \in Nat
<1>1. Edge!TunnelBounds
  BY Bounds
<1>2. QED
  BY <1>1 DEF Edge!TunnelBounds

LEMMA EdgeInit == Edge!Init => EdgeInv
<1> SUFFICES ASSUME Edge!Init PROVE EdgeInv
  OBVIOUS
<1>1. Edge!TypeOK
  <2>1. made \in 0..MaxTunnels /\ troubles \in 0..MaxTroubles
    BY EdgeConstants DEF Edge!Init
  <2>2. provision \in [Callers -> [request : Edge!ProviderCalls, tunnel : {0} \cup Edge!TunnelIds]]
    BY DEF Edge!Init, Edge!ProviderCalls, Edge!NotRunning
  <2>3. QED
    BY <2>1, <2>2 DEF Edge!Init, Edge!TypeOK
<1>2. ReliedOn /\ \A s, t \in tunnels : s = t
  BY DEF Edge!Init, Edge!NotRunning, ReliedOn, Uses
<1>3. QED
  BY <1>1, <1>2 DEF EdgeInv

\* A run that goes on, with the tunnel it has or another, or ends.
LEMMA ProvisionTypes ==
  ASSUME Edge!TypeOK, NEW c \in Callers
  PROVE  /\ \A r \in Edge!ProviderCalls : \A t \in {0} \cup Edge!TunnelIds :
              Edge!Goes(c, r, t) =>
                /\ provision' \in [Callers -> [request : Edge!ProviderCalls,
                                               tunnel : {0} \cup Edge!TunnelIds]]
                /\ provision'[c].request = r /\ provision'[c].tunnel = t
                /\ \A d \in Callers \ {c} : provision'[d] = provision[d]
         /\ \A r \in Edge!ProviderCalls :
              Edge!GoesOn(c, r) =>
                /\ provision' \in [Callers -> [request : Edge!ProviderCalls,
                                               tunnel : {0} \cup Edge!TunnelIds]]
                /\ provision'[c].request = r /\ provision'[c].tunnel = provision[c].tunnel
                /\ \A d \in Callers \ {c} : provision'[d] = provision[d]
         /\ Edge!Fails(c) =>
                /\ provision' \in [Callers -> [request : Edge!ProviderCalls,
                                               tunnel : {0} \cup Edge!TunnelIds]]
                /\ provision'[c].request = "none" /\ provision'[c].tunnel = 0
                /\ \A d \in Callers \ {c} : provision'[d] = provision[d]
<1>1. provision \in [Callers -> [request : Edge!ProviderCalls, tunnel : {0} \cup Edge!TunnelIds]]
  BY DEF Edge!TypeOK
<1>2. ASSUME NEW r \in Edge!ProviderCalls, NEW t \in {0} \cup Edge!TunnelIds, Edge!Goes(c, r, t)
      PROVE  /\ provision' \in [Callers -> [request : Edge!ProviderCalls,
                                            tunnel : {0} \cup Edge!TunnelIds]]
             /\ provision'[c].request = r /\ provision'[c].tunnel = t
             /\ \A d \in Callers \ {c} : provision'[d] = provision[d]
  BY <1>1, <1>2 DEF Edge!Goes
<1>3. ASSUME NEW r \in Edge!ProviderCalls, Edge!GoesOn(c, r)
      PROVE  /\ provision' \in [Callers -> [request : Edge!ProviderCalls,
                                            tunnel : {0} \cup Edge!TunnelIds]]
             /\ provision'[c].request = r /\ provision'[c].tunnel = provision[c].tunnel
             /\ \A d \in Callers \ {c} : provision'[d] = provision[d]
  <2>1. provision' = [provision EXCEPT ![c] = [provision[c] EXCEPT !.request = r]]
    BY <1>3 DEF Edge!GoesOn
  <2>2. QED
    BY <1>1, <2>1
<1>4. ASSUME Edge!Fails(c)
      PROVE  /\ provision' \in [Callers -> [request : Edge!ProviderCalls,
                                            tunnel : {0} \cup Edge!TunnelIds]]
             /\ provision'[c].request = "none" /\ provision'[c].tunnel = 0
             /\ \A d \in Callers \ {c} : provision'[d] = provision[d]
  BY <1>1, <1>4 DEF Edge!Fails, Edge!NotRunning, Edge!ProviderCalls
<1>5. QED
  BY <1>2, <1>3, <1>4

\* Requests that change nothing at the provider.
LEMMA ReadingKeeps ==
  ASSUME EdgeInv, NEW c \in Callers,
         Edge!Begin(c) \/ Edge!ListTunnels(c) \/ Edge!TunnelToken(c) \/ Edge!ListRecords(c)
  PROVE  EdgeInv'
<1>1. /\ Edge!TypeOK /\ UNCHANGED <<tunnels, ingress, cname, made, undercut, troubles>>
      /\ tunnels \subseteq Edge!TunnelIds /\ provided \in [Callers -> {0} \cup Edge!TunnelIds]
      /\ provision[c].tunnel \in {0} \cup Edge!TunnelIds
  BY DEF EdgeInv, Edge!TypeOK, Edge!Begin, Edge!ListTunnels, Edge!TunnelToken, Edge!ListRecords,
     Edge!provider
<1>2. /\ {"none", "list tunnels", "create tunnel", "get token", "put ingress", "create record"}
           \subseteq Edge!ProviderCalls
  BY DEF Edge!ProviderCalls
<1>3. /\ provision' \in [Callers -> [request : Edge!ProviderCalls,
                                     tunnel : {0} \cup Edge!TunnelIds]]
      /\ \A d \in Callers \ {c} : provision'[d] = provision[d]
      /\ \/ provision'[c].request \in {"none", "list tunnels", "create tunnel"}
         \/ provision'[c].request \in {"get token", "put ingress"} /\ provision'[c].tunnel \in tunnels
         \/ /\ provision'[c].request = "create record" /\ provision[c].request = "list records"
            /\ provision'[c].tunnel = provision[c].tunnel
  <2>1. CASE Edge!Begin(c)
    BY <1>1, <1>2, <2>1, ProvisionTypes DEF Edge!Begin
  <2>2. CASE Edge!ListTunnels(c)
    BY <1>1, <1>2, <2>2, ProvisionTypes DEF Edge!ListTunnels
  <2>3. CASE Edge!TunnelToken(c)
    BY <1>1, <1>2, <2>3, ProvisionTypes DEF Edge!TunnelToken
  <2>4. CASE Edge!ListRecords(c)
    BY <1>1, <1>2, <2>4, ProvisionTypes DEF Edge!ListRecords, Edge!Succeeds, Edge!Sends
  <2>5. QED
    BY <2>1, <2>2, <2>3, <2>4
<1>4. /\ provided' \in [Callers -> {0} \cup Edge!TunnelIds]
      /\ \A d \in Callers \ {c} : provided'[d] = provided[d]
      /\ \/ provided'[c] = 0 \/ provided'[c] = provided[c]
         \/ provided'[c] = provision[c].tunnel /\ cname # 0 /\ Edge!Sends(c, "list records")
  BY <1>1 DEF Edge!Begin, Edge!ListTunnels, Edge!TunnelToken, Edge!ListRecords, Edge!Succeeds
<1>5. Edge!TypeOK'
  BY <1>1, <1>3, <1>4 DEF Edge!TypeOK
<1>6. ASSUME ~undercut, ReliedOn PROVE ReliedOn'
  <2>1. ASSUME NEW d \in Callers,
               Uses(d, {"get token", "put ingress", "list records", "create record"})'
        PROVE  provision'[d].tunnel \in tunnels'
    BY <1>1, <1>3, <1>6, <2>1 DEF ReliedOn, Uses
  <2>2. ASSUME NEW d \in Callers, Uses(d, {"list records", "create record"})'
        PROVE  provision'[d].tunnel \in ingress'
    BY <1>1, <1>3, <1>6, <2>2 DEF ReliedOn, Uses
  <2>3. ASSUME NEW d \in Callers, provided'[d] # 0 PROVE cname' = provided'[d]
    BY <1>1, <1>4, <1>6, <2>3 DEF ReliedOn, Uses, Edge!Sends, EdgeInv
  <2>4. QED
    BY <1>1, <1>6, <2>1, <2>2, <2>3 DEF ReliedOn
<1>7. QED
  BY <1>1, <1>5, <1>6 DEF EdgeInv

LEMMA MadeCount ==
  ASSUME Edge!TypeOK, made < MaxTunnels
  PROVE  made + 1 \in 0..MaxTunnels /\ made + 1 \in Edge!TunnelIds
<1>1. made \in 0..MaxTunnels
  BY DEF Edge!TypeOK
<1>2. QED
  BY <1>1, EdgeConstants DEF Edge!TunnelIds

\* A tunnel that takes effect at the provider, whether or not the run hears of it: there was
\* none before, so no other run and no record relies on one.
LEMMA NewTunnelKeeps ==
  ASSUME EdgeInv, NEW c \in Callers, tunnels = {}, made < MaxTunnels, made' = made + 1,
         tunnels' = {made + 1}, Edge!Sends(c, "create tunnel"), troubles' \in 0..MaxTroubles,
         Edge!Goes(c, "get token", made + 1) \/ Edge!Fails(c),
         UNCHANGED <<ingress, cname, provided, undercut>>
  PROVE  EdgeInv'
<1>1. made' \in 0..MaxTunnels /\ made + 1 \in Edge!TunnelIds
  BY MadeCount DEF EdgeInv
<1>2. /\ Edge!TypeOK /\ "get token" \in Edge!ProviderCalls
  BY DEF EdgeInv, Edge!ProviderCalls
<1>3. /\ provision' \in [Callers -> [request : Edge!ProviderCalls,
                                     tunnel : {0} \cup Edge!TunnelIds]]
      /\ \A d \in Callers \ {c} : provision'[d] = provision[d]
      /\ \/ provision'[c].request = "none"
         \/ provision'[c].request = "get token" /\ provision'[c].tunnel = made + 1
  BY <1>1, <1>2, ProvisionTypes
<1>4. Edge!TypeOK'
  BY <1>1, <1>2, <1>3 DEF Edge!TypeOK
<1>5. ASSUME ~undercut, ReliedOn PROVE ReliedOn'
  <2>1. \A d \in Callers : ~Uses(d, {"get token", "put ingress", "list records", "create record"})
    BY <1>5 DEF ReliedOn
  <2>2. cname = 0 /\ \A d \in Callers : provided[d] = 0
    BY <1>2, <1>5 DEF ReliedOn, Edge!TypeOK
  <2>3. \A d \in Callers : Uses(d, {"get token", "put ingress", "list records", "create record"})'
          => d = c /\ provision'[c].request = "get token" /\ provision'[c].tunnel \in tunnels'
    BY <1>3, <2>1 DEF Uses
  <2>4. \A d \in Callers : ~Uses(d, {"list records", "create record"})'
    BY <1>3, <2>1, <2>3 DEF Uses
  <2>5. QED
    BY <2>2, <2>3, <2>4 DEF ReliedOn
<1>6. QED
  BY <1>4, <1>5 DEF EdgeInv

\* The ingress of a tunnel that is there.
LEMMA NewIngressKeeps ==
  ASSUME EdgeInv, NEW c \in Callers, Edge!Sends(c, "put ingress"), provision[c].tunnel \in tunnels,
         ingress' = ingress \cup {provision[c].tunnel}, troubles' \in 0..MaxTroubles,
         Edge!GoesOn(c, "list records") \/ Edge!Fails(c),
         UNCHANGED <<tunnels, cname, made, provided, undercut>>
  PROVE  EdgeInv'
<1>1. Edge!TypeOK /\ "list records" \in Edge!ProviderCalls /\ tunnels \subseteq Edge!TunnelIds
  BY DEF EdgeInv, Edge!TypeOK, Edge!ProviderCalls
<1>2. /\ provision' \in [Callers -> [request : Edge!ProviderCalls,
                                     tunnel : {0} \cup Edge!TunnelIds]]
      /\ \A d \in Callers \ {c} : provision'[d] = provision[d]
      /\ \/ provision'[c].request = "none"
         \/ /\ provision'[c].request = "list records" /\ provision'[c].tunnel = provision[c].tunnel
            /\ provision'[c].tunnel \in tunnels' /\ provision'[c].tunnel \in ingress'
  BY <1>1, ProvisionTypes
<1>3. Edge!TypeOK'
  BY <1>1, <1>2 DEF Edge!TypeOK
<1>4. ASSUME ~undercut, ReliedOn PROVE ReliedOn'
  <2>1. \A d \in Callers : Uses(d, {"get token", "put ingress", "list records", "create record"})'
          => provision'[d].tunnel \in tunnels'
    BY <1>2, <1>4 DEF ReliedOn, Uses
  <2>2. \A d \in Callers : Uses(d, {"list records", "create record"})' => provision'[d].tunnel \in ingress'
    BY <1>2, <1>4 DEF ReliedOn, Uses
  <2>3. QED
    BY <1>4, <2>1, <2>2 DEF ReliedOn
<1>5. QED
  BY <1>3, <1>4 DEF EdgeInv

\* The record of a run whose tunnel is there and routed, or the end of a run without effect.
LEMMA NewRecordKeeps ==
  ASSUME EdgeInv, NEW c \in Callers, Edge!Fails(c), troubles' \in 0..MaxTroubles,
         UNCHANGED <<tunnels, ingress, made, undercut>>,
         \/ Edge!Sends(c, "create record") /\ cname = 0 /\ cname' = provision[c].tunnel
         \/ UNCHANGED cname,
         \/ UNCHANGED provided
         \/ /\ provided' = [provided EXCEPT ![c] = provision[c].tunnel]
            /\ cname' = provision[c].tunnel
  PROVE  EdgeInv'
<1>1. /\ Edge!TypeOK /\ provision[c].tunnel \in {0} \cup Edge!TunnelIds
      /\ provided \in [Callers -> {0} \cup Edge!TunnelIds]
  BY DEF EdgeInv, Edge!TypeOK
<1>2. /\ provision' \in [Callers -> [request : Edge!ProviderCalls,
                                     tunnel : {0} \cup Edge!TunnelIds]]
      /\ \A d \in Callers \ {c} : provision'[d] = provision[d]
      /\ provision'[c].request = "none"
  BY <1>1, ProvisionTypes
<1>3. Edge!TypeOK'
  BY <1>1, <1>2 DEF Edge!TypeOK
<1>4. ASSUME ~undercut, ReliedOn PROVE ReliedOn'
  <2>1. \A d \in Callers : Uses(d, {"get token", "put ingress", "list records", "create record"})'
          => provision'[d].tunnel \in tunnels'
    BY <1>2, <1>4 DEF ReliedOn, Uses
  <2>2. \A d \in Callers : Uses(d, {"list records", "create record"})' => provision'[d].tunnel \in ingress'
    BY <1>2, <1>4 DEF ReliedOn, Uses
  <2>3. cname' # 0 => cname' \in tunnels' \cap ingress'
    BY <1>4 DEF ReliedOn, Uses, Edge!Sends
  <2>4. ASSUME NEW d \in Callers, provided'[d] # 0 PROVE cname' = provided'[d]
    <3>1. CASE provided[d] # 0 /\ provided'[d] = provided[d]
      <4>1. cname # 0 /\ cname = provided[d]
        BY <1>4, <3>1 DEF ReliedOn
      <4>2. QED
        BY <3>1, <4>1
    <3>2. CASE provided'[d] # provided[d]
      BY <1>1, <3>2
    <3>3. QED
      BY <2>4, <3>1, <3>2
  <2>5. QED
    BY <2>1, <2>2, <2>3, <2>4 DEF ReliedOn
<1>5. QED
  BY <1>3, <1>4 DEF EdgeInv

LEMMA TroubleCount ==
  ASSUME Edge!TypeOK, Edge!Trouble \/ UNCHANGED troubles
  PROVE  troubles' \in 0..MaxTroubles
<1>1. troubles \in 0..MaxTroubles
  BY DEF Edge!TypeOK
<1>2. QED
  BY <1>1, EdgeConstants DEF Edge!Trouble

LEMMA CreateTunnelKeeps ==
  ASSUME EdgeInv, NEW c \in Callers, Edge!CreateTunnel(c)
  PROVE  EdgeInv'
<1>1. troubles' \in 0..MaxTroubles
  BY TroubleCount DEF EdgeInv, Edge!CreateTunnel
<1>2. CASE tunnels = {}
  BY <1>1, <1>2, NewTunnelKeeps DEF Edge!CreateTunnel
<1>3. CASE tunnels # {}
  BY <1>1, <1>3, NewRecordKeeps DEF Edge!CreateTunnel
<1>4. QED
  BY <1>2, <1>3

LEMMA SetIngressKeeps ==
  ASSUME EdgeInv, NEW c \in Callers, Edge!SetIngress(c)
  PROVE  EdgeInv'
<1>1. troubles' \in 0..MaxTroubles
  BY TroubleCount DEF EdgeInv, Edge!SetIngress
<1>2. CASE provision[c].tunnel \in tunnels
  BY <1>1, <1>2, NewIngressKeeps DEF Edge!SetIngress
<1>3. CASE provision[c].tunnel \notin tunnels
  BY <1>1, <1>3, NewRecordKeeps DEF Edge!SetIngress
<1>4. QED
  BY <1>2, <1>3

LEMMA CreateRecordKeeps ==
  ASSUME EdgeInv, NEW c \in Callers, Edge!CreateRecord(c)
  PROVE  EdgeInv'
<1>1. troubles' \in 0..MaxTroubles
  BY TroubleCount DEF EdgeInv, Edge!CreateRecord
<1>2. CASE cname = 0
  BY <1>1, <1>2, NewRecordKeeps DEF Edge!CreateRecord, Edge!Succeeds
<1>3. CASE cname # 0
  BY <1>1, <1>3, NewRecordKeeps DEF Edge!CreateRecord
<1>4. QED
  BY <1>2, <1>3

\* A request whose answer is lost has its effect all the same, or none.
LEMMA UnansweredKeeps ==
  ASSUME EdgeInv, NEW c \in Callers, Edge!Unanswered(c)
  PROVE  EdgeInv'
<1>1. troubles' \in 0..MaxTroubles /\ Edge!Fails(c) /\ UNCHANGED <<provided, undercut>>
  BY TroubleCount DEF EdgeInv, Edge!Unanswered
<1>2. CASE /\ Edge!Sends(c, "create tunnel") /\ tunnels = {} /\ made < MaxTunnels
           /\ made' = made + 1 /\ tunnels' = {made + 1} /\ UNCHANGED <<ingress, cname>>
  BY <1>1, <1>2, NewTunnelKeeps
<1>3. CASE /\ Edge!Sends(c, "put ingress") /\ provision[c].tunnel \in tunnels
           /\ ingress' = ingress \cup {provision[c].tunnel} /\ UNCHANGED <<tunnels, cname, made>>
  BY <1>1, <1>3, NewIngressKeeps
<1>4. CASE /\ Edge!Sends(c, "create record") /\ cname = 0
           /\ cname' = provision[c].tunnel /\ UNCHANGED <<tunnels, ingress, made>>
  BY <1>1, <1>4, NewRecordKeeps
<1>5. CASE UNCHANGED Edge!provider
  BY <1>1, <1>5, NewRecordKeeps DEF Edge!provider
<1>6. QED
  BY <1>2, <1>3, <1>4, <1>5 DEF Edge!Unanswered

\* A deletion either goes under something that is relied on, which is remembered, or nothing
\* relies on what is deleted.
LEMMA DashboardKeeps ==
  ASSUME EdgeInv, Edge!DeleteRecord \/ \E t \in tunnels : Edge!DeleteTunnel(t)
  PROVE  EdgeInv'
<1>1. Edge!TypeOK /\ troubles' \in 0..MaxTroubles
  BY TroubleCount DEF EdgeInv, Edge!DeleteRecord, Edge!DeleteTunnel
<1>2. /\ UNCHANGED <<ingress, made, provision>> /\ provided' = [c \in Callers |-> 0]
      /\ tunnels' \subseteq tunnels /\ cname' \in {0, cname}
  BY DEF Edge!DeleteRecord, Edge!DeleteTunnel
<1>3. undercut' \in BOOLEAN
  BY <1>1 DEF Edge!TypeOK, Edge!DeleteRecord, Edge!DeleteTunnel
<1>4. Edge!TypeOK'
  BY <1>1, <1>2, <1>3 DEF Edge!TypeOK
<1>5. ASSUME ~undercut' PROVE ReliedOn'
  <2>1. /\ ~undercut /\ ReliedOn
        /\ \A t \in tunnels \ tunnels' : cname' # t /\ \A c \in Callers : provision[c].tunnel # t
    <3>1. CASE Edge!DeleteRecord
      BY <1>5, <3>1 DEF EdgeInv, Edge!DeleteRecord
    <3>2. ASSUME NEW t \in tunnels, Edge!DeleteTunnel(t)
          PROVE  /\ ~undercut /\ tunnels \ tunnels' = {t} /\ cname' # t
                 /\ \A c \in Callers : provision[c].tunnel # t
      BY <1>5, <3>2 DEF Edge!DeleteTunnel
    <3>3. QED
      BY <3>1, <3>2 DEF EdgeInv
  <2>2. \A c \in Callers : provision'[c] = provision[c] /\ provided'[c] = 0
    BY <1>2
  <2>3. cname' # 0 => cname' \in tunnels' \cap ingress'
    BY <1>2, <2>1 DEF ReliedOn
  <2>4. ASSUME NEW c \in Callers,
               Uses(c, {"get token", "put ingress", "list records", "create record"})'
        PROVE  provision'[c].tunnel \in tunnels'
    BY <2>1, <2>2, <2>4 DEF ReliedOn, Uses
  <2>5. \A c \in Callers : Uses(c, {"list records", "create record"})' => provision'[c].tunnel \in ingress'
    BY <1>2, <2>1, <2>2 DEF ReliedOn, Uses
  <2>6. QED
    BY <2>2, <2>3, <2>4, <2>5 DEF ReliedOn
<1>6. QED
  BY <1>2, <1>4, <1>5 DEF EdgeInv

LEMMA EdgeInvariant == Edge!Spec => []EdgeInv
<1>1. EdgeInv /\ (Edge!Next \/ UNCHANGED Edge!tunnelVars) => EdgeInv'
  <2> SUFFICES ASSUME EdgeInv, Edge!Next \/ UNCHANGED Edge!tunnelVars PROVE EdgeInv'
    OBVIOUS
  <2>1. CASE Edge!Next
    BY <2>1, ReadingKeeps, CreateTunnelKeeps, SetIngressKeeps, CreateRecordKeeps,
       UnansweredKeeps, DashboardKeeps DEF Edge!Next
  <2>2. CASE UNCHANGED Edge!tunnelVars
    BY <2>2 DEF Edge!tunnelVars, Edge!provider, EdgeInv, Edge!TypeOK, ReliedOn, Uses
  <2>3. QED
    BY <2>1, <2>2
<1>2. QED
  BY EdgeInit, <1>1, PTL DEF Edge!Spec

\* A provisioning run that succeeded leaves the record at its tunnel and the tunnel routed,
\* whatever overlapped, failed or went unanswered (Provision, tunnel.go), unless a tunnel was
\* deleted under a record or a run.
THEOREM TunnelsAreReachable == Spec => []ProvisionedIsReachable
<1>1. EdgeInv => ProvisionedIsReachable
  BY DEF EdgeInv, ReliedOn, ProvisionedIsReachable, Edge!ProvisionedIsReachable
<1>2. QED
  BY <1>1, EdgeInvariant, PartsKeepTheirSpecs, PTL

-----------------------------------------------------------------------------
(* Linking a repository (GitHubConnect).  LinkedPushesVerify speaks of     *)
(* the moment after the last request; it holds because a request that was  *)
(* alone all along knows, at every step, what the vault and the hook hold. *)

Undisturbed(c) == click[c].step # "none" /\ click[c].alone

\* A request names a hook and a secret of its own.
Named ==
  \A c \in Clicks : click[c].step # "none" =>
    click[c].hook \in Connecting!Hooks /\ click[c].secret \in Connecting!Secrets

\* What a request that met no other relies on.
AloneIsCurrent ==
  \A c \in Clicks : Undisturbed(c) =>
    /\ \A d \in Clicks \ {c} : click[d].step = "none"
    /\ click[c].step # "put" => vaultSecret = click[c].secret
    /\ click[c].step = "save" => hook[click[c].hook] \in {0, vaultSecret}

LinkInv == Connecting!TypeOK /\ Named /\ AloneIsCurrent /\ LinkedPushesVerify

LEMMA ConnectConstants == NoRepo \notin Connecting!Hooks /\ MaxSecrets \in Nat /\ MaxErrors \in Nat
<1>1. Connecting!ConnectBounds
  BY Bounds
<1>2. QED
  BY <1>1 DEF Connecting!ConnectBounds, Connecting!Hooks

LEMMA LinkInit == Connecting!Init => LinkInv
<1> SUFFICES ASSUME Connecting!Init PROVE LinkInv
  OBVIOUS
<1>1. vaultSecret = 0 /\ hook = [r \in Connecting!Hooks |-> 0] /\ linked = NoRepo /\ unsettled = FALSE
  BY DEF Connecting!Init
<1>2. \A c \in Clicks : click[c] = Connecting!NoClick
  BY DEF Connecting!Init
<1>3. click \in [Clicks -> [step : Connecting!Steps, hook : Connecting!Hooks \cup {NoRepo},
                            secret : {0} \cup Connecting!Secrets, alone : BOOLEAN]]
  BY DEF Connecting!Init, Connecting!NoClick, Connecting!Steps
<1>4. secrets \in 0..MaxSecrets /\ errors \in 0..MaxErrors
  BY ConnectConstants DEF Connecting!Init
<1>5. Connecting!TypeOK
  BY <1>1, <1>3, <1>4 DEF Connecting!TypeOK
<1>6. Named /\ AloneIsCurrent
  BY <1>2 DEF Named, AloneIsCurrent, Undisturbed, Connecting!NoClick
<1>7. LinkedPushesVerify
  BY <1>1 DEF LinkedPushesVerify, Connecting!LinkedPushesVerify
<1>8. QED
  BY <1>5, <1>6, <1>7 DEF LinkInv

\* What a request that goes on to its next step leaves as it was.
LEMMA GoesFields ==
  ASSUME Connecting!TypeOK, NEW c \in Clicks, NEW s \in Connecting!Steps, Connecting!Goes(c, s)
  PROVE  /\ click' \in [Clicks -> [step : Connecting!Steps, hook : Connecting!Hooks \cup {NoRepo},
                                   secret : {0} \cup Connecting!Secrets, alone : BOOLEAN]]
         /\ \A d \in Clicks \ {c} : click'[d] = click[d]
         /\ click'[c] = [click[c] EXCEPT !.step = s]
<1>1. click \in [Clicks -> [step : Connecting!Steps, hook : Connecting!Hooks \cup {NoRepo},
                            secret : {0} \cup Connecting!Secrets, alone : BOOLEAN]]
  BY DEF Connecting!TypeOK
<1>2. click' = [click EXCEPT ![c] = [click[c] EXCEPT !.step = s]]
  BY DEF Connecting!Goes
<1>3. [click[c] EXCEPT !.step = s] \in [step : Connecting!Steps, hook : Connecting!Hooks \cup {NoRepo},
                                        secret : {0} \cup Connecting!Secrets, alone : BOOLEAN]
  BY <1>1
<1>4. QED
  BY <1>1, <1>2, <1>3

\* A call that succeeds and is not the last: only this request, the vault and the hook it
\* names change, and they change to its secret.
LEMMA GoingKeeps ==
  ASSUME LinkInv, NEW c \in Clicks, NEW s \in Connecting!Steps, Connecting!Goes(c, s),
         click[c].step # "none", s \notin {"none", "put"},
         UNCHANGED <<linked, secrets, unsettled, errors>>,
         vaultSecret' = click[c].secret \/ (vaultSecret' = vaultSecret /\ click[c].step # "put"),
         \/ UNCHANGED hook
         \/ hook' = [hook EXCEPT ![click[c].hook] = click[c].secret],
         s = "save" => hook'[click[c].hook] = click[c].secret
  PROVE  LinkInv'
<1>1. Connecting!TypeOK /\ Named /\ AloneIsCurrent
  BY DEF LinkInv
<1>2. /\ click' \in [Clicks -> [step : Connecting!Steps, hook : Connecting!Hooks \cup {NoRepo},
                                secret : {0} \cup Connecting!Secrets, alone : BOOLEAN]]
      /\ \A d \in Clicks \ {c} : click'[d] = click[d]
      /\ click'[c] = [click[c] EXCEPT !.step = s]
  BY <1>1, GoesFields
<1>3. /\ click'[c].step = s /\ click'[c].hook = click[c].hook
      /\ click'[c].secret = click[c].secret /\ click'[c].alone = click[c].alone
  BY <1>1, <1>2 DEF Connecting!TypeOK
<1>4. click[c].hook \in Connecting!Hooks /\ click[c].secret \in Connecting!Secrets
  BY <1>1 DEF Named
<1>5. vaultSecret' \in {0} \cup Connecting!Secrets /\ hook' \in [Connecting!Hooks -> {0} \cup Connecting!Secrets]
  BY <1>1, <1>4 DEF Connecting!TypeOK
<1>6. Connecting!TypeOK'
  BY <1>1, <1>2, <1>5 DEF Connecting!TypeOK
<1>7. Named'
  BY <1>1, <1>2, <1>3, <1>4 DEF Named
<1>8. AloneIsCurrent'
  <2> SUFFICES ASSUME NEW d \in Clicks, Undisturbed(d)'
               PROVE  /\ \A e \in Clicks \ {d} : click'[e].step = "none"
                      /\ click'[d].step # "put" => vaultSecret' = click'[d].secret
                      /\ click'[d].step = "save" => hook'[click'[d].hook] \in {0, vaultSecret'}
    BY DEF AloneIsCurrent
  <2>1. d = c
    BY <1>1, <1>2 DEF AloneIsCurrent, Undisturbed
  <2>2. Undisturbed(c)
    BY <1>3, <2>1 DEF Undisturbed
  <2>3. \A e \in Clicks \ {c} : click[e].step = "none"
    BY <1>1, <2>2 DEF AloneIsCurrent
  <2>4. vaultSecret' = click[c].secret
    BY <1>1, <2>2 DEF AloneIsCurrent
  <2>5. QED
    BY <1>2, <1>3, <2>1, <2>3, <2>4
<1>9. LinkedPushesVerify'
  BY <1>3 DEF LinkedPushesVerify, Connecting!LinkedPushesVerify, Connecting!Idle, Connecting!At
<1>10. QED
  BY <1>6, <1>7, <1>8, <1>9 DEF LinkInv

LEMMA PutKeeps ==
  ASSUME LinkInv, NEW c \in Clicks, Connecting!Put(c)
  PROVE  LinkInv'
BY GoingKeeps DEF Connecting!Put, Connecting!At, Connecting!Steps

LEMMA ListHooksKeeps ==
  ASSUME LinkInv, NEW c \in Clicks, Connecting!ListHooks(c)
  PROVE  LinkInv'
<1>1. PICK s \in {"update", "create"} : Connecting!Goes(c, s)
  BY DEF Connecting!ListHooks
<1>2. QED
  BY <1>1, GoingKeeps DEF Connecting!ListHooks, Connecting!At, Connecting!Steps

\* A request that gives up leaves the hook it names at its secret, or as it was;
\* nothing is promised of a connection that failed.
LEMMA GivingUpKeeps ==
  ASSUME LinkInv, NEW c \in Clicks, Connecting!Gives(c), click[c].step # "none",
         UNCHANGED <<vaultSecret, linked, secrets>>, errors' \in 0..MaxErrors,
         \/ UNCHANGED hook
         \/ hook' = [hook EXCEPT ![click[c].hook] = click[c].secret]
  PROVE  LinkInv'
<1>1. Connecting!TypeOK /\ Named /\ AloneIsCurrent
  BY DEF LinkInv
<1>2. click' = [click EXCEPT ![c] = Connecting!NoClick] /\ unsettled' = TRUE
  BY DEF Connecting!Gives
<1>3. Connecting!NoClick \in [step : Connecting!Steps, hook : Connecting!Hooks \cup {NoRepo},
                              secret : {0} \cup Connecting!Secrets, alone : BOOLEAN]
  BY DEF Connecting!NoClick, Connecting!Steps
<1>4. /\ click' \in [Clicks -> [step : Connecting!Steps, hook : Connecting!Hooks \cup {NoRepo},
                                secret : {0} \cup Connecting!Secrets, alone : BOOLEAN]]
      /\ \A d \in Clicks \ {c} : click'[d] = click[d]
      /\ click'[c].step = "none"
  BY <1>1, <1>2, <1>3 DEF Connecting!TypeOK, Connecting!NoClick
<1>5. hook' \in [Connecting!Hooks -> {0} \cup Connecting!Secrets]
  BY <1>1 DEF Connecting!TypeOK, Named
<1>6. Connecting!TypeOK'
  BY <1>1, <1>2, <1>4, <1>5 DEF Connecting!TypeOK
<1>7. Named'
  BY <1>1, <1>4 DEF Named
<1>8. AloneIsCurrent'
  <2>1. \A d \in Clicks : ~Undisturbed(d)'
    BY <1>1, <1>4 DEF AloneIsCurrent, Undisturbed
  <2>2. QED
    BY <2>1 DEF AloneIsCurrent
<1>9. LinkedPushesVerify'
  BY <1>2 DEF LinkedPushesVerify, Connecting!LinkedPushesVerify
<1>10. QED
  BY <1>6, <1>7, <1>8, <1>9 DEF LinkInv

LEMMA WriteHookKeeps ==
  ASSUME LinkInv, NEW c \in Clicks, Connecting!WriteHook(c)
  PROVE  LinkInv'
<1>1. /\ Connecting!TypeOK /\ Named /\ click[c].step \in {"update", "create"}
      /\ UNCHANGED <<vaultSecret, linked, secrets, errors>>
  BY DEF LinkInv, Connecting!WriteHook, Connecting!At
<1>2. CASE /\ hook' = [hook EXCEPT ![click[c].hook] = click[c].secret]
           /\ Connecting!Goes(c, "save") /\ UNCHANGED unsettled
  <2>1. hook'[click[c].hook] = click[c].secret
    BY <1>1, <1>2 DEF Connecting!TypeOK, Named
  <2>2. QED
    BY <1>1, <1>2, <2>1, GoingKeeps DEF Connecting!Steps
<1>3. CASE Connecting!Gives(c) /\ UNCHANGED hook
  <2>1. errors' \in 0..MaxErrors
    BY <1>1 DEF Connecting!TypeOK
  <2>2. QED
    BY <1>1, <1>3, <2>1, GivingUpKeeps
<1>4. QED
  BY <1>2, <1>3 DEF Connecting!WriteHook

LEMMA ErrorCount ==
  ASSUME Connecting!TypeOK, Connecting!Error
  PROVE  errors' \in 0..MaxErrors
<1>1. errors \in 0..MaxErrors
  BY DEF Connecting!TypeOK
<1>2. QED
  BY <1>1, ConnectConstants DEF Connecting!Error

LEMMA CallFailsKeeps ==
  ASSUME LinkInv, NEW c \in Clicks, Connecting!CallFails(c)
  PROVE  LinkInv'
<1>1. errors' \in 0..MaxErrors
  BY ErrorCount DEF LinkInv, Connecting!CallFails
<1>2. QED
  BY <1>1, GivingUpKeeps DEF Connecting!CallFails, Connecting!At

\* The last step of a request that met no other: the hook it names has the
\* secret it put in the vault.
LEMMA SaveKeeps ==
  ASSUME LinkInv, NEW c \in Clicks, Connecting!Save(c)
  PROVE  LinkInv'
<1>1. Connecting!TypeOK /\ Named /\ AloneIsCurrent
  BY DEF LinkInv
<1>2. /\ click[c].step = "save" /\ linked' = click[c].hook /\ unsettled' = ~click[c].alone
      /\ click' = [click EXCEPT ![c] = Connecting!NoClick]
      /\ UNCHANGED <<vaultSecret, hook, secrets, errors>>
  BY DEF Connecting!Save, Connecting!At
<1>3. Connecting!NoClick \in [step : Connecting!Steps, hook : Connecting!Hooks \cup {NoRepo},
                              secret : {0} \cup Connecting!Secrets, alone : BOOLEAN]
  BY DEF Connecting!NoClick, Connecting!Steps
<1>4. /\ click' \in [Clicks -> [step : Connecting!Steps, hook : Connecting!Hooks \cup {NoRepo},
                                secret : {0} \cup Connecting!Secrets, alone : BOOLEAN]]
      /\ \A d \in Clicks \ {c} : click'[d] = click[d]
      /\ click'[c].step = "none"
  BY <1>1, <1>2, <1>3 DEF Connecting!TypeOK, Connecting!NoClick
<1>5. linked' \in Connecting!Hooks /\ unsettled' \in BOOLEAN
  BY <1>1, <1>2 DEF Named
<1>6. Connecting!TypeOK'
  BY <1>1, <1>2, <1>4, <1>5 DEF Connecting!TypeOK
<1>7. Named'
  BY <1>1, <1>4 DEF Named
<1>8. AloneIsCurrent'
  <2>1. \A d \in Clicks : ~Undisturbed(d)'
    <3> SUFFICES ASSUME NEW d \in Clicks, Undisturbed(d)' PROVE FALSE
      OBVIOUS
    <3>1. d # c /\ Undisturbed(d) /\ click[c].step # "none"
      BY <1>2, <1>4 DEF Undisturbed
    <3>2. QED
      BY <1>1, <3>1 DEF AloneIsCurrent
  <2>2. QED
    BY <2>1 DEF AloneIsCurrent
<1>9. LinkedPushesVerify'
  <2>1. CASE click[c].alone
    <3>1. hook[click[c].hook] \in {0, vaultSecret}
      BY <1>1, <1>2, <2>1 DEF AloneIsCurrent, Undisturbed
    <3>2. hook'[linked'] \in {0, vaultSecret'}
      BY <1>2, <3>1
    <3>3. QED
      BY <3>2 DEF LinkedPushesVerify, Connecting!LinkedPushesVerify
  <2>2. CASE ~click[c].alone
    BY <1>2, <2>2 DEF LinkedPushesVerify, Connecting!LinkedPushesVerify
  <2>3. QED
    BY <2>1, <2>2
<1>10. QED
  BY <1>6, <1>7, <1>8, <1>9 DEF LinkInv

\* A new request is alone only if there is no other, and then the others are none.
LEMMA ConnectKeeps ==
  ASSUME LinkInv, NEW c \in Clicks, NEW r \in Connecting!Hooks, Connecting!Connect(c, r)
  PROVE  LinkInv'
<1>1. Connecting!TypeOK /\ Named /\ AloneIsCurrent
  BY DEF LinkInv
<1>2. /\ click[c].step = "none" /\ secrets < MaxSecrets /\ secrets' = secrets + 1
      /\ UNCHANGED <<vaultSecret, hook, linked, unsettled, errors>>
  BY DEF Connecting!Connect, Connecting!At
<1>3. secrets + 1 \in Connecting!Secrets /\ secrets' \in 0..MaxSecrets
  <2>1. secrets \in 0..MaxSecrets
    BY <1>1 DEF Connecting!TypeOK
  <2>2. QED
    BY <1>2, <2>1, ConnectConstants DEF Connecting!Secrets
<1> DEFINE new == [step |-> "put", hook |-> r, secret |-> secrets + 1, alone |-> Connecting!Idle]
<1>4. click' = [d \in Clicks |-> IF d = c THEN new
                                 ELSE IF click[d].step = "none" THEN click[d]
                                 ELSE [click[d] EXCEPT !.alone = FALSE]]
  BY DEF Connecting!Connect, Connecting!At
<1>5. /\ new \in [step : Connecting!Steps, hook : Connecting!Hooks \cup {NoRepo},
                  secret : {0} \cup Connecting!Secrets, alone : BOOLEAN]
      /\ new.step = "put" /\ new.hook = r /\ new.secret = secrets + 1
      /\ new.alone = Connecting!Idle
  BY <1>3 DEF Connecting!Steps, Connecting!Idle
<1> HIDE DEF new
<1>6. click' \in [Clicks -> [step : Connecting!Steps, hook : Connecting!Hooks \cup {NoRepo},
                             secret : {0} \cup Connecting!Secrets, alone : BOOLEAN]]
  <2>1. \A d \in Clicks : [click[d] EXCEPT !.alone = FALSE]
           \in [step : Connecting!Steps, hook : Connecting!Hooks \cup {NoRepo},
                secret : {0} \cup Connecting!Secrets, alone : BOOLEAN]
    BY <1>1 DEF Connecting!TypeOK
  <2>2. QED
    BY <1>1, <1>4, <1>5, <2>1 DEF Connecting!TypeOK
<1>7. click'[c] = new
  BY <1>4
<1>8. \A d \in Clicks \ {c} : /\ click'[d].step = click[d].step /\ click'[d].hook = click[d].hook
                              /\ click'[d].secret = click[d].secret
                              /\ click'[d].step # "none" => ~click'[d].alone
  BY <1>1, <1>4 DEF Connecting!TypeOK
<1>9. Connecting!TypeOK'
  BY <1>1, <1>2, <1>3, <1>6 DEF Connecting!TypeOK
<1>10. Named'
  BY <1>1, <1>3, <1>5, <1>7, <1>8 DEF Named
<1>11. AloneIsCurrent'
  <2> SUFFICES ASSUME NEW d \in Clicks, Undisturbed(d)'
               PROVE  /\ \A e \in Clicks \ {d} : click'[e].step = "none"
                      /\ click'[d].step = "put"
    BY DEF AloneIsCurrent
  <2>1. d = c /\ Connecting!Idle
    BY <1>5, <1>7, <1>8 DEF Undisturbed
  <2>2. QED
    BY <1>5, <1>7, <1>8, <2>1 DEF Connecting!Idle, Connecting!At
<1>12. LinkedPushesVerify'
  BY <1>5, <1>7 DEF LinkedPushesVerify, Connecting!LinkedPushesVerify, Connecting!Idle, Connecting!At
<1>13. QED
  BY <1>9, <1>10, <1>11, <1>12 DEF LinkInv

LEMMA ConnectCrashKeeps ==
  ASSUME LinkInv, Connecting!Crash
  PROVE  LinkInv'
<1>1. Connecting!TypeOK /\ errors' \in 0..MaxErrors
  BY ErrorCount DEF LinkInv, Connecting!Crash
<1>2. /\ \A c \in Clicks : click'[c] = Connecting!NoClick
      /\ click' = [c \in Clicks |-> Connecting!NoClick] /\ unsettled' = TRUE
      /\ UNCHANGED <<vaultSecret, hook, linked, secrets>>
  BY DEF Connecting!Crash
<1>3. Connecting!NoClick \in [step : Connecting!Steps, hook : Connecting!Hooks \cup {NoRepo},
                              secret : {0} \cup Connecting!Secrets, alone : BOOLEAN]
  BY DEF Connecting!NoClick, Connecting!Steps
<1>4. Connecting!TypeOK'
  BY <1>1, <1>2, <1>3 DEF Connecting!TypeOK
<1>5. Named' /\ AloneIsCurrent'
  BY <1>2 DEF Named, AloneIsCurrent, Undisturbed, Connecting!NoClick
<1>6. LinkedPushesVerify'
  BY <1>2 DEF LinkedPushesVerify, Connecting!LinkedPushesVerify
<1>7. QED
  BY <1>4, <1>5, <1>6 DEF LinkInv

\* A hook that is gone is no hook with a wrong secret.
LEMMA DeleteHookKeeps ==
  ASSUME LinkInv, NEW r \in Connecting!Hooks, Connecting!DeleteHook(r)
  PROVE  LinkInv'
<1>1. Connecting!TypeOK /\ Named /\ AloneIsCurrent /\ errors' \in 0..MaxErrors
  BY ErrorCount DEF LinkInv, Connecting!DeleteHook
<1>2. /\ hook' = [hook EXCEPT ![r] = 0]
      /\ UNCHANGED <<vaultSecret, linked, click, secrets, unsettled>>
  BY DEF Connecting!DeleteHook
<1>3. hook' \in [Connecting!Hooks -> {0} \cup Connecting!Secrets] /\ \A q \in Connecting!Hooks : hook'[q] \in {0, hook[q]}
  BY <1>1, <1>2 DEF Connecting!TypeOK
<1>4. Connecting!TypeOK'
  BY <1>1, <1>2, <1>3 DEF Connecting!TypeOK
<1>5. Named'
  BY <1>1, <1>2 DEF Named
<1>6. AloneIsCurrent'
  BY <1>1, <1>2, <1>3 DEF AloneIsCurrent, Undisturbed, Named
<1>7. LinkedPushesVerify'
  <2>1. linked \in Connecting!Hooks \cup {NoRepo}
    BY <1>1 DEF Connecting!TypeOK
  <2>2. QED
    BY <1>2, <1>3, <2>1 DEF LinkInv, LinkedPushesVerify, Connecting!LinkedPushesVerify,
       Connecting!Idle, Connecting!At
<1>8. QED
  BY <1>4, <1>5, <1>6, <1>7 DEF LinkInv

LEMMA LinkInvariant == Connecting!Spec => []LinkInv
<1>1. LinkInv /\ (Connecting!Next \/ UNCHANGED Connecting!connectVars) => LinkInv'
  <2> SUFFICES ASSUME LinkInv, Connecting!Next \/ UNCHANGED Connecting!connectVars PROVE LinkInv'
    OBVIOUS
  <2>1. ASSUME NEW c \in Clicks, NEW r \in Connecting!Hooks, Connecting!Connect(c, r) PROVE LinkInv'
    BY <2>1, ConnectKeeps
  <2>2. ASSUME NEW c \in Clicks,
               \/ Connecting!Put(c) \/ Connecting!ListHooks(c) \/ Connecting!WriteHook(c)
               \/ Connecting!Save(c) \/ Connecting!CallFails(c)
        PROVE  LinkInv'
    BY <2>2, PutKeeps, ListHooksKeeps, WriteHookKeeps, SaveKeeps, CallFailsKeeps
  <2>3. ASSUME NEW r \in Connecting!Hooks, Connecting!DeleteHook(r) PROVE LinkInv'
    BY <2>3, DeleteHookKeeps
  <2>4. CASE UNCHANGED Connecting!connectVars
    BY <2>4 DEF Connecting!connectVars, LinkInv, Connecting!TypeOK, Named, AloneIsCurrent,
       Undisturbed, LinkedPushesVerify, Connecting!LinkedPushesVerify, Connecting!Idle,
       Connecting!At
  <2>5. QED
    BY <2>1, <2>2, <2>3, <2>4, ConnectCrashKeeps DEF Connecting!Next
<1>2. QED
  BY LinkInit, <1>1, PTL DEF Connecting!Spec

\* The hook a repository was last linked with signs with the stored secret: one undisturbed
\* connection repairs whatever failed, overlapping or interrupted ones left of it
\* (connectGitHubWebhook, main.go; EnsurePushHook).  Nothing is said of the repository's hooks
\* for other URLs: EnsurePushHook looks at none of them.
THEOREM LinkingHeals == Spec => []LinkedPushesVerify
<1>1. LinkInv => LinkedPushesVerify
  BY DEF LinkInv
<1>2. QED
  BY <1>1, LinkInvariant, PartsKeepTheirSpecs, PTL

-----------------------------------------------------------------------------
(* The inventory (Inventory).  Its three invariants are about different    *)
(* tables, and each needs what a request still holds when it writes: a     *)
(* deletion the projects that came to its server since it was checked, an  *)
(* import the deletions that emptied the table, onboarding the credential  *)
(* it has put.                                                             *)

\* Requests exist only while the process serves, entries of a file only while it imports.
Booted ==
  /\ daemon # "serving" => \A o \in Admins : admin[o] = Stock!NoRequest
  /\ todo # {} => daemon \in {"servers", "projects"}
  /\ \A o \in Admins : admin[o].op = "save project" => admin[o].app \in Apps

\* A project that came to a server after its deletion was checked is remembered.
Placed ==
  /\ OrphansComeFromOverlap
  /\ \A o \in Admins, a \in Apps :
       admin[o].op = "delete server" /\ projects[a] = admin[o].host => a \in raced

\* An import that has servers to add found the table empty.
Removed ==
  /\ DeletedStaysDeleted
  /\ servers = {} /\ removed # {} => emptied
  /\ daemon = "servers" /\ todo # {} => removed = {} \/ emptied

\* What was put for a host that is being registered is its password still.
Reached ==
  /\ OnboardedIsReachable
  /\ \A h \in Hosts : onboarded[h] # 0 => onboarded[h] = password[h]
  /\ \A o \in Admins : admin[o].op = "register" =>
       stored[admin[o].host] \in {0, password[admin[o].host]}

StockInv == Stock!TypeOK /\ Booted /\ Placed /\ Removed /\ Reached

LEMMA StockConstants ==
  /\ YamlServers \subseteq Hosts /\ Local \in Hosts /\ NoHost \notin Hosts /\ DOMAIN YamlProjects \subseteq Apps
  /\ MaxEdits \in Nat /\ MaxStops \in Nat /\ MaxPasswords \in Nat /\ MaxPasswords # 0
<1>1. Stock!InventoryBounds
  BY Bounds
<1>2. QED
  BY <1>1 DEF Stock!InventoryBounds

LEMMA StockInit == Stock!Init => StockInv
<1> SUFFICES ASSUME Stock!Init PROVE StockInv
  OBVIOUS
<1>1. /\ servers = {} /\ daemon = "counting" /\ todo = {} /\ removed = {} /\ raced = {}
      /\ emptied = FALSE /\ ran = FALSE
      /\ projects = [a \in Apps |-> NoHost] /\ onboarded = [h \in Hosts |-> 0]
      /\ admin = [o \in Admins |-> Stock!NoRequest]
      /\ stored = [h \in Hosts |-> 0] /\ password = [h \in Hosts |-> 1]
  BY DEF Stock!Init
<1>2. edits \in 0..MaxEdits /\ stops \in 0..MaxStops
  BY StockConstants DEF Stock!Init
<1>3. 0 \in 0..MaxPasswords /\ 1 \in 1..MaxPasswords
  BY StockConstants
<1>4. admin \in [Admins -> Stock!Pending] /\ Stock!NoRequest.op = "none"
  BY <1>1 DEF Stock!Pending, Stock!NoRequest
<1>5. Stock!TypeOK
  BY <1>1, <1>2, <1>3, <1>4 DEF Stock!TypeOK, Stock!Boots
<1>6. Booted
  BY <1>1, <1>4 DEF Booted
<1>7. Placed
  BY <1>1, <1>4 DEF Placed, OrphansComeFromOverlap, Stock!OrphansComeFromOverlap
<1>8. Removed
  BY <1>1 DEF Removed, DeletedStaysDeleted, Stock!DeletedStaysDeleted
<1>9. Reached
  BY <1>1, <1>4 DEF Reached, OnboardedIsReachable, Stock!OnboardedIsReachable
<1>10. QED
  BY <1>5, <1>6, <1>7, <1>8, <1>9 DEF StockInv

\* One request changes, and the others stay what they are.
LEMMA OneRequest ==
  ASSUME admin \in [Admins -> Stock!Pending], NEW o \in Admins, NEW r \in Stock!Pending,
         admin' = [admin EXCEPT ![o] = r]
  PROVE  /\ admin' \in [Admins -> Stock!Pending] /\ admin'[o] = r
         /\ \A p \in Admins \ {o} : admin'[p] = admin[p]
OBVIOUS

LEMMA RequestTypes ==
  /\ Stock!NoRequest \in Stock!Pending
  /\ Stock!NoRequest.op = "none"
  /\ \A r \in Stock!Pending : r.op # "none" => r.host \in Hosts
<1>1. Stock!NoRequest \in Stock!Pending
  BY DEF Stock!Pending
<1>2. Stock!NoRequest.op = "none"
  BY DEF Stock!NoRequest
<1>3. ASSUME NEW r \in Stock!Pending, r.op # "none" PROVE r.host \in Hosts
  <2>1. r # Stock!NoRequest
    BY <1>2, <1>3
  <2>2. r \in [op : {"delete server", "save project", "put credential", "register"},
               host : Hosts, app : Apps \cup {NoHost}]
    BY <1>3, <2>1 DEF Stock!Pending
  <2>3. QED
    BY <2>2
<1>4. QED
  BY <1>1, <1>2, <1>3

\* A request asks for something or is answered, while the process serves.
LEMMA RequestsKept ==
  ASSUME Stock!TypeOK, Booted, NEW o \in Admins, daemon = "serving", UNCHANGED Stock!booting,
         \/ Stock!Answered(o) \/ UNCHANGED admin
         \/ \E op \in {"delete server", "put credential", "register"}, h \in Hosts :
              Stock!Asks(o, op, h, NoHost)
         \/ \E a \in Apps, h \in Hosts : Stock!Asks(o, "save project", h, a)
  PROVE  /\ admin' \in [Admins -> Stock!Pending] /\ Booted'
         /\ \A p \in Admins \ {o} : admin'[p] = admin[p]
<1>1. admin \in [Admins -> Stock!Pending] /\ daemon' = "serving" /\ todo' = todo
  BY DEF Stock!TypeOK, Stock!booting
<1>2. CASE UNCHANGED admin
  BY <1>1, <1>2 DEF Booted
<1>3. CASE Stock!Answered(o)
  BY <1>1, <1>3, RequestTypes, OneRequest DEF Booted, Stock!Answered
<1>4. ASSUME NEW op \in {"delete server", "put credential", "register"}, NEW h \in Hosts,
             Stock!Asks(o, op, h, NoHost)
      PROVE  /\ admin' \in [Admins -> Stock!Pending] /\ Booted'
             /\ \A p \in Admins \ {o} : admin'[p] = admin[p]
  <2> DEFINE r == [op |-> op, host |-> h, app |-> NoHost]
  <2>1. r \in Stock!Pending /\ r.op = op
    BY DEF Stock!Pending
  <2>2. admin' = [admin EXCEPT ![o] = r]
    BY <1>4 DEF Stock!Asks
  <2> HIDE DEF r
  <2>3. /\ admin' \in [Admins -> Stock!Pending] /\ admin'[o] = r
        /\ \A p \in Admins \ {o} : admin'[p] = admin[p]
    BY <1>1, <2>1, <2>2, OneRequest
  <2>4. Booted'
    BY <1>1, <2>1, <2>3 DEF Booted
  <2>5. QED
    BY <2>3, <2>4
<1>5. ASSUME NEW a \in Apps, NEW h \in Hosts, Stock!Asks(o, "save project", h, a)
      PROVE  /\ admin' \in [Admins -> Stock!Pending] /\ Booted'
             /\ \A p \in Admins \ {o} : admin'[p] = admin[p]
  <2> DEFINE r == [op |-> "save project", host |-> h, app |-> a]
  <2>1. r \in Stock!Pending /\ r.app = a
    BY DEF Stock!Pending
  <2>2. admin' = [admin EXCEPT ![o] = r]
    BY <1>5 DEF Stock!Asks
  <2> HIDE DEF r
  <2>3. /\ admin' \in [Admins -> Stock!Pending] /\ admin'[o] = r
        /\ \A p \in Admins \ {o} : admin'[p] = admin[p]
    BY <1>1, <2>1, <2>2, OneRequest
  <2>4. Booted'
    BY <1>1, <2>1, <2>3 DEF Booted
  <2>5. QED
    BY <2>3, <2>4
<1>6. QED
  BY <1>2, <1>3, <1>4, <1>5

LEMMA EditCount ==
  ASSUME edits \in 0..MaxEdits, NEW o \in Admins, Stock!Edit(o)
  PROVE  edits' \in 0..MaxEdits
BY StockConstants DEF Stock!Edit

\* A request that is under way finds the process serving.
LEMMA UnderWay ==
  ASSUME Stock!TypeOK, Booted, NEW o \in Admins, admin[o].op # "none"
  PROVE  daemon = "serving" /\ admin[o].host \in Hosts
BY RequestTypes DEF Booted, Stock!TypeOK

\* A step that moves no project keeps what is remembered of the deletions under way.
LEMMA PlacedFrame ==
  ASSUME Placed, servers \subseteq servers', UNCHANGED <<projects, raced>>,
         \A o \in Admins : admin'[o].op = "delete server" =>
           admin'[o] = admin[o] \/ Stock!Using(admin'[o].host) = {}
  PROVE  Placed'
BY DEF Placed, OrphansComeFromOverlap, Stock!OrphansComeFromOverlap, Stock!Using

LEMMA RemovedFrame ==
  ASSUME Removed, UNCHANGED <<servers, removed, emptied>>,
         daemon' = "servers" /\ todo' # {} =>
           (daemon = "servers" /\ todo # {}) \/ servers = {}
  PROVE  Removed'
BY DEF Removed, DeletedStaysDeleted, Stock!DeletedStaysDeleted

LEMMA ReachedFrame ==
  ASSUME Reached, UNCHANGED <<stored, password, onboarded>>,
         \A o \in Admins : admin'[o].op = "register" => admin'[o] = admin[o]
  PROVE  Reached'
BY DEF Reached, OnboardedIsReachable, Stock!OnboardedIsReachable

\* Counting, serving, stopping and booting write no table.
LEMMA BootingKeeps ==
  ASSUME StockInv,
         \/ Stock!CountServers \/ Stock!CountProjects \/ Stock!Fatal \/ Stock!Serve
         \/ Stock!Stop \/ Stock!Boot
  PROVE  StockInv'
<1>1. /\ Stock!TypeOK /\ Booted /\ Placed /\ Removed /\ Reached
      /\ UNCHANGED <<servers, projects, stored, password, edits, removed, emptied, raced, onboarded>>
  BY DEF StockInv, Stock!CountServers, Stock!CountProjects, Stock!Fatal, Stock!Serve,
     Stock!Stop, Stock!Boot, Stock!tables, Stock!vault, Stock!bounds, Stock!inventoryPast
<1>2. stops' \in 0..MaxStops
  <2>1. stops \in 0..MaxStops
    BY <1>1 DEF Stock!TypeOK
  <2>2. QED
    BY <2>1, StockConstants DEF Stock!CountServers, Stock!CountProjects, Stock!Fatal,
       Stock!Serve, Stock!Stop, Stock!Boot, Stock!bounds
<1>3. /\ daemon' \in Stock!Boots /\ ran' \in BOOLEAN /\ todo' \subseteq Hosts \cup Apps
      /\ todo' # {} => daemon' \in {"servers", "projects"}
  BY <1>1, StockConstants DEF Stock!TypeOK, Booted, Stock!Boots, Stock!CountServers,
     Stock!CountProjects, Stock!Fatal, Stock!Serve, Stock!Stop, Stock!Boot, Stock!inventoryPast
<1>4. UNCHANGED admin \/ admin' = [o \in Admins |-> Stock!NoRequest]
  BY DEF Stock!CountServers, Stock!CountProjects, Stock!Fatal, Stock!Serve, Stock!Stop, Stock!Boot
<1>5. \A o \in Admins : admin'[o] = admin[o] \/ admin'[o] = Stock!NoRequest
  BY <1>4
<1>6. admin' \in [Admins -> Stock!Pending]
  BY <1>1, <1>4, RequestTypes DEF Stock!TypeOK
<1>7. daemon # "serving" \/ admin' = [o \in Admins |-> Stock!NoRequest]
  BY <1>1 DEF Booted, Stock!CountServers, Stock!CountProjects, Stock!Fatal, Stock!Serve,
     Stock!Stop, Stock!Boot
<1>8. Booted'
  BY <1>1, <1>3, <1>4, <1>5, <1>7, RequestTypes DEF Booted
<1>9. Stock!TypeOK'
  BY <1>1, <1>2, <1>3, <1>6 DEF Stock!TypeOK
<1>10. Placed'
  BY <1>1, <1>5, RequestTypes, PlacedFrame
<1>11. daemon' = "servers" /\ todo' # {} => (daemon = "servers" /\ todo # {}) \/ servers = {}
  BY <1>1 DEF Booted, Stock!CountServers, Stock!CountProjects, Stock!Fatal, Stock!Serve,
     Stock!Stop, Stock!Boot
<1>12. Removed' /\ Reached'
  BY <1>1, <1>5, <1>11, RequestTypes, RemovedFrame, ReachedFrame
<1>13. QED
  BY <1>8, <1>9, <1>10, <1>12 DEF StockInv

\* The import adds servers only to a table no deletion is to be remembered of, and projects
\* only to servers that are there.
LEMMA ImportKeeps ==
  ASSUME StockInv,
         (\E h \in Hosts : Stock!ImportServer(h)) \/ (\E a \in Apps : Stock!ImportProject(a))
  PROVE  StockInv'
<1>1. /\ Stock!TypeOK /\ Booted /\ Placed /\ Removed /\ Reached
      /\ UNCHANGED <<stored, password, edits, stops, daemon, ran, admin, removed, emptied, raced, onboarded>>
      /\ todo' \subseteq todo /\ daemon \in {"servers", "projects"}
  BY DEF StockInv, Stock!ImportServer, Stock!ImportProject, Stock!vault, Stock!bounds,
     Stock!inventoryPast
<1>2. Booted' /\ \A o \in Admins : admin[o].op = "none"
  BY <1>1, RequestTypes DEF Booted
<1>3. Reached'
  BY <1>1, ReachedFrame
<1>4. ASSUME NEW h \in Hosts, Stock!ImportServer(h) PROVE StockInv'
  <2>1. servers' = servers \cup {h} /\ daemon = "servers" /\ todo # {} /\ projects' = projects
    BY <1>4 DEF Stock!ImportServer
  <2>2. Stock!TypeOK'
    BY <1>1, <2>1 DEF Stock!TypeOK
  <2>3. Placed'
    BY <1>1, <2>1, PlacedFrame
  <2>4. removed = {} \/ emptied
    BY <1>1, <2>1 DEF Removed
  <2>5. Removed'
    BY <1>1, <2>1, <2>4 DEF Removed, DeletedStaysDeleted, Stock!DeletedStaysDeleted
  <2>6. QED
    BY <1>2, <1>3, <2>2, <2>3, <2>5 DEF StockInv
<1>5. ASSUME NEW a \in Apps, Stock!ImportProject(a) PROVE StockInv'
  <2>1. /\ projects' = [projects EXCEPT ![a] = YamlProjects[a]] /\ servers' = servers
        /\ YamlProjects[a] \in servers /\ daemon = "projects"
    BY <1>5 DEF Stock!ImportProject
  <2>2. /\ projects' \in [Apps -> Hosts \cup {NoHost}]
        /\ \A b \in Apps : projects'[b] = projects[b] \/ projects'[b] \in servers
    BY <1>1, <2>1 DEF Stock!TypeOK
  <2>3. Stock!TypeOK'
    BY <1>1, <2>1, <2>2 DEF Stock!TypeOK
  <2>4. Placed'
    BY <1>1, <1>2, <2>1, <2>2 DEF Placed, OrphansComeFromOverlap, Stock!OrphansComeFromOverlap
  <2>5. Removed'
    BY <1>1, <2>1, RemovedFrame
  <2>6. QED
    BY <1>2, <1>3, <2>3, <2>4, <2>5 DEF StockInv
<1>6. QED
  BY <1>4, <1>5

\* A request that reads and decides: CheckUnused, CheckProject and Onboard write no table, and
\* the one that asks for a deletion has found no project on its server.
LEMMA CheckingKeeps ==
  ASSUME StockInv, NEW o \in Admins, NEW h \in Hosts,
         \/ Stock!CheckUnused(o, h) \/ Stock!Onboard(o, h)
         \/ \E a \in Apps : Stock!CheckProject(o, a, h)
  PROVE  StockInv'
<1>1. /\ Stock!TypeOK /\ Booted /\ Placed /\ Removed /\ Reached
      /\ UNCHANGED <<servers, projects, stored, password, daemon, todo, stops, ran, removed,
                     emptied, raced, onboarded>>
      /\ Stock!Edit(o)
  BY DEF StockInv, Stock!CheckUnused, Stock!Onboard, Stock!CheckProject, Stock!tables,
     Stock!vault, Stock!booting, Stock!inventoryPast
<1>2. edits' \in 0..MaxEdits
  <2>1. edits \in 0..MaxEdits
    BY <1>1 DEF Stock!TypeOK
  <2>2. QED
    BY <1>1, <2>1, EditCount
<1>3. daemon = "serving" /\ UNCHANGED Stock!booting
  BY <1>1 DEF Stock!Edit, Stock!booting
<1>4. /\ admin' \in [Admins -> Stock!Pending] /\ Booted'
      /\ \A p \in Admins \ {o} : admin'[p] = admin[p]
  <2>1. \/ \E op \in {"delete server", "put credential", "register"}, g \in Hosts :
             Stock!Asks(o, op, g, NoHost)
        \/ \E a \in Apps, g \in Hosts : Stock!Asks(o, "save project", g, a)
    BY DEF Stock!CheckUnused, Stock!Onboard, Stock!CheckProject
  <2>2. QED
    BY <1>1, <1>3, <2>1, RequestsKept
<1>5. \/ admin'[o].op \in {"save project", "put credential"}
      \/ admin'[o].op = "delete server" /\ Stock!Using(admin'[o].host) = {}
  <2>1. admin \in [Admins -> Stock!Pending]
    BY <1>1 DEF Stock!TypeOK
  <2>2. CASE Stock!CheckUnused(o, h)
    <3> DEFINE r == [op |-> "delete server", host |-> h, app |-> NoHost]
    <3>1. r.op = "delete server" /\ r.host = h
      OBVIOUS
    <3>2. admin' = [admin EXCEPT ![o] = r] /\ Stock!Using(h) = {}
      BY <2>2 DEF Stock!CheckUnused, Stock!Asks
    <3> HIDE DEF r
    <3>3. QED
      BY <2>1, <3>1, <3>2
  <2>3. CASE Stock!Onboard(o, h)
    BY <2>1, <2>3 DEF Stock!Onboard, Stock!Asks
  <2>4. ASSUME NEW a \in Apps, Stock!CheckProject(o, a, h)
        PROVE  admin'[o].op \in {"save project", "put credential"}
    BY <2>1, <2>4 DEF Stock!CheckProject, Stock!Asks
  <2>5. QED
    BY <2>2, <2>3, <2>4
<1>6. Stock!TypeOK'
  BY <1>1, <1>2, <1>4 DEF Stock!TypeOK
<1>7. Placed'
  BY <1>1, <1>4, <1>5, PlacedFrame
<1>8. Removed' /\ Reached'
  BY <1>1, <1>4, <1>5, RemovedFrame, ReachedFrame
<1>9. QED
  BY <1>4, <1>6, <1>7, <1>8 DEF StockInv

\* What a write leaves alone, whichever request makes it.
LEMMA WritingTypes ==
  ASSUME Stock!TypeOK, Booted, NEW o \in Admins,
         Stock!Edit(o) \/ (admin[o].op # "none" /\ UNCHANGED edits),
         UNCHANGED <<daemon, todo, stops, ran>>,
         \/ Stock!Answered(o) \/ UNCHANGED admin
         \/ \E h \in Hosts : Stock!Asks(o, "register", h, NoHost)
  PROVE  /\ edits' \in 0..MaxEdits /\ stops' \in 0..MaxStops /\ ran' \in BOOLEAN
         /\ daemon' = "serving" /\ daemon' \in Stock!Boots /\ todo' \subseteq Hosts \cup Apps
         /\ admin' \in [Admins -> Stock!Pending] /\ Booted'
         /\ \A p \in Admins \ {o} : admin'[p] = admin[p]
<1>1. edits \in 0..MaxEdits /\ admin \in [Admins -> Stock!Pending]
  BY DEF Stock!TypeOK
<1>2. daemon = "serving" /\ UNCHANGED Stock!booting
  BY UnderWay DEF Stock!Edit, Stock!booting
<1>3. edits' \in 0..MaxEdits
  BY <1>1, EditCount
<1>4. /\ admin' \in [Admins -> Stock!Pending] /\ Booted'
      /\ \A p \in Admins \ {o} : admin'[p] = admin[p]
  <2>1. \/ Stock!Answered(o) \/ UNCHANGED admin
        \/ \E op \in {"delete server", "put credential", "register"}, h \in Hosts :
             Stock!Asks(o, op, h, NoHost)
    OBVIOUS
  <2>2. QED
    BY <1>2, <2>1, RequestsKept
<1>5. QED
  BY <1>2, <1>3, <1>4 DEF Stock!TypeOK

\* After an answer the request is none.
LEMMA AnsweredRequest ==
  ASSUME admin \in [Admins -> Stock!Pending], NEW o \in Admins, Stock!Answered(o)
  PROVE  admin'[o].op = "none"
BY RequestTypes DEF Stock!Answered

\* UpsertServer, called by a save or by onboarding: a server that is added is no longer one
\* that was deleted.
LEMMA AddingKeeps ==
  ASSUME Removed, NEW h \in Hosts, Stock!UpsertServer(h), emptied' = emptied,
         daemon' = "serving"
  PROVE  Removed'
BY DEF Removed, DeletedStaysDeleted, Stock!DeletedStaysDeleted, Stock!UpsertServer

\* The machine registers itself, at boot or for an operator: nothing else changes.
LEMMA LocalKeeps ==
  ASSUME StockInv, Stock!ProvisionLocal \/ Stock!RunBootstrap
  PROVE  StockInv'
<1>1. /\ Stock!TypeOK /\ Booted /\ Placed /\ Removed /\ Reached
      /\ servers' = servers \cup {Local} /\ removed' \subseteq removed
      /\ UNCHANGED <<projects, stored, password, daemon, todo, admin, stops, ran, emptied, raced,
                     onboarded>>
  BY DEF StockInv, Stock!ProvisionLocal, Stock!RunBootstrap, Stock!UpsertServer, Stock!vault,
     Stock!booting, Stock!bounds, Stock!inventoryPast
<1>2. edits' \in 0..MaxEdits
  <2>1. edits \in 0..MaxEdits
    BY <1>1 DEF Stock!TypeOK
  <2>2. QED
    BY <2>1, StockConstants DEF Stock!ProvisionLocal, Stock!RunBootstrap, Stock!bounds
<1>3. Stock!TypeOK'
  BY <1>1, <1>2, StockConstants DEF Stock!TypeOK
<1>4. Booted'
  BY <1>1 DEF Booted
<1>5. Placed' /\ Reached'
  BY <1>1, PlacedFrame, ReachedFrame
<1>6. Removed'
  BY <1>1 DEF Removed, DeletedStaysDeleted, Stock!DeletedStaysDeleted
<1>7. QED
  BY <1>3, <1>4, <1>5, <1>6 DEF StockInv

LEMMA SaveServerKeeps ==
  ASSUME StockInv, NEW o \in Admins, NEW h \in Hosts, Stock!SaveServer(o, h)
  PROVE  StockInv'
<1>1. /\ Stock!TypeOK /\ Booted /\ Placed /\ Removed /\ Reached /\ Stock!Edit(o)
      /\ Stock!UpsertServer(h)
      /\ UNCHANGED <<projects, stored, password, daemon, todo, admin, stops, ran, emptied, raced,
                     onboarded>>
  BY DEF StockInv, Stock!SaveServer, Stock!vault, Stock!booting
<1>2. /\ edits' \in 0..MaxEdits /\ daemon' = "serving" /\ Booted'
  BY <1>1, WritingTypes
<1>3. Stock!TypeOK'
  BY <1>1, <1>2 DEF Stock!TypeOK, Stock!UpsertServer
<1>4. Placed'
  BY <1>1, PlacedFrame DEF Stock!UpsertServer
<1>5. Removed' /\ Reached'
  BY <1>1, <1>2, AddingKeeps, ReachedFrame
<1>6. QED
  BY <1>2, <1>3, <1>4, <1>5 DEF StockInv

\* The projects that are still on a server that goes came after its deletion was checked.
LEMMA DeleteServerKeeps ==
  ASSUME StockInv, NEW o \in Admins, Stock!DeleteServer(o)
  PROVE  StockInv'
<1>1. /\ Stock!TypeOK /\ Booted /\ Placed /\ Removed /\ Reached
      /\ admin[o].op = "delete server" /\ Stock!Answered(o)
      /\ UNCHANGED <<projects, stored, password, daemon, todo, edits, stops, ran, raced, onboarded>>
  BY DEF StockInv, Stock!DeleteServer, Stock!vault, Stock!booting, Stock!bounds
<1>2. PICK h \in Hosts : /\ h = admin[o].host /\ servers' = servers \ {h}
                         /\ removed' = removed \cup {h}
                         /\ emptied' = (emptied \/ servers \subseteq {h})
  BY <1>1, UnderWay DEF Stock!DeleteServer
<1>3. /\ edits' \in 0..MaxEdits /\ daemon' = "serving" /\ Booted'
      /\ admin' \in [Admins -> Stock!Pending]
      /\ \A p \in Admins \ {o} : admin'[p] = admin[p]
  BY <1>1, WritingTypes
<1>4. admin'[o].op = "none"
  BY <1>1, AnsweredRequest DEF Stock!TypeOK
<1>5. Stock!TypeOK'
  BY <1>1, <1>2, <1>3 DEF Stock!TypeOK
<1>6. OrphansComeFromOverlap'
  BY <1>1, <1>2 DEF Placed, OrphansComeFromOverlap, Stock!OrphansComeFromOverlap
<1>7. Placed'
  BY <1>1, <1>3, <1>4, <1>6 DEF Placed
<1>8. Removed'
  BY <1>1, <1>2, <1>3 DEF Removed, DeletedStaysDeleted, Stock!DeletedStaysDeleted
<1>9. Reached'
  BY <1>1, <1>3, <1>4, ReachedFrame
<1>10. QED
  BY <1>3, <1>5, <1>7, <1>8, <1>9 DEF StockInv

\* A project saved on a server that is gone or going is remembered; on any other no deletion
\* is under way.
LEMMA UpsertProjectKeeps ==
  ASSUME StockInv, NEW o \in Admins, Stock!UpsertProject(o)
  PROVE  StockInv'
<1>1. /\ Stock!TypeOK /\ Booted /\ Placed /\ Removed /\ Reached
      /\ admin[o].op = "save project" /\ Stock!Answered(o)
      /\ UNCHANGED <<servers, stored, password, daemon, todo, edits, stops, ran, removed, emptied,
                     onboarded>>
  BY DEF StockInv, Stock!UpsertProject, Stock!vault, Stock!booting, Stock!bounds
<1>2. admin[o].app \in Apps /\ admin[o].host \in Hosts
  BY <1>1, UnderWay DEF Booted
<1>3. PICK a \in Apps, h \in Hosts :
        /\ projects' = [projects EXCEPT ![a] = h]
        /\ raced' = IF h \notin servers \/ Stock!Doomed(h) THEN raced \cup {a} ELSE raced \ {a}
  BY <1>2 DEF Stock!UpsertProject
<1>4. /\ edits' \in 0..MaxEdits /\ daemon' = "serving" /\ Booted'
      /\ admin' \in [Admins -> Stock!Pending]
      /\ \A p \in Admins \ {o} : admin'[p] = admin[p]
  BY <1>1, WritingTypes
<1>5. admin'[o].op = "none"
  BY <1>1, AnsweredRequest DEF Stock!TypeOK
<1>6. /\ projects' \in [Apps -> Hosts \cup {NoHost}] /\ projects'[a] = h
      /\ \A b \in Apps \ {a} : projects'[b] = projects[b]
  BY <1>1, <1>3 DEF Stock!TypeOK
<1>7. raced' \subseteq Apps
  BY <1>1, <1>3 DEF Stock!TypeOK
<1>8. Stock!TypeOK'
  BY <1>1, <1>4, <1>6, <1>7 DEF Stock!TypeOK
<1>9. OrphansComeFromOverlap'
  BY <1>1, <1>3, <1>6 DEF Placed, OrphansComeFromOverlap, Stock!OrphansComeFromOverlap
<1>10. ASSUME NEW p \in Admins, NEW b \in Apps, admin'[p].op = "delete server",
              projects'[b] = admin'[p].host
       PROVE  b \in raced'
  <2>1. admin'[p] = admin[p]
    BY <1>4, <1>5, <1>10
  <2>2. CASE b = a
    BY <1>3, <1>6, <1>10, <2>1, <2>2 DEF Stock!Doomed
  <2>3. CASE b # a
    BY <1>1, <1>3, <1>6, <1>10, <2>1, <2>3 DEF Placed
  <2>4. QED
    BY <2>2, <2>3
<1>11. Placed'
  BY <1>9, <1>10 DEF Placed
<1>12. Removed' /\ Reached'
  BY <1>1, <1>4, <1>5, RemovedFrame, ReachedFrame
<1>13. QED
  BY <1>4, <1>8, <1>11, <1>12 DEF StockInv

LEMMA DeleteProjectKeeps ==
  ASSUME StockInv, NEW o \in Admins, NEW a \in Apps, Stock!DeleteProject(o, a)
  PROVE  StockInv'
<1>1. /\ Stock!TypeOK /\ Booted /\ Placed /\ Removed /\ Reached /\ Stock!Edit(o)
      /\ projects' = [projects EXCEPT ![a] = NoHost]
      /\ UNCHANGED <<servers, stored, password, daemon, todo, admin, stops, ran, removed, emptied,
                     raced, onboarded>>
  BY DEF StockInv, Stock!DeleteProject, Stock!vault, Stock!booting, Stock!inventoryPast
<1>2. /\ edits' \in 0..MaxEdits /\ daemon' = "serving" /\ Booted'
  BY <1>1, WritingTypes
<1>3. /\ projects' \in [Apps -> Hosts \cup {NoHost}] /\ projects'[a] = NoHost
      /\ \A b \in Apps \ {a} : projects'[b] = projects[b]
  BY <1>1 DEF Stock!TypeOK
<1>4. Stock!TypeOK'
  BY <1>1, <1>2, <1>3 DEF Stock!TypeOK
<1>5. \A p \in Admins : admin[p].op = "delete server" => admin[p].host # NoHost
  BY <1>1, UnderWay, StockConstants
<1>6. Placed'
  BY <1>1, <1>3, <1>5 DEF Placed, OrphansComeFromOverlap, Stock!OrphansComeFromOverlap
<1>7. Removed' /\ Reached'
  BY <1>1, <1>2, RemovedFrame, ReachedFrame
<1>8. QED
  BY <1>2, <1>4, <1>6, <1>7 DEF StockInv

\* A credential is set to the password the host has, or deleted.
LEMMA SetCredentialKeeps ==
  ASSUME StockInv, NEW o \in Admins, NEW h \in Hosts, Stock!SetCredential(o, h)
  PROVE  StockInv'
<1>1. /\ Stock!TypeOK /\ Booted /\ Placed /\ Removed /\ Reached /\ Stock!Edit(o)
      /\ onboarded' = [onboarded EXCEPT ![h] = 0]
      /\ UNCHANGED <<servers, projects, password, daemon, todo, admin, stops, ran, removed,
                     emptied, raced>>
  BY DEF StockInv, Stock!SetCredential, Stock!tables, Stock!booting
<1>2. PICK w \in {0, password[h]} : stored' = [stored EXCEPT ![h] = w]
  BY DEF Stock!SetCredential
<1>3. /\ edits' \in 0..MaxEdits /\ daemon' = "serving" /\ Booted'
  BY <1>1, WritingTypes
<1>4. /\ stored \in [Hosts -> 0..MaxPasswords] /\ onboarded \in [Hosts -> 0..MaxPasswords]
      /\ w \in 0..MaxPasswords /\ 0 \in 0..MaxPasswords
  <2>1. /\ stored \in [Hosts -> 0..MaxPasswords] /\ onboarded \in [Hosts -> 0..MaxPasswords]
        /\ password[h] \in 1..MaxPasswords
    BY <1>1 DEF Stock!TypeOK
  <2>2. QED
    BY <1>2, <2>1, StockConstants
<1>5. /\ stored' \in [Hosts -> 0..MaxPasswords] /\ stored'[h] \in {0, password[h]}
      /\ onboarded' \in [Hosts -> 0..MaxPasswords] /\ onboarded'[h] = 0
      /\ \A g \in Hosts \ {h} : stored'[g] = stored[g] /\ onboarded'[g] = onboarded[g]
  BY <1>1, <1>2, <1>4
<1>6. Stock!TypeOK'
  BY <1>1, <1>3, <1>5 DEF Stock!TypeOK
<1>7. Placed' /\ Removed'
  BY <1>1, <1>3, PlacedFrame, RemovedFrame
<1>8. \A p \in Admins : admin[p].op = "register" => admin[p].host \in Hosts
  BY <1>1, UnderWay
<1>9. Reached'
  BY <1>1, <1>5, <1>8 DEF Reached, OnboardedIsReachable, Stock!OnboardedIsReachable
<1>10. QED
  BY <1>3, <1>6, <1>7, <1>9 DEF StockInv

LEMMA PutCredentialKeeps ==
  ASSUME StockInv, NEW o \in Admins, Stock!PutCredential(o)
  PROVE  StockInv'
<1>1. /\ Stock!TypeOK /\ Booted /\ Placed /\ Removed /\ Reached /\ admin[o].op = "put credential"
      /\ UNCHANGED <<servers, projects, password, daemon, todo, edits, stops, ran, removed,
                     emptied, raced, onboarded>>
  BY DEF StockInv, Stock!PutCredential, Stock!tables, Stock!booting, Stock!bounds,
     Stock!inventoryPast
<1>2. PICK h \in Hosts : stored' = [stored EXCEPT ![h] = password[h]] /\ Stock!Asks(o, "register", h, NoHost)
  BY <1>1, UnderWay DEF Stock!PutCredential
<1>3. /\ edits' \in 0..MaxEdits /\ daemon' = "serving" /\ Booted'
      /\ admin' \in [Admins -> Stock!Pending]
      /\ \A p \in Admins \ {o} : admin'[p] = admin[p]
  BY <1>1, <1>2, WritingTypes
<1>4. admin'[o].op = "register" /\ admin'[o].host = h
  <2> DEFINE r == [op |-> "register", host |-> h, app |-> NoHost]
  <2>1. r.op = "register" /\ r.host = h
    OBVIOUS
  <2>2. admin' = [admin EXCEPT ![o] = r] /\ admin \in [Admins -> Stock!Pending]
    BY <1>1, <1>2 DEF Stock!Asks, Stock!TypeOK
  <2> HIDE DEF r
  <2>3. QED
    BY <2>1, <2>2
<1>5. stored \in [Hosts -> 0..MaxPasswords] /\ password[h] \in 0..MaxPasswords
  <2>1. stored \in [Hosts -> 0..MaxPasswords] /\ password[h] \in 1..MaxPasswords
    BY <1>1 DEF Stock!TypeOK
  <2>2. QED
    BY <2>1, StockConstants
<1>6. /\ stored' \in [Hosts -> 0..MaxPasswords] /\ stored'[h] = password[h]
      /\ \A g \in Hosts \ {h} : stored'[g] = stored[g]
  BY <1>2, <1>5
<1>7. Stock!TypeOK'
  BY <1>1, <1>3, <1>6 DEF Stock!TypeOK
<1>8. Placed' /\ Removed'
  BY <1>1, <1>3, <1>4, PlacedFrame, RemovedFrame
<1>9. ASSUME NEW p \in Admins, admin'[p].op = "register"
      PROVE  stored'[admin'[p].host] \in {0, password'[admin'[p].host]}
  <2>1. CASE p = o
    BY <1>1, <1>4, <1>6, <2>1
  <2>2. CASE p # o
    <3>1. admin'[p] = admin[p] /\ admin[p].op = "register"
      BY <1>3, <1>9, <2>2
    <3>2. admin[p].host \in Hosts /\ stored[admin[p].host] \in {0, password[admin[p].host]}
      BY <1>1, <3>1, UnderWay DEF Reached
    <3>3. QED
      BY <1>1, <1>6, <3>1, <3>2
  <2>3. QED
    BY <2>1, <2>2
<1>10. Reached'
  BY <1>1, <1>6, <1>9 DEF Reached, OnboardedIsReachable, Stock!OnboardedIsReachable
<1>11. QED
  BY <1>3, <1>7, <1>8, <1>10 DEF StockInv

LEMMA RegisterHostKeeps ==
  ASSUME StockInv, NEW o \in Admins, Stock!RegisterHost(o)
  PROVE  StockInv'
<1>1. /\ Stock!TypeOK /\ Booted /\ Placed /\ Removed /\ Reached /\ admin[o].op = "register"
      /\ Stock!Answered(o)
      /\ UNCHANGED <<projects, stored, password, daemon, todo, edits, stops, ran, emptied, raced>>
  BY DEF StockInv, Stock!RegisterHost, Stock!vault, Stock!booting, Stock!bounds
<1>2. PICK h \in Hosts : /\ h = admin[o].host /\ Stock!UpsertServer(h)
                         /\ onboarded' = [onboarded EXCEPT ![h] = password[h]]
  BY <1>1, UnderWay DEF Stock!RegisterHost
<1>3. /\ edits' \in 0..MaxEdits /\ daemon' = "serving" /\ Booted'
      /\ admin' \in [Admins -> Stock!Pending]
      /\ \A p \in Admins \ {o} : admin'[p] = admin[p]
  BY <1>1, WritingTypes
<1>4. admin'[o].op = "none"
  BY <1>1, AnsweredRequest DEF Stock!TypeOK
<1>5. onboarded \in [Hosts -> 0..MaxPasswords] /\ password[h] \in 0..MaxPasswords
  <2>1. onboarded \in [Hosts -> 0..MaxPasswords] /\ password[h] \in 1..MaxPasswords
    BY <1>1 DEF Stock!TypeOK
  <2>2. QED
    BY <2>1, StockConstants
<1>6. /\ onboarded' \in [Hosts -> 0..MaxPasswords] /\ onboarded'[h] = password[h]
      /\ \A g \in Hosts \ {h} : onboarded'[g] = onboarded[g]
  BY <1>2, <1>5
<1>7. Stock!TypeOK'
  BY <1>1, <1>2, <1>3, <1>6 DEF Stock!TypeOK, Stock!UpsertServer
<1>8. Placed'
  BY <1>1, <1>2, <1>3, <1>4, PlacedFrame DEF Stock!UpsertServer
<1>9. Removed'
  BY <1>1, <1>2, <1>3, AddingKeeps
<1>10. stored[h] \in {0, password[h]}
  BY <1>1, <1>2 DEF Reached
<1>11. Reached'
  BY <1>1, <1>3, <1>4, <1>6, <1>10 DEF Reached, OnboardedIsReachable, Stock!OnboardedIsReachable
<1>12. QED
  BY <1>3, <1>7, <1>8, <1>9, <1>11 DEF StockInv

\* A password changes while no run of onboarding holds what it has put.
LEMMA ChangePasswordKeeps ==
  ASSUME StockInv, NEW h \in Hosts, Stock!ChangePassword(h)
  PROVE  StockInv'
<1>1. /\ Stock!TypeOK /\ Booted /\ Placed /\ Removed /\ Reached
      /\ password' = [password EXCEPT ![h] = @ + 1] /\ password[h] < MaxPasswords
      /\ onboarded' = [onboarded EXCEPT ![h] = 0]
      /\ \A o \in Admins : admin[o].op # "register"
      /\ UNCHANGED <<servers, projects, stored, daemon, todo, admin, edits, stops, ran, removed,
                     emptied, raced>>
  BY DEF StockInv, Stock!ChangePassword, Stock!Unlocked, Stock!Onboarding, Stock!tables,
     Stock!booting, Stock!bounds
<1>2. /\ password \in [Hosts -> 1..MaxPasswords] /\ onboarded \in [Hosts -> 0..MaxPasswords]
      /\ password[h] + 1 \in 1..MaxPasswords /\ 0 \in 0..MaxPasswords
  <2>1. password \in [Hosts -> 1..MaxPasswords] /\ onboarded \in [Hosts -> 0..MaxPasswords]
    BY <1>1 DEF Stock!TypeOK
  <2>2. password[h] \in 1..MaxPasswords
    BY <2>1
  <2>3. QED
    BY <1>1, <2>1, <2>2, StockConstants
<1>3. /\ password' \in [Hosts -> 1..MaxPasswords]
      /\ onboarded' \in [Hosts -> 0..MaxPasswords] /\ onboarded'[h] = 0
      /\ \A g \in Hosts \ {h} : password'[g] = password[g] /\ onboarded'[g] = onboarded[g]
  BY <1>1, <1>2
<1>4. Stock!TypeOK'
  BY <1>1, <1>3 DEF Stock!TypeOK
<1>5. Booted'
  BY <1>1 DEF Booted
<1>6. Placed' /\ Removed'
  BY <1>1, PlacedFrame, RemovedFrame
<1>7. Reached'
  BY <1>1, <1>3 DEF Reached, OnboardedIsReachable, Stock!OnboardedIsReachable
<1>8. QED
  BY <1>4, <1>5, <1>6, <1>7 DEF StockInv

LEMMA StockInvariant == Stock!Spec => []StockInv
<1>1. StockInv /\ (Stock!Next \/ UNCHANGED Stock!inventoryVars) => StockInv'
  <2> SUFFICES ASSUME StockInv, Stock!Next \/ UNCHANGED Stock!inventoryVars PROVE StockInv'
    OBVIOUS
  <2>1. CASE Stock!Seeding \/ Stock!Stop \/ Stock!Boot \/ Stock!RunBootstrap
    BY <2>1, BootingKeeps, ImportKeeps, LocalKeeps DEF Stock!Seeding
  <2>2. ASSUME NEW o \in Admins, Stock!Requested(o) PROVE StockInv'
    <3>1. ASSUME NEW h \in Hosts,
                 \/ Stock!SaveServer(o, h) \/ Stock!CheckUnused(o, h)
                 \/ Stock!SetCredential(o, h) \/ Stock!Onboard(o, h)
          PROVE  StockInv'
      BY <3>1, SaveServerKeeps, CheckingKeeps, SetCredentialKeeps
    <3>2. ASSUME NEW a \in Apps, Stock!DeleteProject(o, a) PROVE StockInv'
      BY <3>2, DeleteProjectKeeps
    <3>3. ASSUME NEW a \in Apps, NEW h \in Hosts, Stock!CheckProject(o, a, h) PROVE StockInv'
      BY <3>3, CheckingKeeps
    <3>4. CASE Stock!DeleteServer(o) \/ Stock!UpsertProject(o) \/ Stock!PutCredential(o)
               \/ Stock!RegisterHost(o)
      BY <3>4, DeleteServerKeeps, UpsertProjectKeeps, PutCredentialKeeps, RegisterHostKeeps
    <3>5. QED
      BY <2>2, <3>1, <3>2, <3>3, <3>4 DEF Stock!Requested
  <2>3. ASSUME NEW h \in Hosts, Stock!ChangePassword(h) PROVE StockInv'
    BY <2>3, ChangePasswordKeeps
  <2>4. CASE UNCHANGED Stock!inventoryVars
    <3>1. UNCHANGED stockVars
      BY <2>4 DEF Stock!inventoryVars, Stock!tables, Stock!vault, Stock!booting, Stock!bounds,
         Stock!inventoryPast, stockVars
    <3>2. Stock!TypeOK' /\ Booted'
      BY <3>1 DEF stockVars, StockInv, Stock!TypeOK, Booted
    <3>3. Placed' /\ Removed' /\ Reached'
      BY <3>1, PlacedFrame, RemovedFrame, ReachedFrame DEF stockVars, StockInv
    <3>4. QED
      BY <3>2, <3>3 DEF StockInv
  <2>5. QED
    BY <2>1, <2>2, <2>3, <2>4 DEF Stock!Next
<1>2. QED
  BY StockInit, <1>1, PTL DEF Stock!Spec

\* A project loses its server only to a deletion its save overlapped (CountProjectsByServer
\* and DeleteServer, admin.go; seedInventory, main.go).
THEOREM OrphansNeedAnOverlap == Spec => []OrphansComeFromOverlap
<1>1. StockInv => OrphansComeFromOverlap
  BY DEF StockInv, Placed
<1>2. QED
  BY <1>1, StockInvariant, PartsKeepTheirSpecs, PTL

\* A restart brings a deleted server back only if the table was emptied (seedInventory), or if
\* it is the machine itself, which provisioning registers again (provisionIfNeeded).
THEOREM RestartsResurrectNothing == Spec => []DeletedStaysDeleted
<1>1. StockInv => DeletedStaysDeleted
  BY DEF StockInv, Removed
<1>2. QED
  BY <1>1, StockInvariant, PartsKeepTheirSpecs, PTL

\* Onboarding registers a host with a credential that opens it (onboard.go).
THEOREM OnboardingStoresThePassword == Spec => []OnboardedIsReachable
<1>1. StockInv => OnboardedIsReachable
  BY DEF StockInv, Reached
<1>2. QED
  BY <1>1, StockInvariant, PartsKeepTheirSpecs, PTL
=============================================================================
