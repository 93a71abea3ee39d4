---------------------------- MODULE K1sExposure ----------------------------
(***************************************************************************)
(* The K1sExposure reconciler of internal/controller/exposure_controller.go *)
(* for one object: it reads the app's status from k1s and the ready proxies *)
(* from Kubernetes, and keeps a Service, an EndpointSlice, an Ingress and a *)
(* K1sAppMirror in step with them. There is no finalizer: the generated    *)
(* objects carry a controller reference and the garbage collector removes  *)
(* them.                                                                   *)
(*                                                                         *)
(* A step is one remote call and the local computation after it. The       *)
(* exposure's cache, queue and timers come from Controller; the generated  *)
(* objects have a cache of their own, and the proxies are read past it.    *)
(***************************************************************************)
EXTENDS KubeObject, K1sStatus

CONSTANTS
    Specs,      \* the specs users write: records with fields service (name), port,
                \* ingress (enabled), ingressName and probe (enabled)
    Edits,      \* the changes <<s, t>> of the spec users make
    Names,      \* names of Services and Ingresses
    NoName,     \* an empty name in status
    Proxies,    \* addresses of k1s proxies
    Static,     \* addresses written in the cluster's spec: known without a lookup
    ProxyPort,  \* the proxy port of the cluster's spec, 0 if there is none
    NoOwner,    \* there is no object under this kind and name
    Nobody,     \* the object has no controller reference
    Other,      \* a controller that is not this exposure
    Deletions,  \* whether users delete the object
    Faults,     \* the kinds of disturbance that may happen
    MaxFaults,  \* bound: disturbances in a behaviour
    MaxGen,     \* bound: metadata.generation that a user's edit may reach
    MaxLives,   \* bound: how often the object is created
    MaxLag      \* bound: undelivered watch events

VARIABLES versions, k1s, credsOK, queue, timer, pc, own, ret, faults, lives,
    children,  \* the generated objects in the API server, by kind and name
    seen,      \* the same in the informers' caches
    traffic    \* trafficEndpoints of the reconcile under way

vars == <<versions, k1s, credsOK, queue, timer, pc, own, ret, faults, lives,
          children, seen, traffic>>

-----------------------------------------------------------------------------
(* The objects.                                                            *)

ExposureConditions == {"ClusterReady", "AppFound", "AppReady", "ProxyEndpointsReady",
    "IngressReady", "ResourcesApplied", "TrafficReady", "Ready"}

Conditions == [ExposureConditions -> [status : ConditionStatus, gen : Nat]]

K1sExposureSpec ==
    [service : Names, port : Nat, ingress : BOOLEAN, ingressName : Names, probe : BOOLEAN]

NoSpec ==
    [service |-> NoName, port |-> 0, ingress |-> FALSE, ingressName |-> NoName,
     probe |-> FALSE]

\* The name of the EndpointSlice is a function of serviceName and left out.
K1sExposureStatus ==
    [observedGeneration : Nat, appReady : BOOLEAN, serviceName : Names \cup {NoName},
     ingressName : Names \cup {NoName}, count : Nat, conds : Conditions]

NoStatus ==
    [observedGeneration |-> 0, appReady |-> FALSE, serviceName |-> NoName,
     ingressName |-> NoName, count |-> 0,
     conds |-> [t \in ExposureConditions |-> NoCondition]]

\* uid tells a recreated exposure from the one before. Exposures have no finalizer
\* and no hash of the operator.
K1sExposureRecord ==
    [exists : BOOLEAN, uid : 0 .. MaxLives, gen : Nat, fin : SUBSET {foreignFinalizer},
     deleting : BOOLEAN, hash : {NoHash}, spec : Specs \cup {NoSpec},
     status : K1sExposureStatus]

\* An object that exists has a spec and a uid.
K1sExposureObject ==
    {o \in K1sExposureRecord : o.exists => o.spec \in Specs /\ o.uid # 0}

NoObject ==
    [exists |-> FALSE, uid |-> 0, gen |-> 0, fin |-> {}, deleting |-> FALSE,
     hash |-> NoHash, spec |-> NoSpec, status |-> NoStatus]

NewObject(s, uid) ==
    [NoObject EXCEPT !.exists = TRUE, !.uid = uid, !.gen = 1, !.spec = s]

\* A generated object: its controller reference, and of its content the port, the
\* backend of an Ingress, the addresses of an EndpointSlice and status.ready of a
\* mirror. A kind leaves the fields alone that it does not have.
Owners == (1 .. MaxLives) \cup {NoOwner, Nobody, Other}

Children ==
    [owner : Owners, port : Nat, backend : Names \cup {NoName}, endpoints : SUBSET Proxies,
     ready : BOOLEAN]

NoChild == [owner |-> NoOwner, port |-> 0, backend |-> NoName, endpoints |-> {},
            ready |-> FALSE]

service(s) == <<"Service", s.service>>
endpointSlice(s) == <<"EndpointSlice", s.service>>
ingress(s) == <<"Ingress", s.ingressName>>
mirror == <<"K1sAppMirror", NoName>>

keysOf(s) == {service(s), endpointSlice(s), ingress(s), mirror}

Keys == UNION {keysOf(s) : s \in Specs}

\* What k1s and the cluster offer: the app's state, the ready proxies, and whether
\* URL and CA bundle of the cluster make a client.
AppStates == {"absent", "notReady", "ready"}

-----------------------------------------------------------------------------
INSTANCE Controller WITH NoManifest <- "absent"

ExposureFaults == FaultKinds \cup {"app", "proxies", "client", "names"}

ASSUME ExposureAssumption ==
    /\ Specs \subseteq K1sExposureSpec
    /\ Edits \subseteq Specs \X Specs
    /\ NoName \notin Names
    /\ IsFiniteSet(Proxies)
    /\ Static \subseteq Proxies
    /\ ProxyPort \in Nat
    /\ Cardinality({NoOwner, Nobody, Other}) = 3
    /\ {NoOwner, Nobody, Other} \cap Nat = {}

ASSUME ExposureBoundAssumption ==
    /\ Deletions \in BOOLEAN
    /\ Faults \subseteq ExposureFaults
    /\ {MaxFaults, MaxGen, MaxLives} \subseteq Nat
    /\ MaxLag \in Nat \ {0}

-----------------------------------------------------------------------------
(* Building blocks.                                                        *)

\* The condition as Reconcile has it in its own copy.
holds(o, type) == o.status.conds[type].status = "True"

\* K1sCluster or Secret cannot be read.
clusterMissing(o) ==
    [o.status EXCEPT
        !.observedGeneration = o.gen,
        !.conds = setConditions(@, [ClusterReady |-> "False", Ready |-> "False"], o.gen)]

\* NewClient fails; Ready is left as it was.
clientInvalid(o) ==
    [o.status EXCEPT
        !.observedGeneration = o.gen,
        !.conds = setConditions(@, [ClusterReady |-> "False"], o.gen)]

\* The status once the generated objects are in place.
resourcesApplied(o) ==
    [o.status EXCEPT
        !.observedGeneration = o.gen,
        !.appReady = holds(o, "AppReady"),
        !.serviceName = o.spec.service,
        !.ingressName = IF o.spec.ingress THEN o.spec.ingressName ELSE NoName,
        !.count = Cardinality(traffic),
        !.conds = setConditions(@, [ResourcesApplied |-> "True", ClusterReady |-> "True"], o.gen)]

\* Mutant: a failed discovery of proxies does not count.
readyStatus_ProxiesIgnored(o, st, trafficReady) ==
    [st EXCEPT !.conds = setConditions(@,
        [TrafficReady |-> IF o.spec.probe THEN conditionStatus(trafficReady) ELSE "Unknown",
         Ready |-> conditionStatus(holds(o, "AppFound") /\ holds(o, "AppReady") /\ trafficReady)],
        o.gen)]

\* The last two conditions; st is the status so far. IngressReady does not count.
readyStatus(o, st, trafficReady) ==
    [st EXCEPT !.conds = setConditions(@,
        [TrafficReady |-> IF o.spec.probe THEN conditionStatus(trafficReady) ELSE "Unknown",
         Ready |-> conditionStatus(
            /\ holds(o, "AppFound")
            /\ holds(o, "AppReady")
            /\ holds(o, "ProxyEndpointsReady")
            /\ trafficReady)],
        o.gen)]

-----------------------------------------------------------------------------
(* The generated objects, as the mutate functions leave the cached copy c.  *)

proxyTargetPort(s) == IF ProxyPort > 0 THEN ProxyPort ELSE s.port

buildService(c, o) == [c EXCEPT !.owner = o.uid, !.port = o.spec.port]

\* Mutant: the EndpointSlice gets no controller reference.
buildEndpointSlice_NoOwner(c, o, endpoints) ==
    [c EXCEPT !.owner = Nobody,
              !.port = proxyTargetPort(o.spec), !.endpoints = endpoints]

buildEndpointSlice(c, o, endpoints) ==
    [c EXCEPT !.owner = o.uid,
              !.port = proxyTargetPort(o.spec), !.endpoints = endpoints]

buildIngress(c, o) ==
    [c EXCEPT !.owner = o.uid, !.port = o.spec.port, !.backend = o.spec.service]

buildMirror(c, o) == [c EXCEPT !.owner = o.uid]

\* Mutant: the error of SetControllerReference is dropped.
controllerReference_Dropped(c) == TRUE

\* SetControllerReference: only an object of nobody or of an exposure of this name
\* (the present one or one before) is taken.
controllerReference(c) == c.owner # Other

\* controllerutil.CreateOrUpdate: nothing is sent if the cached copy is as wanted;
\* Create needs the name to be free and Update an unchanged resourceVersion, that
\* is, the cached copy must be the API server's.
CreateOrUpdate(key, want) ==
    /\ controllerReference(seen[key])
    /\ IF seen[key] = want
       THEN UNCHANGED children
       ELSE /\ seen[key] = children[key]
            /\ children' = [children EXCEPT ![key] = want]

CreateOrUpdateFails(key, want) ==
    \/ /\ \/ ~controllerReference(seen[key])
          \/ seen[key] # want /\ seen[key] # children[key]
       /\ UNCHANGED <<children, faults>>
    \/ /\ controllerReference(seen[key])
       /\ seen[key] # want
       /\ \/ Disturb("callFails") /\ UNCHANGED children
          \/ Disturb("replyLost") /\ CreateOrUpdate(key, want)

\* Reconcile returns an error: nothing of the status it computed is written.
ReturnError == Return("error") /\ traffic' = {}

\* A step that touches neither the exposure nor the other systems.
Local == UNCHANGED <<versions, k1s, credsOK, lives, seen>>

-----------------------------------------------------------------------------
(* Reconcile.                                                              *)

\* Mutant: the NotFound of the first Get is not handled.
Start_NotFoundIgnored ==
    /\ pc = "idle"
    /\ queue
    /\ queue' = FALSE
    /\ credsOK
    /\ k1s.client
    /\ pc' = "appStatus"
    /\ own' = cached
    /\ UNCHANGED ret
    /\ Local
    /\ UNCHANGED <<timer, faults, children, traffic>>

Start ==
    /\ pc = "idle"
    /\ queue
    /\ queue' = FALSE
    /\ \/ ~cached.exists /\ UNCHANGED <<pc, own, ret>>
       \/ cached.exists /\ ~credsOK /\ WriteStatus(cached, clusterMissing(cached), "done")
       \/ /\ cached.exists
          /\ credsOK
          /\ ~k1s.client
          /\ WriteStatus(cached, clientInvalid(cached), "done")
       \/ /\ cached.exists
          /\ credsOK
          /\ k1s.client
          /\ pc' = "appStatus"
          /\ own' = cached
          /\ UNCHANGED ret
    /\ Local
    /\ UNCHANGED <<timer, faults, children, traffic>>

ReadApp(found, ready) ==
    /\ pc' = "discover"
    /\ own' = [own EXCEPT !.status.conds = setConditions(@,
           [AppFound |-> conditionStatus(found), AppReady |-> conditionStatus(ready)],
           own.gen)]

\* The answers to GET /status/<app>: an app that is not ready has fewer replicas
\* than it asks for, or is scaled to zero; counts come as numbers or as strings.
appReplies ==
    CASE k1s.app = "notReady" ->
            {[desired_replicas |-> Num(2), ready_replicas |-> Num(1)],
             [desired_replicas |-> Num(0), ready_replicas |-> Num(0)]}
      [] k1s.app = "ready" ->
            {[desired_replicas |-> Num(2), ready_replicas |-> Num(2)],
             [desired_replicas |-> Str("2"), ready_replicas |-> Str("2")]}
      [] OTHER -> {}

\* Every error, the 404 for an unknown app included, counts as "not found".
AppStatus ==
    /\ pc = "appStatus"
    /\ \/ k1s.app = "absent" /\ ReadApp(FALSE, FALSE) /\ UNCHANGED faults
       \/ /\ \E reply \in appReplies : ReadApp(TRUE, ParseAppStatus(reply).ready)
          /\ UNCHANGED faults
       \/ Disturb("callFails") /\ ReadApp(FALSE, FALSE)
    /\ Local
    /\ UNCHANGED <<ret, queue, timer, children, traffic>>

\* What discoverProxyEndpoints returns; with an error, the addresses it had before
\* the lookup that failed.
discoverProxyEndpoints(ok) == IF ok THEN k1s.proxies ELSE Static

\* Mutant: the endpoints do not depend on the app.
trafficEndpoints_AppIgnored(o, endpoints) == endpoints

trafficEndpoints(o, endpoints) == IF holds(o, "AppFound") THEN endpoints ELSE {}

Discover ==
    /\ pc = "discover"
    /\ \E ok \in BOOLEAN :
          LET endpoints == discoverProxyEndpoints(ok)
          IN  /\ IF ok THEN UNCHANGED faults ELSE Disturb("callFails")
              /\ traffic' = trafficEndpoints(own, endpoints)
              /\ own' = [own EXCEPT !.status.conds = setConditions(@,
                    [ProxyEndpointsReady |-> conditionStatus(ok /\ endpoints # {})], own.gen)]
    /\ pc' = "service"
    /\ Local
    /\ UNCHANGED <<ret, queue, timer, children>>

wantedService == buildService(seen[service(own.spec)], own)

ReconcileService ==
    /\ pc = "service"
    /\ CreateOrUpdate(service(own.spec), wantedService)
    /\ Goto("endpointSlice")
    /\ Local
    /\ UNCHANGED <<queue, timer, faults, traffic>>

ReconcileServiceFails ==
    /\ pc = "service"
    /\ CreateOrUpdateFails(service(own.spec), wantedService)
    /\ ReturnError
    /\ Local

wantedEndpointSlice ==
    buildEndpointSlice(seen[endpointSlice(own.spec)], own, traffic)

ReconcileEndpointSlice ==
    /\ pc = "endpointSlice"
    /\ CreateOrUpdate(endpointSlice(own.spec), wantedEndpointSlice)
    /\ Goto("ingress")
    /\ Local
    /\ UNCHANGED <<queue, timer, faults, traffic>>

ReconcileEndpointSliceFails ==
    /\ pc = "endpointSlice"
    /\ CreateOrUpdateFails(endpointSlice(own.spec), wantedEndpointSlice)
    /\ ReturnError
    /\ Local

\* The outcome of reconcileIngress is a condition; an error is not returned.
IngressDone(ok) ==
    /\ pc' = "mirror"
    /\ own' = [own EXCEPT !.status.conds =
           setCondition(@, "IngressReady", conditionStatus(ok), own.gen)]
    /\ Local
    /\ UNCHANGED <<ret, queue, timer, traffic>>

\* A disabled Ingress is deleted by name, whoever owns it; NotFound is success.
RemoveIngress == children' = [children EXCEPT ![ingress(own.spec)] = NoChild]

wantedIngress == buildIngress(seen[ingress(own.spec)], own)

ReconcileIngress ==
    /\ pc = "ingress"
    /\ IF own.spec.ingress THEN CreateOrUpdate(ingress(own.spec), wantedIngress)
       ELSE RemoveIngress
    /\ IngressDone(TRUE)
    /\ UNCHANGED faults

ReconcileIngressFails ==
    /\ pc = "ingress"
    /\ IF own.spec.ingress THEN CreateOrUpdateFails(ingress(own.spec), wantedIngress)
       ELSE \/ Disturb("callFails") /\ UNCHANGED children
            \/ Disturb("replyLost") /\ RemoveIngress
    /\ IngressDone(FALSE)

wantedMirror == buildMirror(seen[mirror], own)

ReconcileMirror ==
    /\ pc = "mirror"
    /\ CreateOrUpdate(mirror, wantedMirror)
    /\ Goto("mirrorStatus")
    /\ Local
    /\ UNCHANGED <<queue, timer, faults, traffic>>

ReconcileMirrorFails ==
    /\ pc = "mirror"
    /\ CreateOrUpdateFails(mirror, wantedMirror)
    /\ ReturnError
    /\ Local

\* mirrorStatusFromApp, merged against the cached mirror. A mirror that was just
\* created is not in the cache yet, and then the patch fails.
mirrorPatchable == seen[mirror].owner # NoOwner /\ children[mirror].owner # NoOwner

WriteMirrorStatus ==
    children' = [children EXCEPT ![mirror].ready =
        mergeField(@, seen[mirror].ready, holds(own, "AppFound") /\ holds(own, "AppReady"))]

PatchMirrorStatus ==
    /\ pc = "mirrorStatus"
    /\ mirrorPatchable
    /\ WriteMirrorStatus
    /\ LET st == resourcesApplied(own)
       IN  IF own.spec.probe
           THEN pc' = "probe" /\ own' = [own EXCEPT !.status = st] /\ UNCHANGED ret
           ELSE WriteStatus(own, readyStatus(own, st, TRUE), "poll")
    /\ Local
    /\ UNCHANGED <<queue, timer, faults, traffic>>

PatchMirrorStatusFails ==
    /\ pc = "mirrorStatus"
    /\ \/ ~mirrorPatchable /\ UNCHANGED <<children, faults>>
       \/ Disturb("callFails") /\ UNCHANGED children
       \/ Disturb("replyLost") /\ mirrorPatchable /\ WriteMirrorStatus
    /\ ReturnError
    /\ Local

\* A request to the Service reaches the app through a ready proxy.
trafficFlows(s) ==
    /\ children[service(s)].owner # NoOwner
    /\ children[endpointSlice(s)].endpoints \cap k1s.proxies # {}
    /\ k1s.app # "absent"

Probe ==
    /\ pc = "probe"
    /\ \/ WriteStatus(own, readyStatus(own, own.status, trafficFlows(own.spec)), "poll")
          /\ UNCHANGED faults
       \/ Disturb("callFails") /\ WriteStatus(own, readyStatus(own, own.status, FALSE), "poll")
    /\ Local
    /\ UNCHANGED <<queue, timer, children, traffic>>

Reconcile ==
    \/ Start
    \/ AppStatus
    \/ Discover
    \/ ReconcileService \/ ReconcileServiceFails
    \/ ReconcileEndpointSlice \/ ReconcileEndpointSliceFails
    \/ ReconcileIngress \/ ReconcileIngressFails
    \/ ReconcileMirror \/ ReconcileMirrorFails
    \/ PatchMirrorStatus \/ PatchMirrorStatusFails
    \/ Probe
    \/ (PatchStatus \/ PatchStatusFails) /\ traffic' = {} /\ UNCHANGED <<children, seen>>

-----------------------------------------------------------------------------
(* The manager, the garbage collector and the rest of the world.           *)

\* The owner is an exposure of this name, the present one or one before.
Ours(c) == c.owner \in Nat

\* A watch event of a generated object; Owns() hands it to the exposure.
DeliverChild(key) ==
    /\ seen[key] # children[key]
    /\ seen' = [seen EXCEPT ![key] = children[key]]
    /\ queue' = (queue \/ Ours(seen[key]) \/ Ours(children[key]))
    /\ UNCHANGED <<versions, k1s, credsOK, timer, pc, own, ret, faults, lives, children, traffic>>

\* A pass of the garbage collector: objects whose owner is gone go too.
Orphaned(c) == Ours(c) /\ ~(server.exists /\ server.uid = c.owner)

GarbageCollect ==
    /\ \E key \in Keys : Orphaned(children[key])
    /\ children' = [key \in Keys |->
          IF Orphaned(children[key]) THEN NoChild ELSE children[key]]
    /\ UNCHANGED <<versions, k1s, credsOK, queue, timer, pc, own, ret, faults, lives, seen, traffic>>

Create(s) == CreateObject(NewObject(s, lives + 1))

Edit(s) ==
    /\ <<server.spec, s>> \in Edits
    /\ EditObject([server EXCEPT !.spec = s, !.gen = @ + 1])

\* The app, the proxies or the cluster's URL and CA change.
AppChanges(a) == Disturb("app") /\ k1s.app # a /\ k1s' = [k1s EXCEPT !.app = a]

ProxiesChange(ps) ==
    Disturb("proxies") /\ k1s.proxies # ps /\ k1s' = [k1s EXCEPT !.proxies = ps]

ClientBreaks == Disturb("client") /\ k1s.client /\ k1s' = [k1s EXCEPT !.client = FALSE]

ClientMended == ~k1s.client /\ k1s' = [k1s EXCEPT !.client = TRUE] /\ UNCHANGED faults

World ==
    /\ \/ \E a \in AppStates : AppChanges(a)
       \/ \E ps \in SUBSET Proxies : Static \subseteq ps /\ ProxiesChange(ps)
       \/ ClientBreaks
       \/ ClientMended
    /\ UNCHANGED <<versions, credsOK, queue, timer, pc, own, ret, lives>>

\* An object of the same kind and name that a user or another controller made.
Foreign(owner) == [NoChild EXCEPT !.owner = owner]

\* Somebody takes a name that is free, or deletes an object.
TakeName(key, owner) ==
    /\ Disturb("names")
    /\ children[key] = NoChild
    /\ children' = [children EXCEPT ![key] = Foreign(owner)]

DeleteChild(key) ==
    /\ \/ Disturb("outOfBand") /\ Ours(children[key])
       \/ UNCHANGED faults /\ children[key] \in {Foreign(Nobody), Foreign(Other)}
    /\ children' = [children EXCEPT ![key] = NoChild]

Others ==
    /\ \E key \in Keys : DeleteChild(key) \/ \E owner \in {Nobody, Other} : TakeName(key, owner)
    /\ UNCHANGED <<versions, k1s, credsOK, queue, timer, pc, own, ret, lives, seen, traffic>>

Environment ==
    \/ \E s \in Specs : Create(s) \/ Edit(s)
    \/ Deletions /\ Delete
    \/ AddForeign \/ RemoveForeign
    \/ LoseCredentials \/ RestoreCredentials
    \/ World

Manager == Deliver \/ TimerFires \/ Resync

Init ==
    /\ ControllerInit
    /\ k1s = [app |-> "ready", proxies |-> Proxies, client |-> TRUE]
    /\ children = [key \in Keys |-> NoChild]
    /\ seen = children
    /\ traffic = {}

Next ==
    \/ Reconcile
    \/ (Manager \/ Environment) /\ UNCHANGED <<children, seen, traffic>>
    \/ Crash /\ seen' = children /\ traffic' = {} /\ UNCHANGED children
    \/ \E key \in Keys : DeliverChild(key)
    \/ GarbageCollect
    \/ Others

Spec == Init /\ [][Next]_vars

\* The last pass that was seen found no cluster, no credentials or no client: it
\* returned without RequeueAfter.
GaveUp(o) == o.status.conds["ClusterReady"].status = "False"

\* The reconciler, the informers and the timers make progress. The resync is only
\* counted on for an exposure that was given up; for every other the poll has to do.
Fairness ==
    /\ WF_vars(Reconcile)
    /\ WF_vars(Deliver /\ UNCHANGED <<children, seen, traffic>>)
    /\ WF_vars(TimerFires /\ UNCHANGED <<children, seen, traffic>>)
    /\ WF_vars(Resync /\ GaveUp(cached) /\ UNCHANGED <<children, seen, traffic>>)
    /\ WF_vars(\E key \in Keys : DeliverChild(key))

FairSpec == Spec /\ Fairness

-----------------------------------------------------------------------------
(* Properties.                                                             *)

Steps == {"idle", "appStatus", "discover", "service", "endpointSlice", "ingress",
          "mirror", "mirrorStatus", "probe", "patchStatus"}

\* Every variable has its type, and a step of Reconcile has an object to work on
\* (own is what r.Get read at the start).
TypeOK ==
    /\ versions \in Seq(K1sExposureObject)
    /\ \A i \in 1 .. Len(versions) : versions[i].uid <= lives
    /\ Len(versions) \in 1 .. MaxLag + 1
    /\ k1s \in [app : AppStates, proxies : SUBSET Proxies, client : BOOLEAN]
    /\ {credsOK, queue, timer} \subseteq BOOLEAN
    /\ pc \in Steps
    /\ own \in K1sExposureObject
    /\ pc # "idle" => own.exists
    /\ ret \in {"done", "poll", "error"}
    /\ {children, seen} \subseteq [Keys -> Children]
    /\ traffic \subseteq Proxies
    /\ faults \in 0 .. MaxFaults
    /\ lives \in 0 .. MaxLives

\* Ready for the generation the API server holds.
ReadyNow(o) == o.status.conds["Ready"] = [status |-> "True", gen |-> o.gen]

\* The Service and the EndpointSlice of the spec are this exposure's.
Exposed(o) ==
    /\ children[service(o.spec)].owner = o.uid
    /\ children[service(o.spec)].port = o.spec.port
    /\ children[endpointSlice(o.spec)].owner = o.uid

\* What Ready=True stands on.
Grounds == {"AppFound", "AppReady", "ProxyEndpointsReady", "ResourcesApplied"}

\* Ready=True for the current generation means that the Service and the
\* EndpointSlice of the spec are in place and owned by the exposure, and that the app
\* and a proxy were found for this generation (docs/troubleshooting.md, Exposure Not
\* Ready), whatever faults and stale caches came before; for an exposure that was
\* created once, whose objects nobody else deletes and whose users do not go back to a
\* Service and port they have left. What the status says of names and counts is left
\* out: each field is sent apart, and only if it differs from a cached copy, so that
\* an older one may stand beside the conditions until the next reconcile.
ReadyMeansExposed ==
    (lives = 1 /\ server.exists /\ ReadyNow(server))
    => /\ Exposed(server)
       /\ \A t \in Grounds :
             server.status.conds[t] = [status |-> "True", gen |-> server.gen]

\* A step of Reconcile never changes or deletes an object that another controller
\* owns, also if the cache still shows the name free or as the exposure's own:
\* SetControllerReference and the resourceVersion of Update stand in the way. Two
\* writes go by name alone and are excepted: the DELETE of an Ingress and the patch
\* of the mirror's status.
OthersUntouched ==
    [][ \A key \in Keys :
          (children[key].owner = Other /\ key[1] # "Ingress" /\ pc' # pc)
          => children'[key] = [children[key] EXCEPT !.ready = children'[key].ready] ]_vars

\* Nobody else holds a name that the spec uses.
NamesFree(s) == \A key \in keysOf(s) : children[key].owner # Other

\* The generated objects are what spec, app and proxies ask for.
InPlace(o) ==
    /\ Exposed(o)
    /\ children[endpointSlice(o.spec)].endpoints
          = IF k1s.app = "absent" THEN {} ELSE k1s.proxies
    /\ IF o.spec.ingress
       THEN /\ children[ingress(o.spec)].owner = o.uid
            /\ children[ingress(o.spec)].backend = o.spec.service
       ELSE children[ingress(o.spec)] \in {NoChild, Foreign(Nobody)}
    /\ children[mirror].owner = o.uid
    /\ children[mirror].ready = (k1s.app = "ready")

\* The status tells what is in place.
Reported(o) ==
    /\ o.status.conds["Ready"] =
          [status |-> conditionStatus(k1s.app = "ready" /\ k1s.proxies # {}), gen |-> o.gen]
    /\ o.status.observedGeneration = o.gen
    /\ o.status.serviceName = o.spec.service
    /\ o.status.count = Cardinality(children[endpointSlice(o.spec)].endpoints)

\* Cluster, Secret and client come back for good.
ClusterReturns == <>[](credsOK /\ k1s.client)

\* Once users and faults are quiet, the generated objects and the mirror follow
\* the spec, the app and the proxies, and the status says so, although nothing
\* watches the app or the proxies and every step may have failed half-way.
ExposureConverges ==
    ClusterReturns
    => <>[]((server.exists /\ NamesFree(server.spec)) => InPlace(server) /\ Reported(server))

\* The object belongs to an exposure of this name or has content one gave it.
Generated(c) == Ours(c) \/ c.port # 0 \/ c.backend # NoName \/ c.endpoints # {}

\* Caches are current and neither the reconciler nor the garbage collector has
\* anything to do.
AtRest ==
    /\ pc = "idle" /\ ~queue /\ Len(versions) = 1 /\ seen = children
    /\ ~\E key \in Keys : Orphaned(children[key])

\* After the exposure is gone nothing it generated stays, not even what a
\* reconcile that was under way created afterwards, or what a successor took over
\* before it was deleted too.
NothingGeneratedStays ==
    (AtRest /\ ~server.exists) => \A key \in Keys : ~Generated(children[key])
=============================================================================
