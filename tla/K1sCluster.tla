----------------------------- MODULE K1sCluster -----------------------------
(***************************************************************************)
(* The K1sCluster reconciler of internal/controller/cluster_controller.go  *)
(* for one object. It changes nothing but the object's status, which it    *)
(* builds from nothing in every pass out of answers that come one after    *)
(* the other: the Secret, the bootstrap ConfigMap, the k1s controller's    *)
(* health and nodes, the proxies. None of these is watched.                *)
(***************************************************************************)
EXTENDS KubeObject, K1sStatus

CONSTANTS
    Specs,      \* the specs users write: records with the BOOLEAN fields auth
                \* (authSecretRef), bootstrap (bootstrapConfigMapRef) and apishim
    Edits,      \* the changes <<s, t>> of the spec users make
    NodeLists,  \* the answers to GET /nodes
    Domains,    \* the stack domains a bootstrap ConfigMap may name
    NoDomain,   \* no domain, no ConfigMap
    Faults,     \* the kinds of disturbance that may happen
    MaxFaults,  \* bound: disturbances in a behaviour
    MaxGen,     \* bound: metadata.generation that a user's edit may reach
    MaxLives,   \* bound: how often the object is created
    MaxLag      \* bound: undelivered watch events

\* k1s is here what the reconciler asks: whether URL and CA bundle make a client,
\* the health paths that answer, the nodes, the domain and the state of the proxies.
\* credsOK: the Secret is there, with the read token if its key is named.
VARIABLES versions, k1s, credsOK, queue, timer, pc, own, ret, faults, lives

vars == <<versions, k1s, credsOK, queue, timer, pc, own, ret, faults, lives>>

ClusterConditions == {"CredentialsValid", "BootstrapLoaded", "ControllerAvailable",
    "ProxyReady", "ApishimAvailable", "Ready"}

Conditions == [ClusterConditions -> [status : ConditionStatus, gen : Nat]]

K1sClusterSpec == [auth : BOOLEAN, bootstrap : BOOLEAN, apishim : BOOLEAN]

NoSpec == [auth |-> FALSE, bootstrap |-> FALSE, apishim |-> FALSE]

\* nodeSummary is three fields for a merge patch. apishimAvailable is never TRUE.
K1sClusterStatus ==
    [observedGeneration : Nat, controllerAvailable : BOOLEAN, proxyReady : BOOLEAN,
     stackDomain : Domains \cup {NoDomain}, ready : Nat, stale : Nat, total : Int,
     conds : Conditions]

NoStatus ==
    [observedGeneration |-> 0, controllerAvailable |-> FALSE, proxyReady |-> FALSE,
     stackDomain |-> NoDomain, ready |-> 0, stale |-> 0, total |-> 0,
     conds |-> [t \in ClusterConditions |-> NoCondition]]

NoObject ==
    [exists |-> FALSE, gen |-> 0, fin |-> {}, deleting |-> FALSE, hash |-> NoHash,
     spec |-> NoSpec, status |-> NoStatus]

K1sClusterRecord ==
    [exists : BOOLEAN, gen : Nat, fin : SUBSET Finalizers, deleting : BOOLEAN,
     hash : {NoHash}, spec : K1sClusterSpec, status : K1sClusterStatus]

\* An object that exists has a spec that a user wrote.
K1sClusterObject == {o \in K1sClusterRecord : o.exists => o.spec \in Specs}

NewObject(s) == [NoObject EXCEPT !.exists = TRUE, !.gen = 1, !.spec = s]

INSTANCE Controller WITH NoManifest <- NoDomain

ClusterFaults == FaultKinds \cup {"client", "controller", "nodes", "bootstrap", "proxies"}

HealthPaths == {"/health", "/healthz"}

\* missing: the Service does not exist, and discoverProxyEndpoints fails.
ProxyStates == {"missing", "none", "ready"}

Worlds ==
    [client : BOOLEAN, health : SUBSET HealthPaths, nodes : NodeLists,
     domain : Domains \cup {NoDomain}, proxies : ProxyStates]

ASSUME ClusterAssumption ==
    /\ Specs \subseteq K1sClusterSpec
    /\ Edits \subseteq Specs \X Specs
    /\ NodeLists \subseteq NodeAnswers
    /\ NoDomain \notin Domains
    /\ Faults \subseteq ClusterFaults
    /\ {MaxFaults, MaxGen, MaxLives} \subseteq Nat
    /\ MaxLag \in Nat \ {0}

-----------------------------------------------------------------------------
(* Reconcile.                                                              *)

\* Without an authSecretRef there is nothing to load.
loadCredentials(o) == o.spec.auth => credsOK

\* Mutant: the status of the last pass is carried on.
freshStatus_Carried(o) == [o.status EXCEPT !.observedGeneration = o.gen]

freshStatus(o) == [NoStatus EXCEPT !.observedGeneration = o.gen]

\* The status with some conditions set for the generation of the copy o.
noted(o, st, values) == [st EXCEPT !.conds = setConditions(@, values, o.gen)]

holds(st, type) == st.conds[type].status = "True"

\* NewClient and Health follow the bootstrap, if the credentials were loaded. What
\* NewClient goes by is known from the start.
afterBootstrap(st) ==
    IF holds(st, "CredentialsValid") /\ st.conds["ControllerAvailable"] = NoCondition
    THEN "health" ELSE "discover"

\* The copy with what was learnt so far; Reconcile goes on to step.
Learn(o, st, step) ==
    /\ own' = [o EXCEPT !.status = st]
    /\ pc' = step
    /\ UNCHANGED <<versions, k1s, credsOK, timer, ret, lives>>

\* Mutant: the NotFound of the first Get is not handled.
Start_NotFoundIgnored ==
    /\ pc = "idle"
    /\ queue
    /\ queue' = FALSE
    /\ Learn(cached, freshStatus(cached), "discover")
    /\ UNCHANGED faults

Start ==
    /\ pc = "idle"
    /\ queue
    /\ queue' = FALSE
    /\ UNCHANGED faults
    /\ \/ /\ ~cached.exists
          /\ UNCHANGED <<versions, k1s, credsOK, timer, pc, own, ret, lives>>
       \/ /\ cached.exists
          /\ LET creds == loadCredentials(cached)
                 start == noted(cached, freshStatus(cached),
                              [CredentialsValid |-> conditionStatus(creds),
                               BootstrapLoaded |-> "False"])
                 st == IF creds /\ ~k1s.client
                       THEN noted(cached, start, [ControllerAvailable |-> "False"])
                       ELSE start
             IN  Learn(cached, st,
                       IF cached.spec.bootstrap THEN "bootstrap" ELSE afterBootstrap(st))

\* The ConfigMap is read past the cache.
ReadBootstrap ==
    /\ pc = "bootstrap"
    /\ \/ /\ k1s.domain # NoDomain
          /\ Learn(own, noted(own, [own.status EXCEPT !.stackDomain = k1s.domain],
                              [BootstrapLoaded |-> "True"]), afterBootstrap(own.status))
          /\ UNCHANGED faults
       \/ /\ \/ k1s.domain = NoDomain /\ UNCHANGED faults
             \/ Disturb("callFails")
          /\ Learn(own, own.status, afterBootstrap(own.status))
    /\ UNCHANGED queue

available ==
    noted(own, [own.status EXCEPT !.controllerAvailable = TRUE],
          [ControllerAvailable |-> "True"])

\* Health asks /health, and after any error /healthz.
Health ==
    /\ pc = "health"
    /\ \/ "/health" \in k1s.health /\ Learn(own, available, "nodes") /\ UNCHANGED faults
       \/ /\ \/ "/health" \notin k1s.health /\ UNCHANGED faults
             \/ Disturb("callFails")
          /\ Learn(own, own.status, "healthz")
    /\ UNCHANGED queue

\* Mutant: the second path is not tried.
Healthz_NotTried ==
    /\ pc = "healthz"
    /\ Learn(own, noted(own, own.status, [ControllerAvailable |-> "False"]), "discover")
    /\ UNCHANGED <<faults, queue>>

Healthz ==
    /\ pc = "healthz"
    /\ \/ "/healthz" \in k1s.health /\ Learn(own, available, "nodes") /\ UNCHANGED faults
       \/ /\ \/ "/healthz" \notin k1s.health /\ UNCHANGED faults
             \/ Disturb("callFails")
          /\ Learn(own, noted(own, own.status, [ControllerAvailable |-> "False"]), "discover")
    /\ UNCHANGED queue

\* Without an answer the summary stays empty.
Nodes ==
    /\ pc = "nodes"
    /\ \/ LET nodes == ParseNodeSummary(k1s.nodes)
          IN  /\ Learn(own, [own.status EXCEPT !.ready = nodes.ready,
                              !.stale = nodes.stale, !.total = nodes.total], "discover")
              /\ UNCHANGED faults
       \/ Disturb("callFails") /\ Learn(own, own.status, "discover")
    /\ UNCHANGED queue

\* Mutant: the proxies do not count.
clusterReady_NoProxy(st) == st.controllerAvailable /\ holds(st, "CredentialsValid")

clusterReady(st) ==
    st.controllerAvailable /\ st.proxyReady /\ holds(st, "CredentialsValid")

\* The last two conditions; an apishim is never asked.
concluded(o, st) ==
    noted(o, IF o.spec.apishim THEN noted(o, st, [ApishimAvailable |-> "False"]) ELSE st,
          [Ready |-> conditionStatus(clusterReady(st))])

Discover ==
    /\ pc = "discover"
    /\ \E ready \in BOOLEAN :
          /\ IF ready THEN k1s.proxies = "ready" /\ UNCHANGED faults
             ELSE \/ k1s.proxies # "ready" /\ UNCHANGED faults
                  \/ Disturb("callFails")
          /\ WriteStatus(own,
                concluded(own, noted(own, [own.status EXCEPT !.proxyReady = ready],
                                     [ProxyReady |-> conditionStatus(ready)])), "poll")
    /\ UNCHANGED <<versions, k1s, credsOK, timer, lives, queue>>

Reconcile ==
    \/ Start
    \/ ReadBootstrap
    \/ Health \/ Healthz
    \/ Nodes
    \/ Discover
    \/ PatchStatus \/ PatchStatusFails

-----------------------------------------------------------------------------
(* Users and the world.                                                    *)

Create(s) == CreateObject(NewObject(s))

Edit(s) ==
    /\ <<server.spec, s>> \in Edits
    /\ EditObject([server EXCEPT !.spec = s, !.gen = @ + 1])

\* One of the things the status tells of changes.
World ==
    /\ \/ Disturb("client") /\ k1s' = [k1s EXCEPT !.client = ~@]
       \/ \E paths \in SUBSET HealthPaths :
             Disturb("controller") /\ k1s' = [k1s EXCEPT !.health = paths]
       \/ \E nodes \in NodeLists : Disturb("nodes") /\ k1s' = [k1s EXCEPT !.nodes = nodes]
       \/ \E d \in Domains \cup {NoDomain} :
             Disturb("bootstrap") /\ k1s' = [k1s EXCEPT !.domain = d]
       \/ \E p \in ProxyStates : Disturb("proxies") /\ k1s' = [k1s EXCEPT !.proxies = p]
    /\ k1s' # k1s
    /\ UNCHANGED <<versions, credsOK, queue, timer, pc, own, ret, lives>>

Environment ==
    \/ \E s \in Specs : Create(s) \/ Edit(s)
    \/ Delete
    \/ LoseCredentials \/ RestoreCredentials
    \/ World

Init ==
    /\ ControllerInit
    /\ k1s \in [client : {TRUE}, health : {HealthPaths}, nodes : NodeLists,
                domain : Domains, proxies : {"ready"}]

Next == Reconcile \/ Deliver \/ TimerFires \/ Resync \/ Crash \/ Environment

Spec == Init /\ [][Next]_vars

\* The reconciler's goroutine, the informer and the timers make progress. Nothing
\* is asked of the resync: every pass asks for the next one or ends with an error.
Fairness ==
    /\ WF_vars(Reconcile)
    /\ WF_vars(Deliver)
    /\ WF_vars(TimerFires)

FairSpec == Spec /\ Fairness

-----------------------------------------------------------------------------
(* Properties.                                                             *)

Steps == {"idle", "bootstrap", "health", "healthz", "nodes", "discover", "patchStatus"}

\* Every variable has its type, and a step of Reconcile has an object to work on.
TypeOK ==
    /\ versions \in Seq(K1sClusterObject)
    /\ Len(versions) \in 1 .. MaxLag + 1
    /\ k1s \in Worlds
    /\ credsOK \in BOOLEAN
    /\ queue \in BOOLEAN
    /\ timer \in BOOLEAN
    /\ pc \in Steps
    /\ own \in K1sClusterObject
    /\ pc # "idle" => own.exists
    /\ ret \in {"done", "poll", "error"}
    /\ faults \in 0 .. MaxFaults
    /\ lives \in 0 .. MaxLives

\* The conditions stand and fall together: Ready=True is never published without
\* CredentialsValid, ControllerAvailable and ProxyReady of the same generation,
\* whatever patches against stale copies came before, because patchStatus sends the
\* conditions as one list.
ReadyExplained ==
    LET conds == server.status.conds
    IN  conds["Ready"].status = "True" =>
            \A t \in {"CredentialsValid", "ControllerAvailable", "ProxyReady"} :
                conds[t] = conds["Ready"]

\* Of a cluster that was created once, the published conditions are all of the
\* generation in observedGeneration: no verdict on an earlier spec survives next to
\* those on a later one, although observedGeneration and conditions are merged apart.
StatusOfOneGeneration ==
    lives = 1 =>
        \A t \in ClusterConditions :
            server.status.conds[t] = NoCondition
            \/ server.status.conds[t].gen = server.status.observedGeneration

\* The controller answers, as a reader of the spec would find out.
Reachable(o) == loadCredentials(o) /\ k1s.client /\ k1s.health # {}

\* The nodes that k1s lists for which P holds.
NodesWith(P(_)) ==
    IF "nodes" \in DOMAIN k1s.nodes
    THEN Cardinality({i \in DOMAIN k1s.nodes.nodes : P(k1s.nodes.nodes[i])}) ELSE 0

Stale(n) == n.stale \in {Bool(TRUE), Str("true")}

\* The status is the state of the world, field by field.
Truthful(o) ==
    LET st == o.status
    IN  /\ st.observedGeneration = o.gen
        /\ st.controllerAvailable = Reachable(o)
        /\ st.proxyReady = (k1s.proxies = "ready")
        /\ st.stackDomain = IF o.spec.bootstrap THEN k1s.domain ELSE NoDomain
        /\ Reachable(o) =>
              /\ st.total = IF "nodes" \in DOMAIN k1s.nodes THEN NodesWith(LAMBDA n : TRUE)
                            ELSE i32(k1s.nodes.count)
              /\ st.stale = NodesWith(Stale)
              /\ st.ready = NodesWith(LAMBDA n : n.status = Str("Ready") /\ ~Stale(n))
        /\ ~Reachable(o) => {st.ready, st.stale, st.total} = {0}
        /\ st.conds["Ready"] =
              [status |-> conditionStatus(Reachable(o) /\ k1s.proxies = "ready"), gen |-> o.gen]
        /\ st.conds["CredentialsValid"].status = conditionStatus(loadCredentials(o))
        /\ (st.conds["ApishimAvailable"] # NoCondition) = o.spec.apishim

\* Once users and faults are quiet, the status is true and stays so: polling finds
\* what nobody watches, and fields that an earlier patch left behind, computed
\* against a stale copy, are put right by the next ones.
StatusSettles == <>[](server.exists => Truthful(server))
=============================================================================
