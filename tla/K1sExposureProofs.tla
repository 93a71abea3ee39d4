------------------------- MODULE K1sExposureProofs -------------------------
(***************************************************************************)
(* Proofs about K1sExposure, for every value of its constants.             *)
(***************************************************************************)
EXTENDS K1sExposure, VersionLemmas, FiniteSetTheorems, TLAPS

Obj == K1sExposureObject

-----------------------------------------------------------------------------
(* The objects and statuses the steps build.                               *)

\* The fields of an object.
LEMMA ObjType ==
    ASSUME NEW o \in Obj
    PROVE  /\ o.exists \in BOOLEAN
           /\ o.deleting \in BOOLEAN
           /\ o.gen \in Nat
           /\ o.uid \in 0 .. MaxLives
           /\ o.status \in K1sExposureStatus
           /\ o.status.conds \in Conditions
           /\ o.exists => o.spec \in Specs /\ o.uid \in 1 .. MaxLives
    BY ExposureBoundAssumption
    DEF Obj, K1sExposureObject, K1sExposureRecord, K1sExposureStatus

\* The fields of a spec.
LEMMA SpecType ==
    ASSUME NEW s \in Specs
    PROVE  /\ s.service \in Names
           /\ s.port \in Nat
           /\ s.ingress \in BOOLEAN
           /\ s.ingressName \in Names
           /\ s.probe \in BOOLEAN
    BY ExposureAssumption DEF K1sExposureSpec

LEMMA NoConditions ==
    [t \in ExposureConditions |-> NoCondition] \in Conditions
    BY DEF Conditions, NoCondition, ConditionStatus

LEMMA NoObjectType ==
    /\ NoObject \in Obj
    /\ ~NoObject.exists
    /\ NoObject.uid = 0
<1>1. NoStatus \in K1sExposureStatus
    BY NoConditions DEF NoStatus, K1sExposureStatus
<1> QED
    BY <1>1, ExposureBoundAssumption DEF NoObject, Obj, K1sExposureObject, K1sExposureRecord

LEMMA NewObjectType ==
    ASSUME NEW s \in Specs, NEW u \in 1 .. MaxLives
    PROVE  /\ NewObject(s, u) \in Obj
           /\ NewObject(s, u).exists
           /\ NewObject(s, u).uid = u
           /\ NewObject(s, u).gen = 1
           /\ NewObject(s, u).spec = s
           /\ NewObject(s, u).status = NoStatus
<1>1. NoObject \in K1sExposureRecord /\ NoObject.status = NoStatus
    BY NoObjectType DEF Obj, K1sExposureObject, NoObject
<1> DEFINE o == [NoObject EXCEPT !.exists = TRUE, !.uid = u, !.gen = 1, !.spec = s]
<1>2. u \in 0 .. MaxLives /\ u # 0
    BY ExposureBoundAssumption
<1>3. /\ o \in K1sExposureRecord
      /\ o.exists
      /\ o.uid = u
      /\ o.gen = 1
      /\ o.spec = s
      /\ o.status = NoStatus
    BY <1>1, <1>2 DEF K1sExposureRecord, o
<1> HIDE DEF o
<1>4. o \in Obj
    BY <1>2, <1>3 DEF Obj, K1sExposureObject
<1> QED BY <1>3, <1>4, Zenon DEF NewObject, o

\* Giving an object another status changes nothing else about it.
LEMMA WithStatus ==
    ASSUME NEW o \in Obj, NEW s \in K1sExposureStatus
    PROVE  /\ [o EXCEPT !.status = s] \in Obj
           /\ [o EXCEPT !.status = s].exists = o.exists
           /\ [o EXCEPT !.status = s].uid = o.uid
           /\ [o EXCEPT !.status = s].gen = o.gen
           /\ [o EXCEPT !.status = s].deleting = o.deleting
           /\ [o EXCEPT !.status = s].fin = o.fin
           /\ [o EXCEPT !.status = s].spec = o.spec
           /\ [o EXCEPT !.status = s].status = s
    BY DEF Obj, K1sExposureObject, K1sExposureRecord

\* Nor does giving it other conditions.
LEMMA WithConditions ==
    ASSUME NEW o \in Obj, NEW c \in Conditions
    PROVE  LET w == [o EXCEPT !.status.conds = c]
           IN  /\ w \in Obj
               /\ w.exists = o.exists
               /\ w.uid = o.uid
               /\ w.gen = o.gen
               /\ w.spec = o.spec
               /\ w.status.conds = c
               /\ w.status.serviceName = o.status.serviceName
<1> DEFINE s == [o.status EXCEPT !.conds = c]
<1>1. s \in K1sExposureStatus /\ s.conds = c /\ s.serviceName = o.status.serviceName
    BY ObjType DEF K1sExposureStatus
<1>2. [o EXCEPT !.status.conds = c] = [o EXCEPT !.status = s]
    BY DEF s
<1> HIDE DEF s
<1> DEFINE w == [o EXCEPT !.status = s]
<1>3. /\ w \in Obj
      /\ w.exists = o.exists
      /\ w.uid = o.uid
      /\ w.gen = o.gen
      /\ w.spec = o.spec
      /\ w.status = s
    BY <1>1, WithStatus
<1> HIDE DEF w
<1>4. /\ w.status.conds = c
      /\ w.status.serviceName = o.status.serviceName
    BY <1>1, <1>3
<1> QED BY <1>2, <1>3, <1>4, Zenon DEF w

LEMMA SetConditionsType ==
    ASSUME NEW conds \in Conditions, NEW values, NEW g \in Nat,
           \A t \in DOMAIN values : values[t] \in ConditionStatus
    PROVE  /\ setConditions(conds, values, g) \in Conditions
           /\ \A t \in ExposureConditions :
                 setConditions(conds, values, g)[t] =
                     IF t \in DOMAIN values THEN [status |-> values[t], gen |-> g]
                     ELSE conds[t]
    BY DEF setConditions, Conditions

LEMMA SetConditionType ==
    ASSUME NEW conds \in Conditions, NEW type \in ExposureConditions,
           NEW s \in ConditionStatus, NEW g \in Nat
    PROVE  /\ setCondition(conds, type, s, g) \in Conditions
           /\ \A t \in ExposureConditions :
                 setCondition(conds, type, s, g)[t] =
                     IF t = type THEN [status |-> s, gen |-> g] ELSE conds[t]
    BY DEF setCondition, Conditions

\* A status patch mixes the fields of three statuses; the conditions go as one list.
LEMMA PatchStatusType ==
    ASSUME NEW s \in K1sExposureStatus, NEW c \in K1sExposureStatus,
           NEW want \in K1sExposureStatus, NEW resent \in BOOLEAN
    PROVE  /\ patchStatus(s, c, want, resent) \in K1sExposureStatus
           /\ patchStatus(s, c, want, resent).conds \in {s.conds, want.conds}
<1> DEFINE p == patchStatus(s, c, want, resent)
           Fields == {"observedGeneration", "appReady", "serviceName", "ingressName", "count",
                      "conds"}
<1>1. DOMAIN s = Fields
    BY DEF K1sExposureStatus
<1>2. p = [f \in Fields |-> p[f]]
    BY <1>1 DEF patchStatus
<1>3. \A f \in Fields : p[f] \in {s[f], want[f]}
    BY <1>1 DEF patchStatus, mergeField
<1> HIDE DEF p
<1>4. /\ p.observedGeneration \in Nat
      /\ p.appReady \in BOOLEAN
      /\ {p.serviceName, p.ingressName} \subseteq Names \cup {NoName}
      /\ p.count \in Nat
      /\ p.conds \in Conditions
    BY <1>3 DEF K1sExposureStatus
<1>5. p \in K1sExposureStatus
    BY <1>2, <1>4 DEF K1sExposureStatus
<1> QED BY <1>3, <1>5 DEF p

\* The cluster is missing: the exposure is not ready.
LEMMA ClusterMissingType ==
    ASSUME NEW o \in Obj
    PROVE  /\ clusterMissing(o) \in K1sExposureStatus
           /\ clusterMissing(o).serviceName = o.status.serviceName
           /\ clusterMissing(o).conds["Ready"] = [status |-> "False", gen |-> o.gen]
<1> DEFINE values == [ClusterReady |-> "False", Ready |-> "False"]
<1>1. o.status \in K1sExposureStatus /\ o.status.conds \in Conditions /\ o.gen \in Nat
    BY ObjType
<1>2. \A t \in DOMAIN values : values[t] \in ConditionStatus
    BY DEF ConditionStatus
<1>3. /\ "Ready" \in DOMAIN values
      /\ values["Ready"] = "False"
      /\ "Ready" \in ExposureConditions
    BY DEF ExposureConditions
<1> HIDE DEF values
<1> DEFINE c == setConditions(o.status.conds, values, o.gen)
<1>4. /\ c \in Conditions
      /\ \A t \in ExposureConditions :
            c[t] = IF t \in DOMAIN values THEN [status |-> values[t], gen |-> o.gen]
                   ELSE o.status.conds[t]
    BY <1>1, <1>2, SetConditionsType
<1>5. c["Ready"] = [status |-> "False", gen |-> o.gen]
    BY <1>4, <1>3, Zenon
<1>6. clusterMissing(o) = [o.status EXCEPT !.observedGeneration = o.gen, !.conds = c]
    BY DEF clusterMissing, values
<1> HIDE DEF c
<1>7. /\ clusterMissing(o) \in K1sExposureStatus
      /\ clusterMissing(o).conds = c
      /\ clusterMissing(o).serviceName = o.status.serviceName
    BY <1>1, <1>4, <1>6 DEF K1sExposureStatus
<1> QED BY <1>5, <1>7

\* The client is invalid: Ready and what it stands on stay as they were.
LEMMA ClientInvalidType ==
    ASSUME NEW o \in Obj
    PROVE  /\ clientInvalid(o) \in K1sExposureStatus
           /\ clientInvalid(o).serviceName = o.status.serviceName
           /\ \A t \in Grounds \cup {"Ready"} : clientInvalid(o).conds[t] = o.status.conds[t]
<1> DEFINE values == [ClusterReady |-> "False"]
           c == setConditions(o.status.conds, values, o.gen)
<1>1. o.status \in K1sExposureStatus /\ o.status.conds \in Conditions /\ o.gen \in Nat
    BY ObjType
<1>2. c = [o.status.conds EXCEPT !["ClusterReady"] = [status |-> "False", gen |-> o.gen]]
    BY <1>1 DEF setConditions, Conditions, ExposureConditions
<1>3. /\ c \in Conditions
      /\ \A t \in Grounds \cup {"Ready"} : c[t] = o.status.conds[t]
    BY <1>1, <1>2 DEF Conditions, ConditionStatus, ExposureConditions, Grounds
<1>4. clientInvalid(o) = [o.status EXCEPT !.observedGeneration = o.gen, !.conds = c]
    BY DEF clientInvalid
<1> HIDE DEF c
<1>5. /\ clientInvalid(o) \in K1sExposureStatus
      /\ clientInvalid(o).conds = c
      /\ clientInvalid(o).serviceName = o.status.serviceName
    BY <1>1, <1>3, <1>4 DEF K1sExposureStatus
<1> QED BY <1>3, <1>5

\* The status once the generated objects are in place.
LEMMA AppliedStatusType ==
    ASSUME NEW o \in Obj, o.exists, traffic \subseteq Proxies
    PROVE  /\ resourcesApplied(o) \in K1sExposureStatus
           /\ resourcesApplied(o).serviceName = o.spec.service
           /\ resourcesApplied(o).conds["ResourcesApplied"] = [status |-> "True", gen |-> o.gen]
           /\ \A t \in {"AppFound", "AppReady", "ProxyEndpointsReady", "Ready"} :
                 resourcesApplied(o).conds[t] = o.status.conds[t]
<1> DEFINE values == [ResourcesApplied |-> "True", ClusterReady |-> "True"]
           Kept == {"AppFound", "AppReady", "ProxyEndpointsReady", "Ready"}
<1>1. /\ o.status \in K1sExposureStatus /\ o.status.conds \in Conditions /\ o.gen \in Nat
      /\ o.spec.service \in Names /\ o.spec.ingressName \in Names
    BY ObjType, SpecType
<1>2. Cardinality(traffic) \in Nat
    BY ExposureAssumption, FS_Subset, FS_CardinalityType
<1>3. /\ \A t \in DOMAIN values : values[t] \in ConditionStatus
      /\ "ResourcesApplied" \in DOMAIN values
      /\ values["ResourcesApplied"] = "True"
      /\ Kept \cap DOMAIN values = {}
      /\ Kept \cup {"ResourcesApplied"} \subseteq ExposureConditions
    BY DEF ConditionStatus, ExposureConditions
<1> HIDE DEF values
<1> DEFINE c == setConditions(o.status.conds, values, o.gen)
           n == Cardinality(traffic)
           name == IF o.spec.ingress THEN o.spec.ingressName ELSE NoName
           ready == holds(o, "AppReady")
<1>4. /\ c \in Conditions
      /\ \A t \in ExposureConditions :
            c[t] = IF t \in DOMAIN values THEN [status |-> values[t], gen |-> o.gen]
                   ELSE o.status.conds[t]
    BY <1>1, <1>3, SetConditionsType, Zenon
<1>5. /\ c \in Conditions
      /\ c["ResourcesApplied"] = [status |-> "True", gen |-> o.gen]
      /\ \A t \in Kept : c[t] = o.status.conds[t]
    BY <1>3, <1>4, Zenon
<1>6. resourcesApplied(o) =
          [o.status EXCEPT !.observedGeneration = o.gen, !.appReady = ready,
                           !.serviceName = o.spec.service, !.ingressName = name,
                           !.count = n, !.conds = c]
    BY DEF resourcesApplied, values
<1>7. n \in Nat /\ name \in Names \cup {NoName} /\ ready \in BOOLEAN
    BY <1>1, <1>2 DEF holds
<1> HIDE DEF c, n, name, ready, Kept
<1>8. /\ resourcesApplied(o) \in K1sExposureStatus
      /\ resourcesApplied(o).serviceName = o.spec.service
      /\ resourcesApplied(o).conds = c
    BY <1>1, <1>5, <1>6, <1>7 DEF K1sExposureStatus
<1> QED BY <1>5, <1>8 DEF Kept

\* The last two conditions.
LEMMA ReadyStatusType ==
    ASSUME NEW o \in Obj, NEW st \in K1sExposureStatus, NEW flows \in BOOLEAN
    PROVE  /\ readyStatus(o, st, flows) \in K1sExposureStatus
           /\ readyStatus(o, st, flows).serviceName = st.serviceName
           /\ readyStatus(o, st, flows).conds["Ready"].gen = o.gen
           /\ readyStatus(o, st, flows).conds["Ready"].status = "True"
              => \A t \in {"AppFound", "AppReady", "ProxyEndpointsReady"} : holds(o, t)
           /\ \A t \in Grounds : readyStatus(o, st, flows).conds[t] = st.conds[t]
<1> DEFINE all == /\ holds(o, "AppFound") /\ holds(o, "AppReady")
                  /\ holds(o, "ProxyEndpointsReady") /\ flows
           values == [TrafficReady |-> IF o.spec.probe THEN conditionStatus(flows) ELSE "Unknown",
                      Ready |-> conditionStatus(all)]
<1>1. /\ st.conds \in Conditions /\ o.gen \in Nat /\ all \in BOOLEAN
    BY ObjType DEF K1sExposureStatus, holds
<1>2. all => \A t \in {"AppFound", "AppReady", "ProxyEndpointsReady"} : holds(o, t)
    OBVIOUS
<1>3. readyStatus(o, st, flows) = [st EXCEPT !.conds = setConditions(@, values, o.gen)]
    BY DEF readyStatus
<1> HIDE DEF all
<1>4. /\ \A t \in DOMAIN values : values[t] \in ConditionStatus
      /\ "Ready" \in DOMAIN values
      /\ values["Ready"] = conditionStatus(all)
      /\ Grounds \cap DOMAIN values = {}
      /\ Grounds \cup {"Ready"} \subseteq ExposureConditions
    BY <1>1 DEF ConditionStatus, ExposureConditions, conditionStatus, Grounds
<1> HIDE DEF values
<1> DEFINE c == setConditions(st.conds, values, o.gen)
<1>5. /\ c \in Conditions
      /\ \A t \in ExposureConditions :
            c[t] = IF t \in DOMAIN values THEN [status |-> values[t], gen |-> o.gen]
                   ELSE st.conds[t]
    BY <1>1, <1>4, SetConditionsType, Zenon
<1>6. /\ c \in Conditions
      /\ c["Ready"] = [status |-> conditionStatus(all), gen |-> o.gen]
      /\ \A t \in Grounds : c[t] = st.conds[t]
    BY <1>4, <1>5, Zenon
<1> HIDE DEF c
<1>7. /\ readyStatus(o, st, flows) \in K1sExposureStatus
      /\ readyStatus(o, st, flows).serviceName = st.serviceName
      /\ readyStatus(o, st, flows).conds = c
    BY <1>3, <1>6 DEF K1sExposureStatus, c
<1>8. c["Ready"].status = "True" => all
    BY <1>6 DEF conditionStatus
<1> QED BY <1>2, <1>6, <1>7, <1>8

-----------------------------------------------------------------------------
(* The generated objects.                                                  *)

LEMMA KeyTypes ==
    ASSUME NEW s \in Specs
    PROVE  /\ {service(s), endpointSlice(s), ingress(s), mirror} \subseteq Keys
           /\ service(s)[1] = "Service"
           /\ endpointSlice(s)[1] = "EndpointSlice"
           /\ ingress(s)[1] = "Ingress"
           /\ mirror[1] = "K1sAppMirror"
    BY DEF Keys, keysOf, service, endpointSlice, ingress, mirror

\* The names of owners.
LEMMA OwnerTypes ==
    /\ NoOwner # Nobody /\ NoOwner # Other /\ Nobody # Other
    /\ NoOwner \notin Nat /\ Nobody \notin Nat /\ Other \notin Nat
    /\ {NoOwner, Nobody, Other} \subseteq Owners
    /\ \A u \in 1 .. MaxLives : u \in Owners /\ u \in Nat
<1>1. ASSUME NEW a, NEW b, NEW c, a = b PROVE Cardinality({a, b, c}) # 3
  <2>1. {a, b, c} = {a, c} /\ IsFiniteSet({c})
      BY <1>1, FS_Singleton
  <2>2. Cardinality({c}) = 1 /\ IsFiniteSet({c})
      BY FS_Singleton
  <2>3. Cardinality({c} \cup {a}) \in {1, 2}
      BY <2>2, FS_AddElement
  <2>4. {a, b, c} = {c} \cup {a}
      BY <1>1
  <2> QED BY <2>3, <2>4
<1>2. /\ Cardinality({NoOwner, Nobody, Other}) = 3
      /\ {NoOwner, Nobody, Other} = {NoOwner, Other, Nobody}
      /\ {NoOwner, Nobody, Other} = {Nobody, Other, NoOwner}
      /\ {NoOwner, Nobody, Other} \cap Nat = {}
    BY ExposureAssumption
<1>3. NoOwner # Nobody /\ NoOwner # Other /\ Nobody # Other
    BY <1>1, <1>2
<1> QED BY <1>2, <1>3, ExposureBoundAssumption DEF Owners

LEMMA NoChildType ==
    NoChild \in Children /\ \A owner \in {Nobody, Other} : Foreign(owner) \in Children
    BY OwnerTypes DEF NoChild, Foreign, Children

\* What the mutate functions make of a cached copy.
LEMMA BuiltTypes ==
    ASSUME NEW c \in Children, NEW o \in Obj, o.exists, NEW endpoints \in SUBSET Proxies
    PROVE  /\ {buildService(c, o), buildEndpointSlice(c, o, endpoints), buildIngress(c, o),
               buildMirror(c, o)} \subseteq Children
           /\ buildService(c, o).owner = o.uid
           /\ buildService(c, o).port = o.spec.port
           /\ buildEndpointSlice(c, o, endpoints).owner = o.uid
           /\ buildIngress(c, o).owner = o.uid
           /\ buildMirror(c, o).owner = o.uid
<1>1. o.uid \in Owners /\ o.spec.port \in Nat /\ o.spec.service \in Names
    BY ObjType, SpecType, OwnerTypes
<1>2. proxyTargetPort(o.spec) \in Nat
    BY <1>1, ExposureAssumption DEF proxyTargetPort
<1> QED
    BY <1>1, <1>2
    DEF buildService, buildEndpointSlice, buildIngress, buildMirror, Children

-----------------------------------------------------------------------------
(* The versions, and what each kind of write stores.                       *)

\* The objects of the first n creations.
Known(n) == {o \in Obj : o.uid <= n}

VersionsOK ==
    /\ versions \in Seq(Known(lives))
    /\ Len(versions) \in 1 .. MaxLag + 1

LEMMA VersionsType ==
    ASSUME TypeOK
    PROVE  /\ VersionsOK
           /\ versions \in Seq(Obj)
           /\ versions # <<>>
           /\ Len(versions) \in Nat \ {0}
           /\ cached = versions[1]
           /\ cached \in Known(lives)
           /\ server \in Known(lives)
           /\ \A i \in 1 .. Len(versions) : versions[i] \in Known(lives)
<1>1. /\ versions \in Seq(Obj)
      /\ Len(versions) \in Nat \ {0}
      /\ \A i \in 1 .. Len(versions) : versions[i] \in Known(lives)
    BY ExposureBoundAssumption DEF TypeOK, Known, Obj
<1>2. versions \in Seq(Known(lives)) /\ versions # <<>>
    BY <1>1
<1> QED BY <1>1, <1>2, Ends DEF TypeOK, VersionsOK, cached, server

\* A write makes o the object the API server holds.
LEMMA StoreType ==
    ASSUME TypeOK, lives' \in Nat, lives <= lives', NEW o \in Known(lives'),
           Store(o) \/ StoreIfChanged(o)
    PROVE  VersionsOK' /\ server' = o
<1>1. /\ versions \in Seq(Known(lives')) /\ versions # <<>>
      /\ Len(versions) \in 1 .. MaxLag + 1
  <2>1. Known(lives) \subseteq Known(lives')
      BY ExposureBoundAssumption, ObjType DEF Known, TypeOK
  <2> QED BY <2>1, VersionsType DEF VersionsOK
<1>2. CASE UNCHANGED versions /\ o = server
    BY <1>1, <1>2 DEF VersionsOK, server
<1>3. CASE Store(o)
  <2>1. versions' = Append(versions, o) /\ Len(versions) <= MaxLag
      BY <1>3 DEF Store
  <2>2. /\ versions' \in Seq(Known(lives'))
        /\ Len(versions') = Len(versions) + 1
        /\ versions'[Len(versions')] = o
      BY <1>1, <2>1, Stored
  <2> QED BY <1>1, <2>1, <2>2, ExposureBoundAssumption DEF VersionsOK, server
<1> QED BY <1>2, <1>3 DEF StoreIfChanged

LEMMA SameVersionsType ==
    ASSUME TypeOK, UNCHANGED <<versions, lives>>
    PROVE  VersionsOK' /\ server' = server
    BY VersionsType DEF VersionsOK, server

LEMMA DeliverType ==
    ASSUME TypeOK, Deliver
    PROVE  VersionsOK' /\ server' = server
<1>1. PICK k \in 2 .. Len(versions) : versions' = SubSeq(versions, k, Len(versions))
    BY DEF Deliver
<1>2. /\ versions \in Seq(Known(lives)) /\ versions # <<>>
      /\ Len(versions) \in 1 .. MaxLag + 1 /\ lives' = lives
    BY VersionsType DEF VersionsOK, Deliver
<1>3. /\ versions' \in Seq(Known(lives))
      /\ versions' # <<>>
      /\ Len(versions') < Len(versions)
      /\ versions'[Len(versions')] = versions[Len(versions)]
    BY <1>1, <1>2, Delivered
<1>4. Len(versions') \in 1 .. MaxLag + 1
    BY <1>2, <1>3, Ends, ExposureBoundAssumption
<1> QED BY <1>2, <1>3, <1>4 DEF VersionsOK, server

LEMMA RestartType ==
    ASSUME TypeOK, Crash
    PROVE  VersionsOK' /\ server' = server /\ Len(versions') = 1 /\ versions'[1] = server
<1>1. /\ versions \in Seq(Known(lives)) /\ versions # <<>>
      /\ versions' = <<versions[Len(versions)]>> /\ lives' = lives
    BY VersionsType DEF VersionsOK, Crash, server
<1>2. /\ versions' \in Seq(Known(lives))
      /\ Len(versions') = 1
      /\ versions'[Len(versions')] = server
    BY <1>1, Restarted DEF server
<1> QED BY <1>1, <1>2, ExposureBoundAssumption DEF VersionsOK, server

\* The status patch stores the server's object with another status.
LEMMA StatusStored ==
    ASSUME TypeOK, StoreStatus
    PROVE  \E o \in Obj :
               /\ Store(o) \/ StoreIfChanged(o)
               /\ o.exists = server.exists
               /\ o.uid = server.uid
               /\ o.gen = server.gen
               /\ o.spec = server.spec
               /\ o.status.conds \in {server.status.conds, own.status.conds}
<1>1. PICK fresh \in BOOLEAN, resent \in BOOLEAN :
          LET merged == patchStatus(server.status, cached.status, own.status, resent)
              o == [server EXCEPT !.status = merged]
          IN  IF fresh THEN Store(o) ELSE StoreIfChanged(o)
    BY DEF StoreStatus
<1> DEFINE merged == patchStatus(server.status, cached.status, own.status, resent)
           o == [server EXCEPT !.status = merged]
<1>2. /\ server \in Obj
      /\ server.status \in K1sExposureStatus
      /\ cached.status \in K1sExposureStatus
      /\ own.status \in K1sExposureStatus
    BY VersionsType, ObjType DEF TypeOK, Obj, Known
<1>3. /\ merged \in K1sExposureStatus
      /\ merged.conds \in {server.status.conds, own.status.conds}
  <2>1. merged \in K1sExposureStatus
      BY <1>2, PatchStatusType
  <2>2. merged.conds \in {server.status.conds, own.status.conds}
      BY <1>2, PatchStatusType
  <2> QED BY <2>1, <2>2
<1>4. Store(o) \/ StoreIfChanged(o)
    BY <1>1
<1> HIDE DEF merged
<1>5. /\ o \in Obj
      /\ o.exists = server.exists
      /\ o.uid = server.uid
      /\ o.gen = server.gen
      /\ o.spec = server.spec
      /\ o.status = merged
    BY <1>2, <1>3, WithStatus
<1> QED BY <1>3, <1>4, <1>5

\* What users and other controllers write: a new object, none, or the old one with
\* the status it had.
Born(o) == ~server.exists /\ \E s \in Specs : o = NewObject(s, lives + 1)

Gone(o) == server.exists /\ o = NoObject

Touched(o) ==
    /\ server.exists
    /\ o.exists
    /\ o.uid = server.uid
    /\ o.status = server.status
    /\ \/ o.gen = server.gen /\ o.spec = server.spec
       \/ o.gen = server.gen + 1 /\ o.spec = server.spec
       \/ o.gen = server.gen + 1 /\ <<server.spec, o.spec>> \in Edits

EnvironmentWrite(o) ==
    /\ Store(o)
    /\ \/ Born(o) /\ lives < MaxLives /\ lives' = lives + 1
       \/ (Gone(o) \/ Touched(o)) /\ UNCHANGED lives

LEMMA DeleteStored ==
    ASSUME NEW o \in Obj, o.exists, NEW g \in Nat
    PROVE  LET d == [o EXCEPT !.deleting = TRUE, !.gen = g]
           IN  /\ d \in Obj
               /\ d.exists
               /\ d.uid = o.uid
               /\ d.gen = g
               /\ d.spec = o.spec
               /\ d.status = o.status
    BY DEF Obj, K1sExposureObject, K1sExposureRecord

LEMMA ForeignStored ==
    ASSUME NEW o \in Obj, o.exists, NEW f \in SUBSET {foreignFinalizer}
    PROVE  LET a == [o EXCEPT !.fin = f]
           IN  /\ a \in Obj
               /\ a.exists
               /\ a.uid = o.uid
               /\ a.gen = o.gen
               /\ a.spec = o.spec
               /\ a.status = o.status
    BY DEF Obj, K1sExposureObject, K1sExposureRecord

LEMMA EnvironmentWrites ==
    ASSUME TypeOK, Environment
    PROVE  \/ UNCHANGED <<versions, lives>>
           \/ \E o \in Obj : EnvironmentWrite(o)
<1>0. server \in Obj /\ server.gen \in Nat /\ server.gen + 1 \in Nat /\ lives \in 0 .. MaxLives
    BY VersionsType, ObjType DEF Known, TypeOK
<1>1. ASSUME NEW s \in Specs, Create(s) PROVE \E o \in Obj : EnvironmentWrite(o)
  <2>1. lives + 1 \in 1 .. MaxLives
      BY <1>0, <1>1, ExposureBoundAssumption DEF Create, CreateObject
  <2>2. NewObject(s, lives + 1) \in Obj /\ EnvironmentWrite(NewObject(s, lives + 1))
      BY <1>1, <2>1, NewObjectType DEF Create, CreateObject, Born, EnvironmentWrite
  <2> QED BY <2>2
<1>2. ASSUME NEW s \in Specs, Edit(s) PROVE \E o \in Obj : EnvironmentWrite(o)
  <2> DEFINE g == server.gen + 1
             e == [server EXCEPT !.spec = s, !.gen = g]
  <2>1. /\ server.exists
        /\ Store(e)
        /\ <<server.spec, s>> \in Edits
        /\ UNCHANGED lives
      BY <1>2 DEF Edit, EditObject
  <2>2. g \in Nat /\ g = server.gen + 1
      BY <1>0
  <2> HIDE DEF g
  <2>3. /\ e \in Obj /\ e.exists /\ e.uid = server.uid /\ e.gen = g /\ e.spec = s
        /\ e.status = server.status
    <3>1. server \in Obj /\ server.exists /\ s \in Specs /\ g \in Nat
        BY <1>0, <2>1, <2>2
    <3> QED BY <3>1 DEF Obj, K1sExposureObject, K1sExposureRecord
  <2> HIDE DEF e
  <2> QED BY <2>1, <2>2, <2>3 DEF Touched, EnvironmentWrite
<1>3. CASE Delete
  <2> DEFINE g == server.gen + 1
             d == [server EXCEPT !.deleting = TRUE, !.gen = g]
  <2>1. server.exists /\ UNCHANGED lives /\ (Store(NoObject) \/ Store(d))
      BY <1>3 DEF Delete, deleteObject
  <2>2. g \in Nat /\ g = server.gen + 1
      BY <1>0
  <2> HIDE DEF g
  <2>3. /\ d \in Obj /\ d.exists /\ d.uid = server.uid /\ d.gen = g /\ d.spec = server.spec
        /\ d.status = server.status
      BY <1>0, <2>1, <2>2, DeleteStored
  <2> HIDE DEF d
  <2> QED BY <2>1, <2>2, <2>3, NoObjectType DEF Touched, Gone, EnvironmentWrite
<1>4. CASE AddForeign \/ RemoveForeign
  <2>1. PICK f \in SUBSET {foreignFinalizer} :
            Store(NoObject) \/ Store([server EXCEPT !.fin = f])
    <3>1. server.fin \in SUBSET {foreignFinalizer}
        BY <1>0 DEF Obj, K1sExposureObject, K1sExposureRecord
    <3> QED BY <1>4, <3>1 DEF AddForeign, RemoveForeign, releaseForeign
  <2> DEFINE a == [server EXCEPT !.fin = f]
  <2>2. server.exists /\ UNCHANGED lives
      BY <1>4 DEF AddForeign, RemoveForeign
  <2>3. /\ a \in Obj /\ a.exists /\ a.uid = server.uid /\ a.gen = server.gen
        /\ a.spec = server.spec /\ a.status = server.status
      BY <1>0, <2>2, ForeignStored
  <2>4. Store(NoObject) \/ Store(a)
      BY <2>1
  <2> HIDE DEF a
  <2> QED BY <2>2, <2>3, <2>4, NoObjectType DEF Touched, Gone, EnvironmentWrite
<1>5. CASE LoseCredentials \/ RestoreCredentials \/ World
    BY <1>5 DEF LoseCredentials, RestoreCredentials, World
<1> QED BY <1>1, <1>2, <1>3, <1>4, <1>5 DEF Environment

\* Such a write keeps the types.
LEMMA EnvironmentWriteType ==
    ASSUME TypeOK, NEW o \in Obj, EnvironmentWrite(o)
    PROVE  VersionsOK' /\ server' = o /\ lives' \in 0 .. MaxLives
<1>1. lives \in 0 .. MaxLives /\ lives' \in 0 .. MaxLives /\ lives <= lives' /\ lives' \in Nat
    BY ExposureBoundAssumption DEF TypeOK, EnvironmentWrite
<1>2. o.uid <= lives'
  <2>1. CASE Born(o)
    <3>1. lives + 1 \in 1 .. MaxLives /\ lives' = lives + 1
        BY <1>1, <2>1, ExposureBoundAssumption DEF EnvironmentWrite, Born, Gone, Touched
    <3> QED BY <2>1, <3>1, NewObjectType DEF Born
  <2>2. CASE Gone(o)
      BY <1>1, <2>2, NoObjectType DEF Gone
  <2>3. CASE Touched(o)
      BY <1>1, <2>3, VersionsType, ObjType DEF Touched, Known
  <2> QED BY <2>1, <2>2, <2>3 DEF EnvironmentWrite
<1> QED BY <1>1, <1>2, StoreType DEF EnvironmentWrite, Known

-----------------------------------------------------------------------------
(* What the steps do with the generated objects.                           *)

\* CreateOrUpdate sends want.
Writes(key, want) ==
    /\ controllerReference(seen[key])
    /\ seen[key] = children[key]
    /\ children' = [children EXCEPT ![key] = want]

LEMMA CreateOrUpdateWrites ==
    ASSUME NEW key, NEW want, CreateOrUpdate(key, want) \/ CreateOrUpdateFails(key, want)
    PROVE  UNCHANGED children \/ Writes(key, want)
    BY DEF CreateOrUpdate, CreateOrUpdateFails, Writes

\* Reconcile writes four objects, deletes one and patches the status of one.
LEMMA ReconcileChildren ==
    ASSUME Reconcile
    PROVE  \/ UNCHANGED children
           \/ pc = "service" /\ Writes(service(own.spec), wantedService)
           \/ pc = "endpointSlice" /\ Writes(endpointSlice(own.spec), wantedEndpointSlice)
           \/ pc = "ingress" /\ (Writes(ingress(own.spec), wantedIngress) \/ RemoveIngress)
           \/ pc = "mirror" /\ Writes(mirror, wantedMirror)
           \/ pc = "mirrorStatus" /\ WriteMirrorStatus
<1>1. CASE ReconcileService \/ ReconcileServiceFails
    BY <1>1, CreateOrUpdateWrites DEF ReconcileService, ReconcileServiceFails
<1>2. CASE ReconcileEndpointSlice \/ ReconcileEndpointSliceFails
    BY <1>2, CreateOrUpdateWrites DEF ReconcileEndpointSlice, ReconcileEndpointSliceFails
<1>3. CASE ReconcileIngress \/ ReconcileIngressFails
    BY <1>3, CreateOrUpdateWrites DEF ReconcileIngress, ReconcileIngressFails
<1>4. CASE ReconcileMirror \/ ReconcileMirrorFails
    BY <1>4, CreateOrUpdateWrites DEF ReconcileMirror, ReconcileMirrorFails
<1>5. CASE PatchMirrorStatus \/ PatchMirrorStatusFails
    BY <1>5 DEF PatchMirrorStatus, PatchMirrorStatusFails
<1>6. CASE UNCHANGED children
    BY <1>6
<1> QED
    BY <1>1, <1>2, <1>3, <1>4, <1>5, <1>6
    DEF Reconcile, Start, AppStatus, Discover, Probe

\* Reconcile works on an object with a spec, and so under known keys.
LEMMA OwnType ==
    ASSUME TypeOK, pc # "idle"
    PROVE  /\ own \in Obj
           /\ own.exists
           /\ own.spec \in Specs
           /\ {service(own.spec), endpointSlice(own.spec), ingress(own.spec), mirror}
                 \subseteq Keys
<1>1. own \in Obj /\ own.exists
    BY DEF TypeOK, Obj
<1>2. own.spec \in Specs
    BY <1>1, ObjType
<1> QED BY <1>1, <1>2, KeyTypes

\* What Reconcile wants is a generated object that belongs to the exposure.
LEMMA WantedTypes ==
    ASSUME TypeOK, pc # "idle"
    PROVE  /\ {wantedService, wantedEndpointSlice, wantedIngress, wantedMirror} \subseteq Children
           /\ wantedService.owner = own.uid
           /\ wantedService.port = own.spec.port
           /\ wantedEndpointSlice.owner = own.uid
           /\ wantedIngress.owner = own.uid
           /\ wantedMirror.owner = own.uid
<1>1. /\ seen[service(own.spec)] \in Children
      /\ seen[endpointSlice(own.spec)] \in Children
      /\ seen[ingress(own.spec)] \in Children
      /\ seen[mirror] \in Children
    BY OwnType DEF TypeOK
<1>2. traffic \in SUBSET Proxies
    BY DEF TypeOK
<1> QED
    BY <1>1, <1>2, OwnType, BuiltTypes
    DEF wantedService, wantedEndpointSlice, wantedIngress, wantedMirror

\* The patch of the mirror's status touches nothing but status.ready.
LEMMA MirrorStatusWritten ==
    ASSUME TypeOK, pc # "idle", WriteMirrorStatus
    PROVE  /\ children' \in [Keys -> Children]
           /\ \A key \in Keys :
                 \/ children'[key] = children[key]
                 \/ \E r \in BOOLEAN : children'[key] = [children[key] EXCEPT !.ready = r]
<1> DEFINE r == mergeField(children[mirror].ready, seen[mirror].ready,
                           holds(own, "AppFound") /\ holds(own, "AppReady"))
           c == [children[mirror] EXCEPT !.ready = r]
<1>1. /\ mirror \in Keys /\ children \in [Keys -> Children] /\ seen \in [Keys -> Children]
    BY OwnType DEF TypeOK
<1>2. children' = [children EXCEPT ![mirror] = c]
    BY <1>1 DEF WriteMirrorStatus
<1>3. r \in BOOLEAN
    BY <1>1 DEF mergeField, holds, Children
<1> HIDE DEF r
<1>4. c \in Children
    BY <1>1, <1>3 DEF Children
<1>5. \E b \in BOOLEAN : c = [children[mirror] EXCEPT !.ready = b]
    BY <1>3
<1> HIDE DEF c
<1> QED BY <1>1, <1>2, <1>4, <1>5

\* The generated objects keep their type.
LEMMA ReconcileChildrenType ==
    ASSUME TypeOK, Reconcile
    PROVE  children' \in [Keys -> Children]
<1>1. children \in [Keys -> Children]
    BY DEF TypeOK
<1>2. ASSUME pc # "idle", NEW key \in Keys, NEW want \in Children,
             children' = [children EXCEPT ![key] = want]
      PROVE  children' \in [Keys -> Children]
    BY <1>1, <1>2
<1> QED
    BY <1>1, <1>2, ReconcileChildren, OwnType, WantedTypes, MirrorStatusWritten, NoChildType
    DEF Writes, RemoveIngress

LEMMA OthersType ==
    ASSUME TypeOK, Others \/ GarbageCollect
    PROVE  children' \in [Keys -> Children] /\ faults' \in 0 .. MaxFaults
<1>1. children \in [Keys -> Children] /\ faults \in 0 .. MaxFaults
    BY DEF TypeOK
<1>2. CASE GarbageCollect
    BY <1>1, <1>2, NoChildType DEF GarbageCollect
<1>3. ASSUME NEW key \in Keys, DeleteChild(key)
      PROVE  children' \in [Keys -> Children] /\ faults' \in 0 .. MaxFaults
    BY <1>1, <1>3, NoChildType, ExposureBoundAssumption DEF DeleteChild, Disturb
<1>4. ASSUME NEW key \in Keys, NEW owner \in {Nobody, Other}, TakeName(key, owner)
      PROVE  children' \in [Keys -> Children] /\ faults' \in 0 .. MaxFaults
    BY <1>1, <1>4, NoChildType, ExposureBoundAssumption DEF TakeName, Disturb
<1> QED BY <1>2, <1>3, <1>4 DEF Others

-----------------------------------------------------------------------------
(* Type correctness.                                                       *)

LocalsOK ==
    /\ pc \in Steps
    /\ own \in Obj
    /\ pc # "idle" => own.exists
    /\ ret \in {"done", "poll", "error"}
    /\ traffic \subseteq Proxies

\* The variables no other part is about.
RestOK ==
    /\ k1s \in [app : AppStates, proxies : SUBSET Proxies, client : BOOLEAN]
    /\ credsOK \in BOOLEAN
    /\ queue \in BOOLEAN
    /\ timer \in BOOLEAN
    /\ faults \in 0 .. MaxFaults
    /\ lives \in 0 .. MaxLives

LEMMA TypeParts ==
    TypeOK <=> /\ VersionsOK
               /\ LocalsOK
               /\ RestOK
               /\ children \in [Keys -> Children]
               /\ seen \in [Keys -> Children]
<1>1. TypeOK => VersionsOK
    BY VersionsType
<1>2. VersionsOK => /\ versions \in Seq(K1sExposureObject)
                    /\ Len(versions) \in 1 .. MaxLag + 1
                    /\ \A i \in 1 .. Len(versions) : versions[i].uid <= lives
    BY DEF VersionsOK, Known, Obj
<1> QED BY <1>1, <1>2 DEF TypeOK, LocalsOK, RestOK, Obj

LEMMA TypePartsAfter ==
    ASSUME VersionsOK', LocalsOK', RestOK', children' \in [Keys -> Children],
           seen' \in [Keys -> Children]
    PROVE  TypeOK'
<1>1. /\ versions' \in Seq(K1sExposureObject)
      /\ Len(versions') \in 1 .. MaxLag + 1
      /\ \A i \in 1 .. Len(versions') : versions'[i].uid <= lives'
    BY DEF VersionsOK, Known, Obj
<1> QED BY <1>1 DEF TypeOK, LocalsOK, RestOK, Obj

-----------------------------------------------------------------------------
(* What Reconcile does with its copy.                                      *)

\* b is a with another status.
SameObject(a, b) ==
    a.exists = b.exists /\ a.uid = b.uid /\ a.gen = b.gen /\ a.spec = b.spec

\* Ready=True stands on conditions of the same generation.
Explained(o) ==
    o.status.conds["Ready"].status = "True"
    => \A t \in Grounds :
          o.status.conds[t] = [status |-> "True", gen |-> o.status.conds["Ready"].gen]

FromDiscover == {"discover", "service", "endpointSlice", "ingress", "mirror", "mirrorStatus",
                 "probe"}

\* What the copy holds of this reconcile before step p.
Progress(p, o) ==
    /\ p \in FromDiscover =>
          \A t \in {"AppFound", "AppReady"} : o.status.conds[t].gen = o.gen
    /\ p \in FromDiscover \ {"discover"} => o.status.conds["ProxyEndpointsReady"].gen = o.gen
    /\ p = "probe" =>
          /\ o.status.conds["ResourcesApplied"] = [status |-> "True", gen |-> o.gen]
          /\ o.status.serviceName = o.spec.service

\* The status is that of a reconcile that came to its end.
Finished(o) ==
    /\ o.status.conds["Ready"].gen = o.gen
    /\ o.status.serviceName = o.spec.service
    /\ Explained(o)

LEMMA ConditionType ==
    ASSUME NEW conds \in Conditions, NEW t \in ExposureConditions
    PROVE  /\ conds[t].status \in ConditionStatus
           /\ conds[t].gen \in Nat
           /\ conds[t] = [status |-> conds[t].status, gen |-> conds[t].gen]
    BY DEF Conditions

\* The status that Reconcile ends with.
LEMMA FinalStatus ==
    ASSUME NEW o \in Obj, NEW st \in K1sExposureStatus, NEW flows \in BOOLEAN,
           \A t \in {"AppFound", "AppReady", "ProxyEndpointsReady"} :
               o.status.conds[t].gen = o.gen /\ st.conds[t] = o.status.conds[t],
           st.conds["ResourcesApplied"] = [status |-> "True", gen |-> o.gen],
           st.serviceName = o.spec.service
    PROVE  Finished([o EXCEPT !.status = readyStatus(o, st, flows)])
<1> DEFINE r == readyStatus(o, st, flows)
           f == [o EXCEPT !.status = r]
<1>1. /\ r \in K1sExposureStatus
      /\ r.serviceName = st.serviceName
      /\ r.conds["Ready"].gen = o.gen
      /\ r.conds["Ready"].status = "True"
         => \A t \in {"AppFound", "AppReady", "ProxyEndpointsReady"} : holds(o, t)
      /\ \A t \in Grounds : r.conds[t] = st.conds[t]
    BY ReadyStatusType
<1> HIDE DEF r
<1>2. f.status = r /\ f.gen = o.gen /\ f.spec = o.spec
    BY <1>1, WithStatus
<1> HIDE DEF f
<1>3. ASSUME r.conds["Ready"].status = "True", NEW t \in Grounds
      PROVE  r.conds[t] = [status |-> "True", gen |-> o.gen]
  <2>1. CASE t = "ResourcesApplied"
      BY <1>1, <2>1
  <2>2. CASE t \in {"AppFound", "AppReady", "ProxyEndpointsReady"}
    <3>1. holds(o, t) /\ o.status.conds \in Conditions /\ t \in ExposureConditions
        BY <1>1, <1>3, <2>2, ObjType DEF ExposureConditions
    <3>2. o.status.conds[t] = [status |-> "True", gen |-> o.gen]
        BY <2>2, <3>1, ConditionType DEF holds
    <3> QED BY <1>1, <2>2, <3>2
  <2> QED BY <2>1, <2>2 DEF Grounds
<1>4. Finished(f)
    BY <1>1, <1>2, <1>3 DEF Finished, Explained
<1> QED BY <1>4 DEF f, r

\* Reconcile starts on the cached copy.
LEMMA StartOwn ==
    ASSUME TypeOK, Start
    PROVE  \/ pc' = "idle" /\ UNCHANGED <<own, ret>>
           \/ /\ pc' \in {"appStatus", "patchStatus"}
              /\ ret' \in {"done", "poll", "error"}
              /\ own' \in Obj
              /\ cached.exists
              /\ SameObject(own', cached)
              /\ own'.status.serviceName = cached.status.serviceName
              /\ \/ own'.status.conds["Ready"] = [status |-> "False", gen |-> own'.gen]
                 \/ \A t \in Grounds \cup {"Ready"} :
                       own'.status.conds[t] = cached.status.conds[t]
<1>1. cached \in Obj /\ pc = "idle"
    BY VersionsType DEF Known, Start
<1>2. CASE UNCHANGED <<pc, own, ret>>
    BY <1>1, <1>2
<1>3. CASE cached.exists /\ WriteStatus(cached, clusterMissing(cached), "done")
  <2> DEFINE s == clusterMissing(cached)
  <2>1. /\ s \in K1sExposureStatus
        /\ s.serviceName = cached.status.serviceName
        /\ s.conds["Ready"] = [status |-> "False", gen |-> cached.gen]
      BY <1>1, ClusterMissingType
  <2>2. own' = [cached EXCEPT !.status = s] /\ pc' = "patchStatus" /\ ret' = "done"
      BY <1>3 DEF WriteStatus
  <2> HIDE DEF s
  <2>3. own' \in Obj /\ SameObject(own', cached) /\ own'.status = s
      BY <1>1, <2>1, <2>2, WithStatus DEF SameObject
  <2> QED BY <1>3, <2>1, <2>2, <2>3 DEF SameObject
<1>4. CASE cached.exists /\ WriteStatus(cached, clientInvalid(cached), "done")
  <2> DEFINE s == clientInvalid(cached)
  <2>1. /\ s \in K1sExposureStatus
        /\ s.serviceName = cached.status.serviceName
        /\ \A t \in Grounds \cup {"Ready"} : s.conds[t] = cached.status.conds[t]
      BY <1>1, ClientInvalidType
  <2>2. own' = [cached EXCEPT !.status = s] /\ pc' = "patchStatus" /\ ret' = "done"
      BY <1>4 DEF WriteStatus
  <2> HIDE DEF s
  <2>3. own' \in Obj /\ SameObject(own', cached) /\ own'.status = s
      BY <1>1, <2>1, <2>2, WithStatus DEF SameObject
  <2> QED BY <1>4, <2>1, <2>2, <2>3
<1>5. CASE cached.exists /\ pc' = "appStatus" /\ own' = cached /\ UNCHANGED ret
    BY <1>1, <1>5 DEF SameObject, TypeOK
<1> QED BY <1>2, <1>3, <1>4, <1>5 DEF Start

\* Reading the app.
LEMMA AppStatusOwn ==
    ASSUME TypeOK, AppStatus
    PROVE  /\ pc' = "discover"
           /\ own' \in Obj
           /\ SameObject(own', own)
           /\ Progress(pc', own')
<1>1. own \in Obj /\ own.status.conds \in Conditions /\ own.gen \in Nat
    BY ObjType DEF TypeOK, Obj
<1>2. PICK found, ready \in BOOLEAN : ReadApp(found, ready)
  <2>1. \A reply : ParseAppStatus(reply).ready \in BOOLEAN
      BY DEF ParseAppStatus
  <2> QED BY <2>1 DEF AppStatus
<1> DEFINE values == [AppFound |-> conditionStatus(found), AppReady |-> conditionStatus(ready)]
           c == setConditions(own.status.conds, values, own.gen)
<1>3. pc' = "discover" /\ own' = [own EXCEPT !.status.conds = c]
    BY <1>2 DEF ReadApp
<1>4. /\ \A t \in DOMAIN values : values[t] \in ConditionStatus
      /\ {"AppFound", "AppReady"} = DOMAIN values
      /\ {"AppFound", "AppReady"} \subseteq ExposureConditions
    BY DEF ConditionStatus, conditionStatus, ExposureConditions
<1> HIDE DEF values
<1>5. c \in Conditions
    BY <1>1, <1>4, SetConditionsType
<1>6. \A t \in {"AppFound", "AppReady"} : c[t].gen = own.gen
    BY <1>1, <1>4 DEF setConditions, Conditions
<1> HIDE DEF c
<1>7. /\ own' \in Obj /\ SameObject(own', own) /\ own'.status.conds = c
    BY <1>1, <1>3, <1>5, WithConditions DEF SameObject
<1> QED BY <1>3, <1>6, <1>7 DEF Progress, SameObject, FromDiscover

\* Discovering the proxies.
LEMMA DiscoverOwn ==
    ASSUME TypeOK, Discover
    PROVE  /\ pc' = "service"
           /\ own' \in Obj
           /\ SameObject(own', own)
           /\ traffic' \subseteq Proxies
           /\ Progress(pc, own) => Progress(pc', own')
<1>1. /\ own \in Obj /\ own.status.conds \in Conditions /\ own.gen \in Nat
      /\ k1s.proxies \subseteq Proxies
    BY ObjType DEF TypeOK, Obj
<1>2. PICK ok \in BOOLEAN :
          /\ traffic' = trafficEndpoints(own, discoverProxyEndpoints(ok))
          /\ own' = [own EXCEPT !.status.conds = setConditions(@,
                 [ProxyEndpointsReady |->
                     conditionStatus(ok /\ discoverProxyEndpoints(ok) # {})], own.gen)]
    BY DEF Discover
<1> DEFINE s == conditionStatus(ok /\ discoverProxyEndpoints(ok) # {})
           c == setConditions(own.status.conds, [ProxyEndpointsReady |-> s], own.gen)
<1>3. traffic' \subseteq Proxies
    BY <1>1, <1>2, ExposureAssumption DEF trafficEndpoints, discoverProxyEndpoints
<1>4. s \in ConditionStatus
    BY DEF conditionStatus, ConditionStatus
<1> HIDE DEF s
<1>5. c = [own.status.conds EXCEPT !["ProxyEndpointsReady"] = [status |-> s, gen |-> own.gen]]
    BY <1>1 DEF setConditions, Conditions, ExposureConditions
<1>6. /\ c \in Conditions
      /\ c["ProxyEndpointsReady"].gen = own.gen
      /\ c["AppFound"] = own.status.conds["AppFound"]
      /\ c["AppReady"] = own.status.conds["AppReady"]
    BY <1>1, <1>4, <1>5 DEF Conditions, ExposureConditions
<1>7. pc = "discover" /\ pc' = "service" /\ own' = [own EXCEPT !.status.conds = c]
    BY <1>2 DEF Discover, s
<1> HIDE DEF c
<1>8. own' \in Obj /\ SameObject(own', own) /\ own'.status.conds = c
    BY <1>1, <1>6, <1>7, WithConditions DEF SameObject
<1> QED BY <1>3, <1>6, <1>7, <1>8 DEF Progress, SameObject, FromDiscover

\* The Ingress is done with, well or not.
LEMMA IngressOwn ==
    ASSUME TypeOK, ReconcileIngress \/ ReconcileIngressFails
    PROVE  /\ pc' = "mirror"
           /\ own' \in Obj
           /\ SameObject(own', own)
           /\ Progress(pc, own) => Progress(pc', own')
<1>1. own \in Obj /\ own.status.conds \in Conditions /\ own.gen \in Nat
    BY ObjType DEF TypeOK, Obj
<1>2. PICK ok \in BOOLEAN : pc = "ingress" /\ IngressDone(ok)
    BY DEF ReconcileIngress, ReconcileIngressFails
<1> DEFINE c == setCondition(own.status.conds, "IngressReady", conditionStatus(ok), own.gen)
<1>3. pc' = "mirror" /\ own' = [own EXCEPT !.status.conds = c]
    BY <1>2 DEF IngressDone
<1>4. /\ c \in Conditions
      /\ \A t \in {"AppFound", "AppReady", "ProxyEndpointsReady"} : c[t] = own.status.conds[t]
    BY <1>1 DEF setCondition, conditionStatus, ConditionStatus, Conditions, ExposureConditions
<1> HIDE DEF c
<1>5. own' \in Obj /\ SameObject(own', own) /\ own'.status.conds = c
    BY <1>1, <1>3, <1>4, WithConditions DEF SameObject
<1> QED BY <1>2, <1>3, <1>4, <1>5 DEF Progress, SameObject, FromDiscover

\* The mirror is done with: the probe, or the final status.
LEMMA MirrorStatusOwn ==
    ASSUME TypeOK, PatchMirrorStatus
    PROVE  /\ pc' \in {"probe", "patchStatus"}
           /\ ret' \in {"done", "poll", "error"}
           /\ own' \in Obj
           /\ SameObject(own', own)
           /\ Progress(pc, own) => /\ Progress(pc', own')
                                   /\ pc' = "patchStatus" => Finished(own')
<1> DEFINE st == resourcesApplied(own)
           Read == {"AppFound", "AppReady", "ProxyEndpointsReady"}
<1>1. own \in Obj /\ own.exists /\ pc = "mirrorStatus" /\ traffic \subseteq Proxies
    BY DEF TypeOK, Obj, PatchMirrorStatus
<1>2. /\ st \in K1sExposureStatus
      /\ st.serviceName = own.spec.service
      /\ st.conds["ResourcesApplied"] = [status |-> "True", gen |-> own.gen]
      /\ \A t \in Read : st.conds[t] = own.status.conds[t]
    BY <1>1, AppliedStatusType
<1>3. \/ pc' = "probe" /\ own' = [own EXCEPT !.status = st] /\ UNCHANGED ret
      \/ WriteStatus(own, readyStatus(own, st, TRUE), "poll")
    BY DEF PatchMirrorStatus
<1> HIDE DEF st
<1>4. Progress(pc, own) => \A t \in Read : own.status.conds[t].gen = own.gen
    BY <1>1 DEF Progress, FromDiscover
<1>5. CASE pc' = "probe" /\ own' = [own EXCEPT !.status = st] /\ UNCHANGED ret
  <2>1. own' \in Obj /\ SameObject(own', own) /\ own'.status = st
      BY <1>1, <1>2, <1>5, WithStatus DEF SameObject
  <2>2. Progress(pc, own) => Progress(pc', own')
      BY <1>2, <1>4, <1>5, <2>1 DEF Progress, SameObject
  <2>3. ret' \in {"done", "poll", "error"}
      BY <1>5 DEF TypeOK
  <2> QED BY <1>5, <2>1, <2>2, <2>3
<1>6. CASE WriteStatus(own, readyStatus(own, st, TRUE), "poll")
  <2> DEFINE r == readyStatus(own, st, TRUE)
  <2>1. r \in K1sExposureStatus
      BY <1>1, <1>2, ReadyStatusType
  <2>2. pc' = "patchStatus" /\ ret' = "poll" /\ own' = [own EXCEPT !.status = r]
      BY <1>6 DEF WriteStatus
  <2>3. own' \in Obj /\ SameObject(own', own)
      BY <1>1, <2>1, <2>2, WithStatus DEF SameObject
  <2>4. Progress(pc, own) => Finished(own')
      BY <1>1, <1>2, <1>4, <2>2, FinalStatus
  <2> QED BY <2>2, <2>3, <2>4 DEF Progress, FromDiscover
<1> QED BY <1>3, <1>5, <1>6

\* The probe is done.
LEMMA ProbeOwn ==
    ASSUME TypeOK, Probe
    PROVE  /\ pc' = "patchStatus"
           /\ ret' \in {"done", "poll", "error"}
           /\ own' \in Obj
           /\ SameObject(own', own)
           /\ Progress(pc, own) => Finished(own')
<1>1. own \in Obj /\ own.status \in K1sExposureStatus /\ pc = "probe"
    BY ObjType DEF TypeOK, Obj, Probe
<1>2. PICK flows \in BOOLEAN : WriteStatus(own, readyStatus(own, own.status, flows), "poll")
    BY DEF Probe, trafficFlows
<1> DEFINE r == readyStatus(own, own.status, flows)
<1>3. r \in K1sExposureStatus
    BY <1>1, ReadyStatusType
<1>4. pc' = "patchStatus" /\ ret' = "poll" /\ own' = [own EXCEPT !.status = r]
    BY <1>2 DEF WriteStatus
<1>5. own' \in Obj /\ SameObject(own', own)
    BY <1>1, <1>3, <1>4, WithStatus DEF SameObject
<1>6. Progress(pc, own) => Finished(own')
  <2> SUFFICES ASSUME Progress(pc, own) PROVE Finished(own')
      OBVIOUS
  <2>1. /\ \A t \in {"AppFound", "AppReady", "ProxyEndpointsReady"} :
              own.status.conds[t].gen = own.gen
        /\ own.status.conds["ResourcesApplied"] = [status |-> "True", gen |-> own.gen]
        /\ own.status.serviceName = own.spec.service
      BY <1>1 DEF Progress, FromDiscover
  <2> QED BY <1>1, <1>4, <2>1, FinalStatus
<1> QED BY <1>4, <1>5, <1>6

\* Where each step of Reconcile goes: back to idle, or on with the same object.
LEMMA LaterSteps ==
    ASSUME TypeOK, Reconcile, ~Start
    PROVE  \/ pc' = "idle" /\ own' = NoObject
           \/ /\ pc # "idle"
              /\ pc' # "idle"
              /\ own' \in Obj
              /\ SameObject(own', own)
              /\ Progress(pc, own) => /\ Progress(pc', own')
                                      /\ pc' = "patchStatus" => Finished(own')
              /\ \/ pc = "appStatus" /\ pc' = "discover"
                 \/ pc = "discover" /\ pc' = "service"
                 \/ pc = "service" /\ pc' = "endpointSlice" /\ ReconcileService
                 \/ pc = "endpointSlice" /\ pc' = "ingress" /\ ReconcileEndpointSlice
                 \/ pc = "ingress" /\ pc' = "mirror"
                 \/ pc = "mirror" /\ pc' = "mirrorStatus"
                 \/ pc = "mirrorStatus" /\ pc' \in {"probe", "patchStatus"}
                 \/ pc = "probe" /\ pc' = "patchStatus"
<1>1. CASE AppStatus
    BY <1>1, AppStatusOwn DEF AppStatus
<1>2. CASE Discover
    BY <1>2, DiscoverOwn DEF Discover
<1>3. CASE ReconcileIngress \/ ReconcileIngressFails
    BY <1>3, IngressOwn DEF ReconcileIngress, ReconcileIngressFails
<1>4. CASE PatchMirrorStatus
    BY <1>4, MirrorStatusOwn DEF PatchMirrorStatus
<1>5. CASE Probe
    BY <1>5, ProbeOwn DEF Probe, Progress, FromDiscover
<1>6. CASE ReconcileService \/ ReconcileEndpointSlice \/ ReconcileMirror
    BY <1>6 DEF ReconcileService, ReconcileEndpointSlice, ReconcileMirror, Goto, TypeOK, Obj,
                SameObject, Progress, FromDiscover
<1>7. CASE \/ ReconcileServiceFails \/ ReconcileEndpointSliceFails \/ ReconcileMirrorFails
           \/ PatchMirrorStatusFails \/ PatchStatus \/ PatchStatusFails
    BY <1>7 DEF ReconcileServiceFails, ReconcileEndpointSliceFails, ReconcileMirrorFails,
                PatchMirrorStatusFails, PatchStatus, PatchStatusFails, ReturnError, Return
<1> QED BY <1>1, <1>2, <1>3, <1>4, <1>5, <1>6, <1>7 DEF Reconcile

\* What Reconcile returns and looks for.
LEMMA ReconcileRest ==
    ASSUME TypeOK, Reconcile
    PROVE  /\ ret' \in {"done", "poll", "error"}
           /\ traffic' \subseteq Proxies
           /\ RestOK'
           /\ UNCHANGED seen
<1>0. /\ RestOK /\ ret \in {"done", "poll", "error"} /\ traffic \subseteq Proxies
      /\ faults \in 0 .. MaxFaults
    BY TypeParts DEF LocalsOK, RestOK
<1>1. ASSUME NEW kind, Disturb(kind) PROVE faults' \in 0 .. MaxFaults
    BY <1>0, <1>1, ExposureBoundAssumption DEF Disturb
<1>2. CASE Start
    BY <1>0, <1>2, StartOwn DEF Start, Local, RestOK
<1>3. CASE AppStatus
    BY <1>0, <1>1, <1>3 DEF AppStatus, Local, RestOK
<1>4. CASE Discover
  <2>1. traffic' \subseteq Proxies
      BY <1>4, DiscoverOwn
  <2> QED BY <1>0, <1>1, <1>4, <2>1 DEF Discover, Local, RestOK
<1>5. CASE ReconcileService \/ ReconcileEndpointSlice \/ ReconcileMirror
    BY <1>0, <1>5 DEF ReconcileService, ReconcileEndpointSlice, ReconcileMirror, Goto, Local,
                      RestOK
<1>6. ASSUME NEW key, NEW want, CreateOrUpdateFails(key, want) PROVE faults' \in 0 .. MaxFaults
    BY <1>0, <1>1, <1>6 DEF CreateOrUpdateFails
<1>7. CASE ReconcileServiceFails \/ ReconcileEndpointSliceFails \/ ReconcileMirrorFails
    BY <1>0, <1>6, <1>7
    DEF ReconcileServiceFails, ReconcileEndpointSliceFails, ReconcileMirrorFails, ReturnError,
        Return, Local, RestOK
<1>8. CASE ReconcileIngress \/ ReconcileIngressFails
  <2>1. faults' \in 0 .. MaxFaults
      BY <1>0, <1>1, <1>6, <1>8 DEF ReconcileIngress, ReconcileIngressFails
  <2>2. \E ok \in BOOLEAN : IngressDone(ok)
      BY <1>8 DEF ReconcileIngress, ReconcileIngressFails
  <2> QED BY <1>0, <2>1, <2>2 DEF IngressDone, Local, RestOK
<1>9. CASE PatchMirrorStatus
    BY <1>0, <1>9, MirrorStatusOwn DEF PatchMirrorStatus, Local, RestOK
<1>10. CASE PatchMirrorStatusFails
    BY <1>0, <1>1, <1>10 DEF PatchMirrorStatusFails, ReturnError, Return, Local, RestOK
<1>11. CASE Probe
    BY <1>0, <1>1, <1>11, ProbeOwn DEF Probe, Local, RestOK
<1>12. CASE (PatchStatus \/ PatchStatusFails) /\ traffic' = {} /\ UNCHANGED <<children, seen>>
    BY <1>0, <1>1, <1>12 DEF PatchStatus, PatchStatusFails, Return, RestOK
<1> QED
    BY <1>2, <1>3, <1>4, <1>5, <1>7, <1>8, <1>9, <1>10, <1>11, <1>12 DEF Reconcile

\* Reconcile writes the exposure only to patch its status.
LEMMA ReconcileWrites ==
    ASSUME TypeOK, Reconcile
    PROVE  /\ UNCHANGED lives
           /\ \/ UNCHANGED versions
              \/ pc = "patchStatus" /\ cached.exists /\ server.exists /\ StoreStatus
    BY DEF Reconcile, Start, AppStatus, Discover, ReconcileService, ReconcileServiceFails,
           ReconcileEndpointSlice, ReconcileEndpointSliceFails, ReconcileIngress,
           ReconcileIngressFails, IngressDone, ReconcileMirror, ReconcileMirrorFails,
           PatchMirrorStatus, PatchMirrorStatusFails, Probe, PatchStatus, PatchStatusFails, Local

-----------------------------------------------------------------------------
(* Every step keeps the types.                                             *)

LEMMA InitType ==
    ASSUME Init
    PROVE  TypeOK
<1>1. versions = <<NoObject>> /\ own = NoObject /\ pc = "idle" /\ lives = 0
    BY DEF Init, ControllerInit
<1>2. VersionsOK
  <2>1. NoObject \in Known(lives)
      BY <1>1, NoObjectType DEF Known
  <2> QED BY <1>1, <2>1, ExposureBoundAssumption DEF VersionsOK
<1>3. LocalsOK
    BY <1>1, NoObjectType DEF Init, ControllerInit, LocalsOK, Steps
<1>4. RestOK
  <2>1. k1s \in [app : AppStates, proxies : SUBSET Proxies, client : BOOLEAN]
      BY DEF Init, AppStates
  <2>2. 0 \in 0 .. MaxFaults /\ 0 \in 0 .. MaxLives
      BY ExposureBoundAssumption
  <2> QED BY <2>1, <2>2 DEF Init, ControllerInit, RestOK
<1>5. children \in [Keys -> Children] /\ seen \in [Keys -> Children]
    BY NoChildType DEF Init
<1> QED BY <1>2, <1>3, <1>4, <1>5, TypeParts

LEMMA ReconcileVersions ==
    ASSUME TypeOK, Reconcile
    PROVE  VersionsOK'
<1>1. CASE UNCHANGED versions
    BY <1>1, ReconcileWrites, SameVersionsType
<1>2. CASE StoreStatus
  <2>1. PICK o \in Obj : (Store(o) \/ StoreIfChanged(o)) /\ o.uid = server.uid
      BY <1>2, StatusStored
  <2>2. o \in Known(lives) /\ lives \in Nat /\ lives' = lives
      BY <2>1, VersionsType, ReconcileWrites, ExposureBoundAssumption DEF Known, TypeOK
  <2> QED BY <2>1, <2>2, StoreType
<1> QED BY <1>1, <1>2, ReconcileWrites

LEMMA ReconcileLocals ==
    ASSUME TypeOK, Reconcile
    PROVE  LocalsOK'
<1>1. CASE Start
  <2>1. cached.exists \in BOOLEAN /\ own \in Obj
      BY VersionsType, ObjType DEF Known, TypeOK, Obj
  <2> QED BY <1>1, <2>1, StartOwn, ReconcileRest DEF LocalsOK, SameObject, Steps
<1>2. CASE ~Start
    BY <1>2, LaterSteps, ReconcileRest, NoObjectType
    DEF LocalsOK, SameObject, Steps, TypeOK
<1> QED BY <1>1, <1>2

LEMMA ReconcileType ==
    ASSUME TypeOK, Reconcile
    PROVE  TypeOK'
<1>1. seen' \in [Keys -> Children]
    BY ReconcileRest DEF TypeOK
<1> QED
    BY <1>1, ReconcileVersions, ReconcileLocals, ReconcileRest, ReconcileChildrenType,
       TypePartsAfter

LEMMA Disturbed ==
    ASSUME TypeOK, NEW kind, Disturb(kind)
    PROVE  faults' \in 0 .. MaxFaults
    BY ExposureBoundAssumption DEF TypeOK, Disturb

\* What the manager and the environment leave alone.
LEMMA Around ==
    ASSUME TypeOK, Manager \/ Environment
    PROVE  /\ UNCHANGED <<pc, own, ret>>
           /\ VersionsOK'
           /\ RestOK'
<1>0. RestOK
    BY TypeParts
<1>1. UNCHANGED <<pc, own, ret>>
    BY DEF Manager, Deliver, TimerFires, Resync, Environment, Create, CreateObject, Edit,
           EditObject, Delete, AddForeign, RemoveForeign, LoseCredentials, RestoreCredentials,
           World
<1>2. CASE Manager
  <2>1. UNCHANGED <<k1s, credsOK, faults, lives>> /\ {queue', timer'} \subseteq BOOLEAN
      BY <1>0, <1>2 DEF Manager, Deliver, TimerFires, Resync, RestOK
  <2>2. VersionsOK'
      BY <1>2, DeliverType, SameVersionsType DEF Manager, TimerFires, Resync
  <2> QED BY <1>0, <1>1, <2>1, <2>2 DEF RestOK
<1>3. CASE Environment
  <2>1. VersionsOK' /\ lives' \in 0 .. MaxLives
      BY <1>0, <1>3, EnvironmentWrites, EnvironmentWriteType, SameVersionsType DEF RestOK
  <2>2. faults' \in 0 .. MaxFaults
    <3>1. CASE UNCHANGED faults
        BY <1>0, <3>1 DEF RestOK
    <3>2. CASE \E kind \in ExposureFaults : Disturb(kind)
        BY <3>2, Disturbed
    <3> QED
        BY <1>3, <3>1, <3>2
        DEF Environment, Create, CreateObject, Edit, EditObject, Delete, AddForeign,
            RemoveForeign, LoseCredentials, RestoreCredentials, World, AppChanges,
            ProxiesChange, ClientBreaks, ClientMended, ExposureFaults, FaultKinds
  <2>3. k1s' \in [app : AppStates, proxies : SUBSET Proxies, client : BOOLEAN]
    <3>1. CASE UNCHANGED k1s
        BY <1>0, <3>1 DEF RestOK
    <3>2. CASE World
        BY <1>0, <3>2
        DEF World, AppChanges, ProxiesChange, ClientBreaks, ClientMended, RestOK
    <3> QED
        BY <1>3, <3>1, <3>2
        DEF Environment, Create, CreateObject, Edit, EditObject, Delete, AddForeign,
            RemoveForeign, LoseCredentials, RestoreCredentials
  <2>4. credsOK' \in BOOLEAN /\ UNCHANGED <<queue, timer>>
      BY <1>0, <1>3
      DEF Environment, Create, CreateObject, Edit, EditObject, Delete, AddForeign,
          RemoveForeign, LoseCredentials, RestoreCredentials, World, RestOK
  <2> QED BY <1>0, <1>1, <2>1, <2>2, <2>3, <2>4 DEF RestOK
<1> QED BY <1>2, <1>3

LEMMA OtherStepsType ==
    ASSUME TypeOK,
           \/ (Manager \/ Environment) /\ UNCHANGED <<children, seen, traffic>>
           \/ Crash /\ seen' = children /\ traffic' = {} /\ UNCHANGED children
           \/ \E key \in Keys : DeliverChild(key)
           \/ GarbageCollect
           \/ Others
           \/ UNCHANGED vars
    PROVE  TypeOK'
<1>0. /\ LocalsOK /\ RestOK /\ VersionsOK
      /\ children \in [Keys -> Children] /\ seen \in [Keys -> Children]
    BY TypeParts
<1>1. CASE (Manager \/ Environment) /\ UNCHANGED <<children, seen, traffic>>
  <2>1. LocalsOK'
      BY <1>0, <1>1, Around DEF LocalsOK
  <2> QED BY <1>0, <1>1, <2>1, Around, TypePartsAfter
<1>2. CASE Crash /\ seen' = children /\ traffic' = {} /\ UNCHANGED children
  <2>1. LocalsOK' /\ RestOK'
    <3>1. faults' \in 0 .. MaxFaults
        BY <1>2, Disturbed DEF Crash
    <3>2. NoObject \in Obj
        BY NoObjectType
    <3> QED BY <1>0, <1>2, <3>1, <3>2 DEF Crash, LocalsOK, RestOK, Steps
  <2> QED BY <1>0, <1>2, <2>1, RestartType, TypePartsAfter
<1>3. CASE \E key \in Keys : DeliverChild(key)
  <2>1. PICK key \in Keys : DeliverChild(key)
      BY <1>3
  <2>2. queue' \in BOOLEAN
      BY <1>0, <2>1 DEF DeliverChild, RestOK, Ours
  <2>3. LocalsOK' /\ RestOK' /\ VersionsOK'
      BY <1>0, <2>1, <2>2, SameVersionsType DEF DeliverChild, LocalsOK, RestOK
  <2>4. children' \in [Keys -> Children] /\ seen' \in [Keys -> Children]
      BY <1>0, <2>1 DEF DeliverChild
  <2> QED BY <2>3, <2>4, TypePartsAfter
<1>4. CASE GarbageCollect \/ Others
  <2>1. UNCHANGED <<versions, k1s, credsOK, queue, timer, pc, own, ret, lives, seen, traffic>>
      BY <1>4 DEF GarbageCollect, Others
  <2>2. LocalsOK' /\ RestOK' /\ VersionsOK'
      BY <1>0, <1>4, <2>1, OthersType, SameVersionsType DEF LocalsOK, RestOK
  <2> QED BY <1>0, <1>4, <2>1, <2>2, OthersType, TypePartsAfter
<1>5. CASE UNCHANGED vars
  <2>1. LocalsOK' /\ RestOK' /\ VersionsOK'
      BY <1>0, <1>5, SameVersionsType DEF vars, LocalsOK, RestOK
  <2> QED BY <1>0, <1>5, <2>1, TypePartsAfter DEF vars
<1> QED BY <1>1, <1>2, <1>3, <1>4, <1>5

\* Every variable has its type, and a step of Reconcile has an object to work on:
\* the NotFound of the first Get, the returns in the middle and a restart never leave
\* it without one.
THEOREM ExposureTypeCorrect == Spec => []TypeOK
<1>1. TypeOK /\ [Next]_vars => TypeOK'
    BY ReconcileType, OtherStepsType DEF Next
<1> QED BY <1>1, InitType, PTL DEF Spec

-----------------------------------------------------------------------------
(* What Reconcile does not touch, and what the garbage collector finds.    *)

\* c is d up to status.ready.
SameUpToReady(c, d) == c = [d EXCEPT !.ready = c.ready]

LEMMA SameIsSame ==
    ASSUME NEW d \in Children
    PROVE  /\ SameUpToReady(d, d)
           /\ \A r \in BOOLEAN : SameUpToReady([d EXCEPT !.ready = r], d)
    BY DEF SameUpToReady, Children

LEMMA ReconcileSparesOthers ==
    ASSUME TypeOK, Reconcile, NEW key \in Keys, children[key].owner = Other,
           key[1] # "Ingress"
    PROVE  SameUpToReady(children'[key], children[key])
<1>0. children \in [Keys -> Children] /\ children[key] \in Children
    BY DEF TypeOK
<1>1. CASE children'[key] = children[key]
    BY <1>0, <1>1, SameIsSame
<1>2. ASSUME NEW k \in Keys, NEW want, Writes(k, want) PROVE children'[key] = children[key]
  <2>1. k # key
      BY <1>2 DEF Writes, controllerReference
  <2> QED BY <1>0, <1>2, <2>1 DEF Writes
<1>3. CASE pc = "ingress" /\ RemoveIngress
  <2>1. own.spec \in Specs
      BY <1>3, OwnType
  <2>2. key # ingress(own.spec)
      BY <2>1, KeyTypes
  <2>3. children'[key] = children[key]
      BY <1>0, <1>3, <2>2 DEF RemoveIngress
  <2> QED BY <1>1, <2>3
<1>4. CASE pc = "mirrorStatus" /\ WriteMirrorStatus
    BY <1>0, <1>4, MirrorStatusWritten, SameIsSame
<1>5. pc # "idle" => {service(own.spec), endpointSlice(own.spec), ingress(own.spec), mirror}
                        \subseteq Keys
    BY OwnType
<1> QED BY <1>1, <1>2, <1>3, <1>4, <1>5, ReconcileChildren

\* No step of Reconcile changes or deletes an object of another controller, the Ingress
\* that is deleted by name apart: the refusal of SetControllerReference stands on a
\* cached copy, and the resourceVersion of Update makes that copy the current one.
THEOREM OthersAreUntouched == Spec => OthersUntouched
<1> DEFINE Spared(key) ==
        (children[key].owner = Other /\ key[1] # "Ingress" /\ pc' # pc)
        => SameUpToReady(children'[key], children[key])
<1>1. TypeOK /\ [Next]_vars => [\A key \in Keys : Spared(key)]_vars
  <2> SUFFICES ASSUME TypeOK, Next, NEW key \in Keys PROVE Spared(key)
      OBVIOUS
  <2>1. CASE Reconcile
      BY <2>1, ReconcileSparesOthers
  <2>2. CASE UNCHANGED pc
      BY <2>2
  <2>3. CASE UNCHANGED children
      BY <2>3, SameIsSame DEF TypeOK
  <2> QED BY <2>1, <2>2, <2>3, Around DEF Next, DeliverChild, GarbageCollect, Others
<1>2. [\A key \in Keys : Spared(key)]_vars
      => [ \A key \in Keys :
            (children[key].owner = Other /\ key[1] # "Ingress" /\ pc' # pc)
            => children'[key] = [children[key] EXCEPT !.ready = children'[key].ready] ]_vars
    BY DEF SameUpToReady
<1> QED BY <1>1, <1>2, ExposureTypeCorrect, PTL DEF Spec, OthersUntouched

\* Content is what an exposure gave an object.
Content(c) == c.port # 0 \/ c.backend # NoName \/ c.endpoints # {}

\* Every object with content refers to the exposure that gave it.
ContentOwned == \A key \in Keys : Content(children[key]) => Ours(children[key])

LEMMA EmptyChildren ==
    ~Content(NoChild) /\ \A owner : ~Content(Foreign(owner))
    BY DEF Content, NoChild, Foreign

LEMMA WantedOurs ==
    ASSUME TypeOK, pc # "idle"
    PROVE  /\ Ours(wantedService)
           /\ Ours(wantedEndpointSlice)
           /\ Ours(wantedIngress)
           /\ Ours(wantedMirror)
<1>1. own.uid \in Nat
    BY OwnType, ObjType, ExposureBoundAssumption
<1> QED BY <1>1, WantedTypes DEF Ours

LEMMA ContentStep ==
    ASSUME TypeOK, ContentOwned, [Next]_vars
    PROVE  ContentOwned'
<1>0. children \in [Keys -> Children]
    BY DEF TypeOK
<1>1. CASE UNCHANGED children
    BY <1>1 DEF ContentOwned
<1>2. ASSUME NEW k \in Keys, NEW c, Content(c) => Ours(c),
             children' = [children EXCEPT ![k] = c]
      PROVE  ContentOwned'
    BY <1>0, <1>2 DEF ContentOwned
<1>3. CASE Reconcile
  <2>1. ASSUME NEW key \in Keys, NEW r \in BOOLEAN,
               children'[key] = [children[key] EXCEPT !.ready = r]
        PROVE  Content(children'[key]) => Ours(children'[key])
      BY <1>0, <2>1 DEF ContentOwned, Content, Ours, Children
  <2>2. CASE pc # "idle" /\ WriteMirrorStatus
      BY <2>1, <2>2, MirrorStatusWritten DEF ContentOwned
  <2>3. CASE pc = "service" /\ Writes(service(own.spec), wantedService)
      BY <1>2, <2>3, WantedOurs, OwnType DEF Writes
  <2>4. CASE pc = "endpointSlice" /\ Writes(endpointSlice(own.spec), wantedEndpointSlice)
      BY <1>2, <2>4, WantedOurs, OwnType DEF Writes
  <2>5. CASE pc = "ingress" /\ Writes(ingress(own.spec), wantedIngress)
      BY <1>2, <2>5, WantedOurs, OwnType DEF Writes
  <2>6. CASE pc = "ingress" /\ RemoveIngress
      BY <1>2, <2>6, EmptyChildren, OwnType DEF RemoveIngress
  <2>7. CASE pc = "mirror" /\ Writes(mirror, wantedMirror)
      BY <1>2, <2>7, WantedOurs, OwnType DEF Writes
  <2> QED BY <1>1, <1>3, <2>2, <2>3, <2>4, <2>5, <2>6, <2>7, ReconcileChildren
<1>4. CASE GarbageCollect
    BY <1>0, <1>4, EmptyChildren DEF GarbageCollect, ContentOwned
<1>5. CASE Others
    BY <1>2, <1>5, EmptyChildren DEF Others, DeleteChild, TakeName
<1> QED BY <1>1, <1>3, <1>4, <1>5 DEF Next, DeliverChild, vars

\* Once the exposure is gone and the garbage collector has nothing left to do, nothing
\* stays that an exposure of this name made or filled: no write of a reconcile that was
\* under way escapes the controller reference, whoever owned the object before.
THEOREM NothingStays == Spec => []NothingGeneratedStays
<1>1. Init => ContentOwned
    BY EmptyChildren DEF Init, ContentOwned
<1>2. ContentOwned => NothingGeneratedStays
    BY DEF ContentOwned, NothingGeneratedStays, AtRest, Generated, Content, Orphaned
<1> QED BY <1>1, <1>2, ContentStep, ExposureTypeCorrect, PTL DEF Spec

-----------------------------------------------------------------------------
(* Ready=True for the current generation means exposed.                    *)
(*                                                                         *)
(* The reconciler trusts copies that may be old: a cached Service that     *)
(* looks as wanted is not written, and Ready is published for the          *)
(* generation of the copy the reconcile began with. What makes that safe   *)
(* is an order: that copy (the floor) is no newer than any version that is *)
(* around, and no published Ready and no port that was ever written is     *)
(* newer than the floor. A Ready of the current generation is then that of *)
(* a reconcile of the current spec, and nobody has undone its writes.      *)

\* What of a spec decides how it is exposed.
Place(s) == <<s.service, s.port>>

\* Users never go back to a Service and port that they have left.
Forward(rank) ==
    /\ rank \in [Names \X Nat -> Nat]
    /\ \A a, b \in Names \X Nat : rank[a] = rank[b] => a = b
    /\ \A s, t \in Specs : <<s, t>> \in Edits => rank[Place(s)] <= rank[Place(t)]

Rank == CHOOSE rank : Forward(rank)

\* Nor does anybody else delete what the exposure generated.
ForwardUsers == (\E rank : Forward(rank)) /\ "outOfBand" \notin Faults

\* b is the object a at the same time or later.
Before(a, b) ==
    /\ b.exists
    /\ a.gen <= b.gen
    /\ a.gen = b.gen => a.spec = b.spec
    /\ Rank[Place(a.spec)] <= Rank[Place(b.spec)]

Later == {pair \in Obj \X Obj : pair[1].exists => Before(pair[1], pair[2])}

Newest(vs) == vs[Len(vs)]

\* The copy that the present reconcile works on, or the next one will.
Floor(vs, p, o) == IF p = "idle" THEN Head(vs) ELSE o

\* The versions are in order, and come after the copy that is being reconciled.
Lineage(vs, p, o) ==
    /\ Ordered(vs, Later)
    /\ p # "idle" => \A i \in 1 .. Len(vs) : Before(o, vs[i])

\* The Service and the EndpointSlice of o are in place.
ServiceIn(ch, o) == ch[service(o.spec)].owner = o.uid /\ ch[service(o.spec)].port = o.spec.port

SliceIn(ch, o) == ch[endpointSlice(o.spec)].owner = o.uid

\* Conditions c that say Ready=True: for their reasons, for no newer a generation than
\* the floor f has, and, if that is the generation of the newest version s, truly so.
Sound(c, f, s, ch) ==
    c["Ready"].status = "True" =>
        /\ \A t \in Grounds : c[t] = [status |-> "True", gen |-> c["Ready"].gen]
        /\ f.exists
        /\ c["Ready"].gen <= f.gen
        /\ c["Ready"].gen = s.gen => ServiceIn(ch, s) /\ SliceIn(ch, s)

\* So do the published conditions, and those about to be.
Claims(vs, p, o, ch) ==
    /\ \A i \in 1 .. Len(vs) :
          vs[i].exists => Sound(vs[i].status.conds, Floor(vs, p, o), Newest(vs), ch)
    /\ p = "patchStatus" => Sound(o.status.conds, o, Newest(vs), ch)

AfterService == {"endpointSlice", "ingress", "mirror", "mirrorStatus", "probe"}

\* What the reconcile under way has written stays.
Written(p, o, ch) ==
    /\ p \in AfterService => ServiceIn(ch, o)
    /\ p \in AfterService \ {"endpointSlice"} => SliceIn(ch, o)

\* No Service has a newer port than the floor asks for, and what the cache shows as
\* the exposure's own is the exposure's own, with a port that is no newer.
ServicesBehind(ch, sn, f) ==
    \A key \in Keys : key[1] = "Service" =>
        /\ Ours(ch[key]) => f.exists /\ Rank[<<key[2], ch[key].port>>] <= Rank[Place(f.spec)]
        /\ Ours(sn[key]) => /\ Ours(ch[key])
                            /\ Rank[<<key[2], sn[key].port>>] <= Rank[<<key[2], ch[key].port>>]

SlicesBehind(ch, sn) ==
    \A key \in Keys : key[1] = "EndpointSlice" /\ Ours(sn[key]) => Ours(ch[key])

Story(vs, p, o, ch, sn) ==
    /\ Lineage(vs, p, o)
    /\ Claims(vs, p, o, ch)
    /\ Progress(p, o)
    /\ Written(p, o, ch)
    /\ ServicesBehind(ch, sn, Floor(vs, p, o))
    /\ SlicesBehind(ch, sn)

\* Owners are exposures that were created.
OwnersKnown ==
    /\ own.uid <= lives
    /\ \A key \in Keys : /\ Ours(children[key]) => children[key].owner <= lives
                         /\ Ours(seen[key]) => seen[key].owner <= lives

\* The invariant: all of this holds while the exposure is there that was created first.
ExposedInvariant ==
    (lives = 1 /\ server.exists) => Story(versions, pc, own, children, seen)

\* What the pieces of the invariant are about.
Typed(vs, p, o, ch, sn) ==
    /\ vs \in Seq(Obj)
    /\ vs # <<>>
    /\ o \in Obj
    /\ p # "idle" => o.exists
    /\ ch \in [Keys -> Children]
    /\ sn \in [Keys -> Children]

LEMMA RankType ==
    ASSUME ForwardUsers
    PROVE  /\ \A n \in Names, port \in Nat : Rank[<<n, port>>] \in Nat
           /\ \A n \in Names, port, q \in Nat :
                 Rank[<<n, port>>] = Rank[<<n, q>>] => port = q
           /\ \A s \in Specs : Rank[Place(s)] \in Nat
           /\ \A s, t \in Specs : <<s, t>> \in Edits => Rank[Place(s)] <= Rank[Place(t)]
<1>1. Forward(Rank)
    BY Zenon DEF ForwardUsers, Rank
<1>2. \A s \in Specs : Place(s) \in Names \X Nat
    BY SpecType DEF Place
<1>3. Rank \in [Names \X Nat -> Nat]
    BY <1>1 DEF Forward
<1>4. \A n \in Names, port, q \in Nat : Rank[<<n, port>>] = Rank[<<n, q>>] => port = q
  <2> SUFFICES ASSUME NEW n \in Names, NEW port \in Nat, NEW q \in Nat,
                      Rank[<<n, port>>] = Rank[<<n, q>>]
               PROVE  port = q
      OBVIOUS
  <2>1. <<n, port>> = <<n, q>>
      BY <1>1 DEF Forward
  <2> QED BY <2>1
<1> QED BY <1>1, <1>2, <1>3, <1>4 DEF Forward

\* The keys of Services and EndpointSlices.
LEMMA ServiceKeys ==
    /\ \A key \in Keys : key[1] = "Service" => key[2] \in Names
    /\ \A s \in Specs : /\ service(s) \in Keys /\ service(s)[1] = "Service"
                        /\ service(s)[2] = s.service
                        /\ endpointSlice(s) \in Keys /\ endpointSlice(s)[1] = "EndpointSlice"
<1>1. ASSUME NEW key \in Keys, key[1] = "Service" PROVE key[2] \in Names
  <2>1. PICK s \in Specs : key \in keysOf(s)
      BY DEF Keys
  <2>2. key = service(s)
      BY <1>1, <2>1, KeyTypes DEF keysOf
  <2> QED BY <2>2, SpecType DEF service
<1>2. \A s \in Specs : service(s)[2] = s.service
    BY DEF service
<1> QED BY <1>1, <1>2, KeyTypes

LEMMA BeforeTransitive ==
    ASSUME ForwardUsers, NEW a \in Obj, a.exists, NEW b \in Obj, NEW c \in Obj,
           Before(a, b), Before(b, c)
    PROVE  Before(a, c)
<1>1. /\ b.exists /\ c.exists
      /\ a.gen \in Nat /\ b.gen \in Nat /\ c.gen \in Nat
      /\ a.spec \in Specs /\ b.spec \in Specs /\ c.spec \in Specs
    BY ObjType DEF Before
<1>2. Rank[Place(a.spec)] \in Nat /\ Rank[Place(b.spec)] \in Nat /\ Rank[Place(c.spec)] \in Nat
    BY <1>1, RankType
<1> QED BY <1>1, <1>2 DEF Before

LEMMA BeforeReflexive ==
    ASSUME ForwardUsers, NEW a \in Obj, a.exists
    PROVE  Before(a, a)
<1>1. a.gen \in Nat /\ Rank[Place(a.spec)] \in Nat
    BY ObjType, RankType
<1> QED BY <1>1 DEF Before

\* The floor comes before all versions.
LEMMA FloorFirst ==
    ASSUME ForwardUsers, NEW vs, NEW p, NEW o, NEW ch, NEW sn, Typed(vs, p, o, ch, sn),
           Lineage(vs, p, o), Floor(vs, p, o).exists
    PROVE  /\ Floor(vs, p, o) \in Obj
           /\ \A i \in 1 .. Len(vs) : Before(Floor(vs, p, o), vs[i])
           /\ Before(Floor(vs, p, o), Newest(vs))
<1>1. /\ vs \in Seq(Obj) /\ vs # <<>> /\ o \in Obj
      /\ Len(vs) \in Nat \ {0}
      /\ Head(vs) = vs[1]
      /\ \A i \in 1 .. Len(vs) : vs[i] \in Obj
    BY Ends DEF Typed
<1>2. CASE p # "idle"
    BY <1>1, <1>2 DEF Floor, Lineage, Newest
<1>3. CASE p = "idle"
  <2>1. Floor(vs, p, o) = vs[1] /\ vs[1] \in Obj /\ vs[1].exists
      BY <1>1, <1>3 DEF Floor
  <2>2. ASSUME NEW i \in 1 .. Len(vs) PROVE Before(vs[1], vs[i])
    <3>1. CASE i = 1
        BY <2>1, <3>1, BeforeReflexive
    <3>2. CASE i # 1
      <4>1. <<vs[1], vs[i]>> \in Later
          BY <1>1, <3>2 DEF Lineage, Ordered
      <4> QED BY <2>1, <4>1 DEF Later
    <3> QED BY <3>1, <3>2
  <2> QED BY <1>1, <2>1, <2>2 DEF Newest
<1> QED BY <1>2, <1>3

\* A newer floor does for what an older one did.
LEMMA FloorRaised ==
    ASSUME ForwardUsers, NEW f, NEW g \in Obj,
           f.exists => f \in Obj /\ Before(f, g),
           NEW ch \in [Keys -> Children], NEW sn \in [Keys -> Children]
    PROVE  /\ \A c \in Conditions : \A s : Sound(c, f, s, ch) => Sound(c, g, s, ch)
           /\ ServicesBehind(ch, sn, f) => ServicesBehind(ch, sn, g)
<1>1. f.exists => /\ g.exists
                  /\ f.gen \in Nat /\ g.gen \in Nat /\ f.gen <= g.gen
                  /\ Rank[Place(f.spec)] \in Nat
                  /\ Rank[Place(g.spec)] \in Nat
                  /\ Rank[Place(f.spec)] <= Rank[Place(g.spec)]
    BY ObjType, RankType DEF Before
<1>2. ASSUME NEW c \in Conditions, NEW s, Sound(c, f, s, ch) PROVE Sound(c, g, s, ch)
  <2>1. c["Ready"].gen \in Nat
      BY ConditionType DEF ExposureConditions
  <2> QED BY <1>1, <1>2, <2>1 DEF Sound
<1>3. ASSUME ServicesBehind(ch, sn, f) PROVE ServicesBehind(ch, sn, g)
  <2>1. ASSUME NEW key \in Keys, key[1] = "Service", Ours(ch[key])
        PROVE  g.exists /\ Rank[<<key[2], ch[key].port>>] <= Rank[Place(g.spec)]
    <3> DEFINE r == Rank[<<key[2], ch[key].port>>]
    <3>1. r \in Nat
        BY <2>1, ServiceKeys, RankType DEF Children
    <3>2. f.exists /\ r <= Rank[Place(f.spec)]
        BY <1>3, <2>1, Zenon DEF ServicesBehind
    <3> HIDE DEF r
    <3>3. g.exists /\ r <= Rank[Place(g.spec)]
        BY <1>1, <3>1, <3>2
    <3> QED BY <3>3 DEF r
  <2> QED BY <1>3, <2>1, Zenon DEF ServicesBehind
<1> QED BY <1>2, <1>3

-----------------------------------------------------------------------------
(* What each kind of change of the versions and of the copy makes of it.   *)

\* n is the next version after s: the same, or one generation on.
Successor(s, n) ==
    /\ n.exists
    /\ n.uid = s.uid
    /\ \/ n.gen = s.gen /\ n.spec = s.spec
       \/ n.gen = s.gen + 1 /\ Rank[Place(s.spec)] <= Rank[Place(n.spec)]

LEMMA SuccessorBefore ==
    ASSUME ForwardUsers, NEW s \in Obj, s.exists, NEW n \in Obj, Successor(s, n)
    PROVE  Before(s, n)
<1>1. s.gen \in Nat /\ n.gen \in Nat /\ Rank[Place(s.spec)] \in Nat
    BY ObjType, RankType
<1> QED BY <1>1 DEF Successor, Before

\* Conditions that were sound stay so when a version is added.
LEMMA SoundStored ==
    ASSUME NEW c \in Conditions, NEW s \in Obj, s.exists, NEW f,
           f.exists => f \in Obj /\ Before(f, s), NEW n \in Obj, Successor(s, n), NEW ch,
           Sound(c, f, s, ch)
    PROVE  Sound(c, f, n, ch)
<1>1. /\ c["Ready"].gen \in Nat /\ s.gen \in Nat
      /\ f.exists => f.gen \in Nat /\ f.gen <= s.gen
    BY ConditionType, ObjType DEF ExposureConditions, Before
<1>2. CASE n.gen = s.gen /\ n.spec = s.spec
    BY <1>2 DEF Sound, Successor, ServiceIn, SliceIn
<1>3. CASE n.gen = s.gen + 1
    BY <1>1, <1>3 DEF Sound
<1> QED BY <1>2, <1>3 DEF Successor

LEMMA StoryStored ==
    ASSUME ForwardUsers, NEW vs, NEW p, NEW o, NEW ch, NEW sn, Typed(vs, p, o, ch, sn),
           Story(vs, p, o, ch, sn), Newest(vs).exists,
           NEW n \in Obj, Successor(Newest(vs), n),
           \/ n.status.conds = Newest(vs).status.conds
           \/ p = "patchStatus" /\ n.status.conds = o.status.conds,
           NEW ws, ws = Append(vs, n)
    PROVE  Story(ws, p, o, ch, sn)
<1> DEFINE s == Newest(vs)
           f == Floor(vs, p, o)
<1>1. /\ vs \in Seq(Obj) /\ vs # <<>> /\ o \in Obj
      /\ Len(vs) \in Nat \ {0}
      /\ \A i \in 1 .. Len(vs) : vs[i] \in Obj
      /\ s = vs[Len(vs)]
      /\ s \in Obj
    BY Ends DEF Typed, Newest
<1>2. /\ Len(ws) = Len(vs) + 1
      /\ \A i \in 1 .. Len(vs) : ws[i] = vs[i]
      /\ ws[Len(ws)] = n
      /\ Head(ws) = Head(vs)
    BY <1>1, Stored
<1>3. \A i \in 1 .. Len(ws) : i \in 1 .. Len(vs) \/ i = Len(ws)
    BY <1>1, <1>2
<1>4. Newest(ws) = n /\ Floor(ws, p, o) = f
    BY <1>2 DEF Newest, Floor
<1>5. Lineage(vs, p, o) /\ Claims(vs, p, o, ch)
    BY DEF Story
<1>6. f.exists => f \in Obj /\ Before(f, s)
    BY <1>5, FloorFirst
<1>7. Before(s, n)
    BY <1>1, SuccessorBefore
<1>8. ASSUME NEW i \in 1 .. Len(vs), vs[i].exists PROVE Before(vs[i], n)
  <2>1. CASE i = Len(vs)
      BY <1>1, <1>7, <2>1
  <2>2. CASE i # Len(vs)
    <3>1. <<vs[i], vs[Len(vs)]>> \in Later
        BY <1>1, <1>5, <2>2 DEF Lineage, Ordered
    <3>2. Before(vs[i], s)
        BY <1>1, <1>8, <3>1 DEF Later
    <3> QED BY <1>1, <1>7, <1>8, <3>2, BeforeTransitive
  <2> QED BY <2>1, <2>2
<1>9. Lineage(ws, p, o)
  <2>1. \A i \in 1 .. Len(vs) : <<vs[i], n>> \in Later
      BY <1>1, <1>8 DEF Later
  <2>2. Ordered(ws, Later)
      BY <1>1, <1>5, <2>1, OrderedStored DEF Lineage
  <2>3. ASSUME p # "idle" PROVE \A i \in 1 .. Len(ws) : Before(o, ws[i])
    <3>1. \A i \in 1 .. Len(vs) : Before(o, vs[i])
        BY <1>5, <2>3 DEF Lineage
    <3>2. o.exists /\ Before(o, s)
        BY <1>1, <2>3, <3>1 DEF Typed
    <3>3. Before(o, n)
        BY <1>1, <1>7, <3>2, BeforeTransitive
    <3> QED BY <1>2, <1>3, <3>1, <3>3
  <2> QED BY <2>2, <2>3 DEF Lineage
<1>10. ASSUME NEW c \in Conditions, Sound(c, f, s, ch) PROVE Sound(c, f, n, ch)
    BY <1>1, <1>6, <1>10, SoundStored
<1>11. o.status.conds \in Conditions /\ \A i \in 1 .. Len(vs) : vs[i].status.conds \in Conditions
    BY <1>1, ObjType
<1>12. p = "patchStatus" => f = o /\ Sound(o.status.conds, f, n, ch)
    BY <1>5, <1>10, <1>11 DEF Claims, Floor
<1>13. \A i \in 1 .. Len(vs) : vs[i].exists => Sound(vs[i].status.conds, f, n, ch)
    BY <1>5, <1>10, <1>11 DEF Claims
<1>14. Sound(n.status.conds, f, n, ch)
    BY <1>1, <1>12, <1>13
<1>15. Claims(ws, p, o, ch)
  <2>1. \A i \in 1 .. Len(ws) : ws[i].exists => Sound(ws[i].status.conds, f, n, ch)
      BY <1>2, <1>3, <1>13, <1>14
  <2> HIDE DEF f
  <2> QED BY <1>4, <1>12, <2>1 DEF Claims
<1> HIDE DEF f
<1> QED BY <1>4, <1>9, <1>15 DEF Story, f

\* Reconcile returns.
LEMMA StoryReturned ==
    ASSUME ForwardUsers, NEW vs, NEW p, NEW o, NEW ch, NEW sn, Typed(vs, p, o, ch, sn),
           Story(vs, p, o, ch, sn), NEW q
    PROVE  Story(vs, "idle", q, ch, sn)
<1> DEFINE f == Floor(vs, p, o)
           g == Head(vs)
<1>1. /\ vs \in Seq(Obj) /\ vs # <<>>
      /\ Len(vs) \in Nat \ {0}
      /\ g = vs[1] /\ g \in Obj
      /\ \A i \in 1 .. Len(vs) : vs[i] \in Obj /\ vs[i].status.conds \in Conditions
      /\ ch \in [Keys -> Children] /\ sn \in [Keys -> Children]
    BY Ends, ObjType DEF Typed
<1>2. Lineage(vs, p, o) /\ Claims(vs, p, o, ch) /\ ServicesBehind(ch, sn, f)
    BY DEF Story
<1>3. f.exists => f \in Obj /\ Before(f, g)
  <2>1. 1 \in 1 .. Len(vs)
      BY <1>1
  <2> QED BY <1>1, <1>2, <2>1, FloorFirst
<1>4. Floor(vs, "idle", q) = g
    BY DEF Floor
<1> HIDE DEF f, g
<1>5. ServicesBehind(ch, sn, g)
    BY <1>1, <1>2, <1>3, FloorRaised
<1>6. \A i \in 1 .. Len(vs) : vs[i].exists => Sound(vs[i].status.conds, g, Newest(vs), ch)
  <2>1. \A i \in 1 .. Len(vs) : vs[i].exists => Sound(vs[i].status.conds, f, Newest(vs), ch)
      BY <1>2 DEF Claims, f
  <2> QED BY <1>1, <1>3, <2>1, FloorRaised
<1>7. Lineage(vs, "idle", q) /\ Claims(vs, "idle", q, ch)
    BY <1>2, <1>4, <1>6 DEF Lineage, Claims
<1> QED BY <1>4, <1>5, <1>7 DEF Story, Progress, FromDiscover, Written, AfterService

\* The cache moves on.
LEMMA StoryDelivered ==
    ASSUME ForwardUsers, NEW vs, NEW p, NEW o, NEW ch, NEW sn, Typed(vs, p, o, ch, sn),
           Story(vs, p, o, ch, sn), NEW k \in 2 .. Len(vs),
           NEW ws, ws = SubSeq(vs, k, Len(vs))
    PROVE  Story(ws, p, o, ch, sn)
<1> DEFINE f == Floor(vs, p, o)
           g == Floor(ws, p, o)
<1>1. /\ vs \in Seq(Obj) /\ vs # <<>> /\ o \in Obj
      /\ Len(vs) \in Nat \ {0}
      /\ \A i \in 1 .. Len(vs) : vs[i] \in Obj /\ vs[i].status.conds \in Conditions
      /\ ch \in [Keys -> Children] /\ sn \in [Keys -> Children]
    BY Ends, ObjType DEF Typed
<1>2. /\ Lineage(vs, p, o) /\ Claims(vs, p, o, ch) /\ Progress(p, o) /\ Written(p, o, ch)
      /\ ServicesBehind(ch, sn, f) /\ SlicesBehind(ch, sn)
    BY DEF Story
<1>3. /\ \A i \in 1 .. Len(ws) : i + k - 1 \in 1 .. Len(vs) /\ ws[i] = vs[i + k - 1]
    BY <1>1, DeliveredElements
<1>4. ws \in Seq(Obj) /\ ws # <<>> /\ Newest(ws) = Newest(vs)
    BY <1>1, Delivered DEF Newest
<1>5. Head(ws) = ws[1] /\ 1 \in 1 .. Len(ws)
    BY <1>4, Ends
<1>6. \A j \in 1 .. Len(ws) : \E i \in 1 .. Len(vs) : ws[j] = vs[i]
    BY <1>3
<1>7. Lineage(ws, p, o)
  <2>1. Ordered(ws, Later)
      BY <1>1, <1>2, RelationsDelivered DEF Lineage
  <2> QED BY <1>2, <1>6, <2>1 DEF Lineage
<1>8. g \in Obj /\ (f.exists => f \in Obj /\ Before(f, g))
  <2>1. f.exists => f \in Obj /\ \A i \in 1 .. Len(vs) : Before(f, vs[i])
      BY <1>2, FloorFirst
  <2>2. CASE p = "idle"
      BY <1>1, <1>5, <1>6, <2>1, <2>2 DEF Floor
  <2>3. CASE p # "idle"
    <3>1. f = o /\ g = o
        BY <2>3 DEF Floor
    <3>2. o.exists /\ o \in Obj
        BY <1>1, <2>3 DEF Typed
    <3> QED BY <3>1, <3>2, BeforeReflexive
  <2> QED BY <2>2, <2>3
<1> HIDE DEF f, g
<1>9. ServicesBehind(ch, sn, g)
    BY <1>1, <1>2, <1>8, FloorRaised
<1>10. \A i \in 1 .. Len(vs) : vs[i].exists => Sound(vs[i].status.conds, g, Newest(vs), ch)
  <2>1. \A i \in 1 .. Len(vs) : vs[i].exists => Sound(vs[i].status.conds, f, Newest(vs), ch)
      BY <1>2 DEF Claims, f
  <2> QED BY <1>1, <1>8, <2>1, FloorRaised
<1>11. Claims(ws, p, o, ch)
  <2>1. \A j \in 1 .. Len(ws) : ws[j].exists => Sound(ws[j].status.conds, g, Newest(vs), ch)
      BY <1>6, <1>10
  <2> QED BY <1>2, <1>4, <2>1 DEF Claims, g
<1> QED BY <1>2, <1>7, <1>9, <1>11 DEF Story, g

\* The manager restarts: the caches are filled anew.
LEMMA StoryRestarted ==
    ASSUME ForwardUsers, NEW vs, NEW p, NEW o, NEW ch, NEW sn, Typed(vs, p, o, ch, sn),
           Story(vs, p, o, ch, sn), NEW ws, ws = <<Newest(vs)>>, NEW q
    PROVE  Story(ws, "idle", q, ch, ch)
<1> DEFINE f == Floor(vs, p, o)
           s == Newest(vs)
<1>1. /\ vs \in Seq(Obj) /\ vs # <<>>
      /\ Len(vs) \in 1 .. Len(vs) /\ s = vs[Len(vs)] /\ s \in Obj /\ s.status.conds \in Conditions
      /\ ch \in [Keys -> Children]
    BY Ends, ObjType DEF Typed, Newest
<1>2. Lineage(vs, p, o) /\ Claims(vs, p, o, ch) /\ ServicesBehind(ch, sn, f)
    BY DEF Story
<1>3. f.exists => f \in Obj /\ Before(f, s)
    BY <1>2, FloorFirst
<1>4. s.exists => Sound(s.status.conds, f, s, ch)
    BY <1>1, <1>2 DEF Claims
<1>5. ServicesBehind(ch, ch, f)
  <2>1. \A key \in Keys : key[1] = "Service" => Rank[<<key[2], ch[key].port>>] \in Nat
      BY <1>1, ServiceKeys, RankType DEF Children
  <2>2. \A r \in Nat : r <= r
      OBVIOUS
  <2> QED BY <1>2, <2>1, <2>2, Zenon DEF ServicesBehind
<1>6. Len(ws) = 1 /\ Head(ws) = s /\ Newest(ws) = s /\ \A i \in 1 .. Len(ws) : ws[i] = s
    BY DEF Newest
<1> HIDE DEF f, s
<1>7. ServicesBehind(ch, ch, s) /\ (s.exists => Sound(s.status.conds, s, s, ch))
    BY <1>1, <1>3, <1>4, <1>5, FloorRaised
<1>8. Floor(ws, "idle", q) = s
    BY <1>6 DEF Floor
<1>9. Lineage(ws, "idle", q) /\ Claims(ws, "idle", q, ch)
    BY <1>6, <1>7, <1>8 DEF Lineage, Ordered, Claims
<1> QED BY <1>7, <1>8, <1>9 DEF Story, Progress, FromDiscover, Written, AfterService, SlicesBehind

\* Two floors that are the same but for the status.
LEMMA SameFloor ==
    ASSUME NEW f, NEW g, SameObject(g, f), NEW ch, NEW sn
    PROVE  /\ \A c, s : Sound(c, f, s, ch) => Sound(c, g, s, ch)
           /\ ServicesBehind(ch, sn, f) => ServicesBehind(ch, sn, g)
           /\ \A b : Before(f, b) => Before(g, b)
<1>1. f.exists = g.exists /\ f.gen = g.gen /\ f.spec = g.spec
    BY DEF SameObject
<1>2. \A c, s : Sound(c, f, s, ch) => Sound(c, g, s, ch)
    BY <1>1, Zenon DEF Sound
<1>3. ServicesBehind(ch, sn, f) => ServicesBehind(ch, sn, g)
    BY <1>1, Zenon DEF ServicesBehind
<1>4. \A b : Before(f, b) => Before(g, b)
    BY <1>1, Zenon DEF Before
<1> QED BY <1>2, <1>3, <1>4

\* Reconcile starts on the cached copy.
LEMMA StoryBegun ==
    ASSUME ForwardUsers, NEW vs, NEW o, NEW ch, NEW sn, Typed(vs, "idle", o, ch, sn),
           Story(vs, "idle", o, ch, sn), Head(vs).exists,
           NEW p \in {"appStatus", "patchStatus"}, NEW q \in Obj, SameObject(q, Head(vs)),
           \/ q.status.conds["Ready"] = [status |-> "False", gen |-> q.gen]
           \/ \A t \in Grounds \cup {"Ready"} :
                 q.status.conds[t] = Head(vs).status.conds[t]
    PROVE  Story(vs, p, q, ch, sn)
<1> DEFINE f == Head(vs)
<1>1. /\ Len(vs) \in Nat \ {0} /\ f = vs[1]
    BY Ends DEF Typed
<1>2. /\ Lineage(vs, "idle", o) /\ Claims(vs, "idle", o, ch) /\ ServicesBehind(ch, sn, f)
      /\ SlicesBehind(ch, sn)
    BY DEF Story, Floor
<1>3. Floor(vs, "idle", o) = f /\ Floor(vs, p, q) = q
    BY DEF Floor
<1>4. \A i \in 1 .. Len(vs) : Before(f, vs[i])
  <2>1. Floor(vs, "idle", o).exists
      BY <1>3
  <2>2. \A i \in 1 .. Len(vs) : Before(Floor(vs, "idle", o), vs[i])
      BY <1>2, <2>1, FloorFirst
  <2> QED BY <1>3, <2>2
<1>5. \A i \in 1 .. Len(vs) : vs[i].exists => Sound(vs[i].status.conds, f, Newest(vs), ch)
    BY <1>2, <1>3, Zenon DEF Claims
<1>6. Sound(f.status.conds, f, Newest(vs), ch)
    BY <1>1, <1>5
<1> HIDE DEF f
<1>7. SameObject(q, f)
    BY DEF f
<1>8. Lineage(vs, p, q)
    BY <1>2, <1>4, <1>7, SameFloor DEF Lineage
<1>9. Sound(q.status.conds, f, Newest(vs), ch)
  <2>1. CASE q.status.conds["Ready"] = [status |-> "False", gen |-> q.gen]
      BY <2>1 DEF Sound
  <2>2. CASE \A t \in Grounds \cup {"Ready"} : q.status.conds[t] = f.status.conds[t]
      BY <1>6, <2>2 DEF Sound
  <2> QED BY <2>1, <2>2 DEF f
<1>10. Claims(vs, p, q, ch)
  <2>1. /\ Sound(q.status.conds, q, Newest(vs), ch)
        /\ \A i \in 1 .. Len(vs) : vs[i].exists => Sound(vs[i].status.conds, q, Newest(vs), ch)
      BY <1>5, <1>7, <1>9, SameFloor
  <2> QED BY <1>3, <2>1 DEF Claims
<1>11. ServicesBehind(ch, sn, Floor(vs, p, q))
    BY <1>2, <1>3, <1>7, SameFloor
<1> QED
    BY <1>2, <1>8, <1>10, <1>11
    DEF Story, Progress, FromDiscover, Written, AfterService

\* Reconcile goes on with its copy.
LEMMA StoryContinued ==
    ASSUME ForwardUsers, NEW vs, NEW p, NEW o, NEW ch, NEW sn, Typed(vs, p, o, ch, sn),
           Story(vs, p, o, ch, sn), p # "idle", o.uid = Newest(vs).uid,
           NEW p2, p2 # "idle", NEW q \in Obj, SameObject(q, o),
           Progress(p2, q), Written(p2, q, ch),
           p2 = "patchStatus" => p \in {"mirrorStatus", "probe"} /\ Finished(q)
    PROVE  Story(vs, p2, q, ch, sn)
<1> DEFINE s == Newest(vs)
<1>1. /\ Lineage(vs, p, o) /\ Claims(vs, p, o, ch) /\ ServicesBehind(ch, sn, o)
      /\ SlicesBehind(ch, sn) /\ Written(p, o, ch)
    BY DEF Story, Floor
<1>2. Floor(vs, p, o) = o /\ Floor(vs, p2, q) = q /\ o \in Obj /\ o.exists
    BY DEF Floor, Typed
<1>3. Lineage(vs, p2, q)
    BY <1>1, SameFloor DEF Lineage
<1>4. Before(q, s)
    BY <1>1, <1>2, FloorFirst, SameFloor
<1>5. \A i \in 1 .. Len(vs) : vs[i].exists => Sound(vs[i].status.conds, q, s, ch)
  <2>1. \A i \in 1 .. Len(vs) : vs[i].exists => Sound(vs[i].status.conds, o, s, ch)
      BY <1>1, <1>2, Zenon DEF Claims
  <2> QED BY <2>1, SameFloor
<1>6. ServicesBehind(ch, sn, q)
    BY <1>1, SameFloor
<1>7. ASSUME p2 = "patchStatus" PROVE Sound(q.status.conds, q, s, ch)
  <2>1. ServiceIn(ch, o) /\ SliceIn(ch, o)
      BY <1>1, <1>7 DEF Written, AfterService
  <2>2. q.gen = s.gen => ServiceIn(ch, s) /\ SliceIn(ch, s)
    <3>1. q.gen = s.gen => o.spec = s.spec
        BY <1>4 DEF Before, SameObject
    <3> QED BY <2>1, <3>1 DEF ServiceIn, SliceIn
  <2>3. q.status.conds["Ready"].gen = q.gen /\ Explained(q) /\ q.exists
      BY <1>2, <1>7 DEF Finished, SameObject
  <2>4. q.gen \in Nat /\ q.gen <= q.gen
      BY ObjType
  <2> QED BY <2>2, <2>3, <2>4 DEF Sound, Explained
<1>8. Claims(vs, p2, q, ch)
    BY <1>2, <1>5, <1>7 DEF Claims
<1> QED BY <1>1, <1>2, <1>3, <1>6, <1>8 DEF Story

-----------------------------------------------------------------------------
(* What each change of the generated objects makes of it.                  *)

\* Owner and port of the exposure's Services and EndpointSlices stay as they are, and
\* there are no new ones.
Keeps(ch, dh) ==
    \A key \in Keys :
        (key[1] \in {"Service", "EndpointSlice"} /\ (Ours(ch[key]) \/ Ours(dh[key])))
        => dh[key].owner = ch[key].owner /\ dh[key].port = ch[key].port

LEMMA InPlaceKept ==
    ASSUME NEW ch, NEW dh, Keeps(ch, dh), NEW o \in Obj, o.exists
    PROVE  /\ ServiceIn(ch, o) => ServiceIn(dh, o)
           /\ SliceIn(ch, o) => SliceIn(dh, o)
<1>1. o.uid \in Nat /\ o.spec \in Specs
    BY ObjType, ExposureBoundAssumption
<1>2. /\ service(o.spec) \in Keys /\ service(o.spec)[1] = "Service"
      /\ endpointSlice(o.spec) \in Keys /\ endpointSlice(o.spec)[1] = "EndpointSlice"
    BY <1>1, ServiceKeys
<1>3. ServiceIn(ch, o) => ServiceIn(dh, o)
    BY <1>1, <1>2 DEF ServiceIn, Keeps, Ours
<1>4. SliceIn(ch, o) => SliceIn(dh, o)
    BY <1>1, <1>2 DEF SliceIn, Keeps, Ours
<1> QED BY <1>3, <1>4

LEMMA StoryKept ==
    ASSUME NEW vs, NEW p, NEW o, NEW ch, NEW sn, Typed(vs, p, o, ch, sn),
           Story(vs, p, o, ch, sn), Newest(vs).exists, NEW dh, Keeps(ch, dh)
    PROVE  Story(vs, p, o, dh, sn)
<1> DEFINE s == Newest(vs)
           f == Floor(vs, p, o)
<1>1. s \in Obj /\ o \in Obj /\ (p # "idle" => o.exists)
    BY Ends DEF Typed, Newest
<1>2. /\ Lineage(vs, p, o) /\ Claims(vs, p, o, ch) /\ Progress(p, o) /\ Written(p, o, ch)
      /\ ServicesBehind(ch, sn, f) /\ SlicesBehind(ch, sn)
    BY DEF Story
<1>3. \A c, g : Sound(c, g, s, ch) => Sound(c, g, s, dh)
    BY <1>1, InPlaceKept DEF Sound
<1>4. Claims(vs, p, o, dh)
  <2>1. /\ \A i \in 1 .. Len(vs) : vs[i].exists => Sound(vs[i].status.conds, f, s, ch)
        /\ p = "patchStatus" => Sound(o.status.conds, o, s, ch)
      BY <1>2, Zenon DEF Claims
  <2> HIDE DEF f, s
  <2>2. /\ \A i \in 1 .. Len(vs) : vs[i].exists => Sound(vs[i].status.conds, f, s, dh)
        /\ p = "patchStatus" => Sound(o.status.conds, o, s, dh)
      BY <1>3, <2>1
  <2> QED BY <2>2, Zenon DEF Claims, f, s
<1>5. Written(p, o, dh)
  <2>1. p \in AfterService => o.exists
      BY <1>1 DEF AfterService
  <2> QED BY <1>1, <1>2, <2>1, InPlaceKept DEF Written
<1>6. ServicesBehind(dh, sn, f)
  <2> SUFFICES ASSUME NEW key \in Keys, key[1] = "Service"
               PROVE  /\ Ours(dh[key]) =>
                            f.exists /\ Rank[<<key[2], dh[key].port>>] <= Rank[Place(f.spec)]
                      /\ Ours(sn[key]) =>
                            /\ Ours(dh[key])
                            /\ Rank[<<key[2], sn[key].port>>] <= Rank[<<key[2], dh[key].port>>]
      BY Zenon DEF ServicesBehind
  <2>1. (Ours(ch[key]) \/ Ours(dh[key]))
        => dh[key].owner = ch[key].owner /\ dh[key].port = ch[key].port
      BY DEF Keeps
  <2>2. Ours(ch[key]) <=> Ours(dh[key])
      BY <2>1 DEF Ours
  <2>3. /\ Ours(ch[key]) =>
              f.exists /\ Rank[<<key[2], ch[key].port>>] <= Rank[Place(f.spec)]
        /\ Ours(sn[key]) =>
              /\ Ours(ch[key])
              /\ Rank[<<key[2], sn[key].port>>] <= Rank[<<key[2], ch[key].port>>]
      BY <1>2, Zenon DEF ServicesBehind
  <2> QED BY <2>1, <2>2, <2>3, Zenon
<1>7. SlicesBehind(dh, sn)
    BY <1>2 DEF SlicesBehind, Keeps, Ours
<1> HIDE DEF f
<1> QED BY <1>2, <1>4, <1>5, <1>6, <1>7 DEF Story, f

\* The Service of the copy is written.
LEMMA StoryServiceWritten ==
    ASSUME ForwardUsers, NEW vs, NEW o, NEW ch, NEW sn, Typed(vs, "service", o, ch, sn),
           Story(vs, "service", o, ch, sn), Newest(vs).exists, o.uid = Newest(vs).uid,
           NEW c, c.owner = o.uid, c.port = o.spec.port,
           NEW dh, dh = [ch EXCEPT ![service(o.spec)] = c]
    PROVE  Story(vs, "service", o, dh, sn) /\ ServiceIn(dh, o)
<1> DEFINE s == Newest(vs)
           k == service(o.spec)
<1>1. /\ s \in Obj /\ o \in Obj /\ o.exists /\ ch \in [Keys -> Children]
      /\ sn \in [Keys -> Children]
    BY Ends DEF Typed, Newest
<1>2. /\ Lineage(vs, "service", o) /\ Claims(vs, "service", o, ch) /\ Progress("service", o)
      /\ ServicesBehind(ch, sn, o) /\ SlicesBehind(ch, sn)
    BY DEF Story, Floor
<1>3. /\ o.spec \in Specs /\ o.uid \in Nat /\ s.spec \in Specs /\ o.gen \in Nat /\ s.gen \in Nat
    BY <1>1, ObjType, ExposureBoundAssumption
<1>4. /\ k \in Keys /\ k[1] = "Service" /\ k[2] = o.spec.service
      /\ endpointSlice(s.spec) # k /\ endpointSlice(s.spec) \in Keys
    BY <1>3, ServiceKeys
<1>5. dh[k] = c /\ \A key \in Keys : key # k => dh[key] = ch[key]
    BY <1>1, <1>4
<1>6. ServiceIn(dh, o)
    BY <1>5 DEF ServiceIn
<1>7. Before(o, s)
  <2>1. Floor(vs, "service", o) = o
      BY DEF Floor
  <2>2. Before(Floor(vs, "service", o), Newest(vs))
      BY <1>1, <1>2, <2>1, FloorFirst
  <2> QED BY <2>1, <2>2
<1>8. ASSUME NEW d \in Conditions, Sound(d, o, s, ch) PROVE Sound(d, o, s, dh)
  <2>1. d["Ready"].gen \in Nat
      BY ConditionType DEF ExposureConditions
  <2> SUFFICES ASSUME d["Ready"].status = "True", d["Ready"].gen = s.gen
               PROVE  ServiceIn(dh, s) /\ SliceIn(dh, s)
      BY <1>8 DEF Sound
  <2>2. o.spec = s.spec
      BY <1>3, <1>7, <1>8, <2>1 DEF Sound, Before
  <2>3. ServiceIn(dh, s)
      BY <1>6, <2>2 DEF ServiceIn
  <2>4. SliceIn(dh, s)
      BY <1>4, <1>5, <1>8 DEF Sound, SliceIn
  <2> QED BY <2>3, <2>4
<1>9. Claims(vs, "service", o, dh)
  <2>1. \A i \in 1 .. Len(vs) : vs[i].exists => Sound(vs[i].status.conds, o, s, ch)
      BY <1>2 DEF Claims, Floor
  <2>2. \A i \in 1 .. Len(vs) : vs[i].status.conds \in Conditions
      BY Ends, ObjType DEF Typed
  <2>3. \A i \in 1 .. Len(vs) : vs[i].exists => Sound(vs[i].status.conds, o, s, dh)
      BY <1>8, <2>1, <2>2
  <2> QED BY <2>3 DEF Claims, Floor
<1>10. ServicesBehind(dh, sn, o)
  <2>1. ASSUME NEW key \in Keys, key[1] = "Service", key # k
        PROVE  /\ Ours(dh[key]) =>
                     o.exists /\ Rank[<<key[2], dh[key].port>>] <= Rank[Place(o.spec)]
               /\ Ours(sn[key]) =>
                     /\ Ours(dh[key])
                     /\ Rank[<<key[2], sn[key].port>>] <= Rank[<<key[2], dh[key].port>>]
      BY <1>2, <1>5, <2>1, Zenon DEF ServicesBehind
  <2>2. /\ <<k[2], dh[k].port>> = Place(o.spec)
        /\ Ours(dh[k])
        /\ Rank[Place(o.spec)] \in Nat
      BY <1>3, <1>4, <1>5, RankType DEF Place, Ours
  <2>3. Rank[Place(o.spec)] <= Rank[Place(o.spec)]
      BY <2>2
  <2>4. ASSUME Ours(sn[k]) PROVE Rank[<<k[2], sn[k].port>>] <= Rank[Place(o.spec)]
    <3> DEFINE a == Rank[<<k[2], sn[k].port>>]
               b == Rank[<<k[2], ch[k].port>>]
    <3>1. Ours(ch[k]) /\ a <= b
        BY <1>2, <1>4, <2>4, Zenon DEF ServicesBehind
    <3>2. b <= Rank[Place(o.spec)]
        BY <1>2, <1>4, <3>1, Zenon DEF ServicesBehind
    <3>3. a \in Nat /\ b \in Nat
        BY <1>1, <1>4, ServiceKeys, RankType DEF Children
    <3> HIDE DEF a, b
    <3>4. a <= Rank[Place(o.spec)]
        BY <2>2, <3>1, <3>2, <3>3
    <3> QED BY <3>4 DEF a
  <2> QED BY <1>1, <2>1, <2>2, <2>3, <2>4, Zenon DEF ServicesBehind
<1>11. SlicesBehind(dh, sn)
    BY <1>2, <1>4, <1>5 DEF SlicesBehind
<1>12. Written("service", o, dh)
    BY DEF Written, AfterService
<1> QED BY <1>2, <1>6, <1>9, <1>10, <1>11, <1>12 DEF Story, Floor

\* The cached Service looks as wanted: then the real one is as wanted.
LEMMA ServiceThere ==
    ASSUME ForwardUsers, NEW vs, NEW o, NEW ch, NEW sn, Typed(vs, "service", o, ch, sn),
           Story(vs, "service", o, ch, sn),
           sn[service(o.spec)].owner = o.uid, sn[service(o.spec)].port = o.spec.port,
           \A key \in Keys : Ours(ch[key]) => ch[key].owner = o.uid
    PROVE  ServiceIn(ch, o)
<1> DEFINE k == service(o.spec)
           a == Rank[<<k[2], sn[k].port>>]
           b == Rank[<<k[2], ch[k].port>>]
<1>1. o \in Obj /\ o.exists /\ ch \in [Keys -> Children] /\ sn \in [Keys -> Children]
    BY DEF Typed
<1>2. o.spec \in Specs /\ o.uid \in Nat
    BY <1>1, ObjType, ExposureBoundAssumption
<1>3. k \in Keys /\ k[1] = "Service" /\ k[2] = o.spec.service /\ k[2] \in Names
    BY <1>2, ServiceKeys
<1>4. ServicesBehind(ch, sn, o)
    BY DEF Story, Floor
<1>5. Ours(sn[k])
    BY <1>2 DEF Ours
<1>6. Ours(ch[k]) /\ a <= b
    BY <1>3, <1>4, <1>5, Zenon DEF ServicesBehind
<1>7. b <= Rank[Place(o.spec)]
    BY <1>3, <1>4, <1>6, Zenon DEF ServicesBehind
<1>8. a = Rank[Place(o.spec)]
    BY <1>3 DEF Place
<1>9. a \in Nat /\ b \in Nat /\ sn[k].port \in Nat /\ ch[k].port \in Nat
    BY <1>1, <1>3, RankType DEF Children
<1>10. a = b
  <2> HIDE DEF a, b
  <2> QED BY <1>6, <1>7, <1>8, <1>9
<1>11. sn[k].port = ch[k].port
    BY <1>3, <1>9, <1>10, RankType
<1>12. ch[k].owner = o.uid
    BY <1>3, <1>6
<1> QED BY <1>11, <1>12 DEF ServiceIn

\* The EndpointSlice of the copy is written.
LEMMA StorySliceWritten ==
    ASSUME NEW vs, NEW o, NEW ch, NEW sn, Typed(vs, "endpointSlice", o, ch, sn),
           Story(vs, "endpointSlice", o, ch, sn), Newest(vs).exists, o.uid = Newest(vs).uid,
           NEW c, c.owner = o.uid,
           NEW dh, dh = [ch EXCEPT ![endpointSlice(o.spec)] = c]
    PROVE  Story(vs, "endpointSlice", o, dh, sn) /\ SliceIn(dh, o)
<1> DEFINE s == Newest(vs)
           k == endpointSlice(o.spec)
<1>1. /\ s \in Obj /\ o \in Obj /\ o.exists /\ ch \in [Keys -> Children]
    BY Ends DEF Typed, Newest
<1>2. /\ Lineage(vs, "endpointSlice", o) /\ Claims(vs, "endpointSlice", o, ch)
      /\ Progress("endpointSlice", o) /\ Written("endpointSlice", o, ch)
      /\ ServicesBehind(ch, sn, o) /\ SlicesBehind(ch, sn)
    BY DEF Story, Floor
<1>3. o.spec \in Specs /\ o.uid \in Nat /\ s.spec \in Specs
    BY <1>1, ObjType, ExposureBoundAssumption
<1>4. /\ k \in Keys /\ k[1] = "EndpointSlice"
      /\ service(s.spec) # k /\ service(s.spec) \in Keys
      /\ service(o.spec) # k /\ service(o.spec) \in Keys
      /\ endpointSlice(s.spec) \in Keys
    BY <1>3, ServiceKeys
<1>5. dh[k] = c /\ \A key \in Keys : key # k => dh[key] = ch[key]
    BY <1>1, <1>4
<1>6. SliceIn(dh, o)
    BY <1>5 DEF SliceIn
<1>7. \A d, g : Sound(d, g, s, ch) => Sound(d, g, s, dh)
  <2>1. ServiceIn(ch, s) => ServiceIn(dh, s)
      BY <1>4, <1>5 DEF ServiceIn
  <2>2. SliceIn(ch, s) => SliceIn(dh, s)
      BY <1>4, <1>5 DEF SliceIn
  <2> QED BY <2>1, <2>2 DEF Sound
<1>8. Claims(vs, "endpointSlice", o, dh)
  <2>1. \A i \in 1 .. Len(vs) : vs[i].exists => Sound(vs[i].status.conds, o, s, ch)
      BY <1>2 DEF Claims, Floor
  <2>2. \A i \in 1 .. Len(vs) : vs[i].exists => Sound(vs[i].status.conds, o, s, dh)
      BY <1>7, <2>1
  <2> QED BY <2>2 DEF Claims, Floor
<1>9. Written("endpointSlice", o, dh)
    BY <1>2, <1>4, <1>5 DEF Written, AfterService, ServiceIn
<1>10. \A key \in Keys : key[1] = "Service" => dh[key] = ch[key]
    BY <1>4, <1>5
<1>11. ServicesBehind(dh, sn, o)
    BY <1>2, <1>10, Zenon DEF ServicesBehind
<1>12. SlicesBehind(dh, sn)
    BY <1>2, <1>3, <1>5 DEF SlicesBehind, Ours
<1> QED BY <1>2, <1>6, <1>8, <1>9, <1>11, <1>12 DEF Story, Floor

\* The cached EndpointSlice looks as wanted: then it is the exposure's.
LEMMA SliceThere ==
    ASSUME NEW vs, NEW o, NEW ch, NEW sn, Typed(vs, "endpointSlice", o, ch, sn),
           Story(vs, "endpointSlice", o, ch, sn),
           sn[endpointSlice(o.spec)].owner = o.uid,
           \A key \in Keys : Ours(ch[key]) => ch[key].owner = o.uid
    PROVE  SliceIn(ch, o)
<1>1. o \in Obj /\ o.exists
    BY DEF Typed
<1>2. o.spec \in Specs /\ o.uid \in Nat
    BY <1>1, ObjType, ExposureBoundAssumption
<1>3. endpointSlice(o.spec) \in Keys /\ endpointSlice(o.spec)[1] = "EndpointSlice"
    BY <1>2, ServiceKeys
<1> QED BY <1>2, <1>3 DEF Story, SlicesBehind, Ours, SliceIn

-----------------------------------------------------------------------------
(* Every step keeps the invariant.                                         *)

LEMMA OwnersStep ==
    ASSUME TypeOK, OwnersKnown, [Next]_vars
    PROVE  OwnersKnown'
<1>0. /\ children \in [Keys -> Children] /\ seen \in [Keys -> Children]
      /\ lives \in Nat /\ lives' \in Nat /\ lives <= lives'
      /\ own \in Obj /\ own.uid \in Nat /\ cached \in Obj /\ cached.uid <= lives
      /\ cached.uid \in Nat
  <2>1. lives \in Nat /\ own \in Obj /\ cached \in Obj /\ cached.uid <= lives
      BY VersionsType, ExposureBoundAssumption DEF TypeOK, Obj, Known
  <2>2. own.uid \in Nat /\ cached.uid \in Nat
      BY <2>1, ObjType, ExposureBoundAssumption
  <2>3. UNCHANGED lives \/ lives' = lives + 1
    <3>1. CASE Environment
        BY <3>1, EnvironmentWrites DEF EnvironmentWrite
    <3>2. CASE Reconcile
        BY <3>2, ReconcileWrites
    <3> QED
        BY <3>1, <3>2
        DEF Next, Manager, Deliver, TimerFires, Resync, Crash, DeliverChild, GarbageCollect,
            Others, vars
  <2> QED BY <2>1, <2>2, <2>3 DEF TypeOK
<1>1. own'.uid <= lives'
  <2>1. CASE UNCHANGED own
      BY <1>0, <2>1 DEF OwnersKnown
  <2>2. CASE own' = NoObject
      BY <1>0, <2>2, NoObjectType
  <2>3. CASE Reconcile
    <3>1. CASE Start
        BY <1>0, <2>1, <3>1, StartOwn DEF SameObject
    <3>2. CASE ~Start
        BY <1>0, <2>2, <2>3, <3>2, LaterSteps DEF SameObject, OwnersKnown
    <3> QED BY <3>1, <3>2
  <2> QED
      BY <2>1, <2>2, <2>3, Around DEF Next, Crash, DeliverChild, GarbageCollect, Others, vars
<1> DEFINE Fine(c) == Ours(c) => c.owner <= lives'
<1>2. \A key \in Keys : Fine(children[key]) /\ Fine(seen[key])
  <2>1. \A key \in Keys : /\ Ours(children[key]) => children[key].owner <= lives
                          /\ Ours(seen[key]) => seen[key].owner <= lives
      BY DEF OwnersKnown
  <2>2. \A c : Ours(c) /\ c.owner <= lives => c.owner <= lives'
      BY <1>0 DEF Ours
  <2> QED BY <2>1, <2>2
<1>3. Fine(NoChild) /\ \A owner \in {Nobody, Other} : Fine(Foreign(owner))
    BY OwnerTypes DEF NoChild, Foreign, Ours
<1>4. \A key \in Keys : Fine(children'[key])
  <2>1. CASE UNCHANGED children
      BY <1>2, <2>1
  <2>2. ASSUME NEW k \in Keys, NEW c, Fine(c), children' = [children EXCEPT ![k] = c]
        PROVE  \A key \in Keys : Fine(children'[key])
    <3> HIDE DEF Fine
    <3> QED BY <1>0, <1>2, <2>2
  <2>3. CASE GarbageCollect
    <3>1. \A key \in Keys : children'[key] \in {NoChild, children[key]}
        BY <2>3 DEF GarbageCollect
    <3> QED BY <1>2, <1>3, <3>1
  <2>4. CASE Others
    <3> HIDE DEF Fine
    <3> QED BY <1>3, <2>2, <2>4 DEF Others, DeleteChild, TakeName
  <2>5. CASE Reconcile
    <3>1. \A c : c.owner = own.uid => Fine(c)
        BY <1>0, <2>5, ReconcileWrites DEF OwnersKnown
    <3>2. pc # "idle" => Fine(wantedService) /\ Fine(wantedEndpointSlice)
                         /\ Fine(wantedIngress) /\ Fine(wantedMirror)
        BY <3>1, WantedTypes
    <3>3. ASSUME NEW key \in Keys, NEW r \in BOOLEAN,
                 children'[key] = [children[key] EXCEPT !.ready = r]
          PROVE  Fine(children'[key])
      <4>1. children'[key].owner = children[key].owner
          BY <1>0, <3>3 DEF Children
      <4> QED BY <1>2, <4>1 DEF Ours
    <3>4. CASE pc = "mirrorStatus" /\ WriteMirrorStatus
      <4> HIDE DEF Fine
      <4> QED BY <1>2, <3>3, <3>4, MirrorStatusWritten
    <3> HIDE DEF Fine
    <3>5. CASE pc = "ingress" /\ RemoveIngress
        BY <1>3, <2>2, <3>5, OwnType DEF RemoveIngress
    <3> QED BY <2>1, <2>2, <2>5, <3>2, <3>4, <3>5, ReconcileChildren, OwnType DEF Writes
  <2> QED BY <2>1, <2>3, <2>4, <2>5 DEF Next, DeliverChild, vars
<1>5. \A key \in Keys : Fine(seen'[key])
  <2>1. CASE UNCHANGED seen
      BY <1>2, <2>1
  <2>2. CASE seen' = children
      BY <1>2, <2>2
  <2>3. ASSUME NEW key \in Keys, DeliverChild(key) PROVE \A k \in Keys : Fine(seen'[k])
    <3> HIDE DEF Fine
    <3> QED BY <1>0, <1>2, <2>3 DEF DeliverChild
  <2>4. CASE Reconcile
      BY <2>1, <2>4, ReconcileRest
  <2> QED BY <2>1, <2>2, <2>3, <2>4 DEF Next, GarbageCollect, Others, vars
<1> QED BY <1>1, <1>4, <1>5 DEF OwnersKnown

\* With one creation there is one owner.
LEMMA OneLife ==
    ASSUME TypeOK, OwnersKnown, lives = 1
    PROVE  /\ Typed(versions, pc, own, children, seen)
           /\ server = Newest(versions)
           /\ cached = Head(versions)
           /\ server \in Obj
           /\ server.exists => server.uid = 1
           /\ pc # "idle" => own.uid = 1
           /\ \A key \in Keys : Ours(children[key]) => children[key].owner = 1
<1>1. Typed(versions, pc, own, children, seen)
    BY VersionsType DEF TypeOK, Typed, Obj
<1>2. server \in Obj /\ server.uid <= 1 /\ server = Newest(versions) /\ cached = Head(versions)
    BY VersionsType DEF Known, server, Newest, cached
<1>3. server.exists => server.uid = 1
    BY <1>2, ObjType, ExposureBoundAssumption
<1>4. pc # "idle" => own.uid = 1
    BY OwnType, ObjType, ExposureBoundAssumption DEF OwnersKnown
<1>5. ASSUME NEW key \in Keys, Ours(children[key]) PROVE children[key].owner = 1
  <2>1. children[key].owner \in Owners
      BY DEF TypeOK, Children
  <2>2. children[key].owner \in 1 .. MaxLives
      BY <1>5, <2>1, OwnerTypes DEF Owners, Ours
  <2> QED BY <1>5, <2>2, ExposureBoundAssumption DEF OwnersKnown
<1> QED BY <1>1, <1>2, <1>3, <1>4, <1>5

\* Neither the garbage collector nor anybody else takes what the exposure owns.
LEMMA OthersKeep ==
    ASSUME ForwardUsers, TypeOK, OwnersKnown, lives = 1, server.exists,
           GarbageCollect \/ Others
    PROVE  Keeps(children, children')
<1>0. /\ children \in [Keys -> Children]
      /\ server.uid = 1
      /\ \A key \in Keys : Ours(children[key]) => children[key].owner = 1
    BY OneLife DEF TypeOK
<1>1. CASE GarbageCollect
  <2>1. \A key \in Keys : ~Orphaned(children[key])
      BY <1>0 DEF Orphaned
  <2> QED BY <1>1, <2>1 DEF GarbageCollect
<1>2. ASSUME NEW k \in Keys, NEW c, ~Ours(c), ~Ours(children[k]),
             children' = [children EXCEPT ![k] = c]
      PROVE  Keeps(children, children')
    BY <1>0, <1>2 DEF Keeps
<1>3. /\ ~Ours(NoChild)
      /\ ~Ours(Foreign(Nobody))
      /\ ~Ours(Foreign(Other))
    BY OwnerTypes DEF NoChild, Foreign, Ours
<1>4. ASSUME NEW k \in Keys, DeleteChild(k) PROVE Keeps(children, children')
  <2>1. children[k] \in {Foreign(Nobody), Foreign(Other)}
      BY <1>4 DEF DeleteChild, Disturb, ForwardUsers
  <2> QED BY <1>2, <1>3, <1>4, <2>1 DEF DeleteChild
<1>5. ASSUME NEW k \in Keys, NEW owner \in {Nobody, Other}, TakeName(k, owner)
      PROVE  Keeps(children, children')
    BY <1>2, <1>3, <1>5 DEF TakeName
<1> QED BY <1>1, <1>4, <1>5 DEF Others

\* What a step of Reconcile does to the generated objects.
LEMMA ReconcileStory ==
    ASSUME ForwardUsers, TypeOK, OwnersKnown, lives = 1, server.exists, Reconcile,
           Story(versions, pc, own, children, seen)
    PROVE  Story(versions, pc, own, children', seen)
<1>0. /\ Typed(versions, pc, own, children, seen)
      /\ children \in [Keys -> Children]
      /\ Newest(versions).exists
      /\ pc # "idle" => own.uid = Newest(versions).uid
    BY OneLife DEF Typed
<1>1. CASE UNCHANGED children
    BY <1>1
<1>2. CASE pc = "service" /\ Writes(service(own.spec), wantedService)
  <2>1. wantedService.owner = own.uid /\ wantedService.port = own.spec.port
      BY <1>2, WantedTypes
  <2>2. /\ Typed(versions, "service", own, children, seen)
        /\ Story(versions, "service", own, children, seen)
      BY <1>0, <1>2
  <2>3. children' = [children EXCEPT ![service(own.spec)] = wantedService]
      BY <1>2 DEF Writes
  <2>4. Story(versions, "service", own, children', seen)
      BY <1>0, <1>2, <2>1, <2>2, <2>3, StoryServiceWritten
  <2> QED BY <1>2, <2>4
<1>3. CASE pc = "endpointSlice" /\ Writes(endpointSlice(own.spec), wantedEndpointSlice)
  <2>1. wantedEndpointSlice.owner = own.uid
      BY <1>3, WantedTypes
  <2>2. /\ Typed(versions, "endpointSlice", own, children, seen)
        /\ Story(versions, "endpointSlice", own, children, seen)
      BY <1>0, <1>3
  <2>3. children' = [children EXCEPT ![endpointSlice(own.spec)] = wantedEndpointSlice]
      BY <1>3 DEF Writes
  <2>4. Story(versions, "endpointSlice", own, children', seen)
      BY <1>0, <1>3, <2>1, <2>2, <2>3, StorySliceWritten
  <2> QED BY <1>3, <2>4
<1>4. ASSUME NEW k \in Keys, k[1] \in {"Ingress", "K1sAppMirror"}, NEW c,
             children' = [children EXCEPT ![k] = c]
      PROVE  Story(versions, pc, own, children', seen)
  <2>1. Keeps(children, children')
      BY <1>0, <1>4 DEF Keeps
  <2> QED BY <1>0, <2>1, StoryKept
<1>5. CASE \/ pc = "ingress" /\ (Writes(ingress(own.spec), wantedIngress) \/ RemoveIngress)
           \/ pc = "mirror" /\ Writes(mirror, wantedMirror)
  <2>1. own.spec \in Specs
      BY <1>5, OwnType
  <2>2. /\ ingress(own.spec) \in Keys /\ ingress(own.spec)[1] = "Ingress"
        /\ mirror \in Keys /\ mirror[1] = "K1sAppMirror"
      BY <2>1, KeyTypes
  <2> QED BY <1>4, <1>5, <2>2 DEF Writes, RemoveIngress
<1>6. CASE pc = "mirrorStatus" /\ WriteMirrorStatus
  <2>1. \A key \in Keys : /\ children'[key].owner = children[key].owner
                          /\ children'[key].port = children[key].port
      BY <1>0, <1>6, MirrorStatusWritten DEF Children
  <2>2. Keeps(children, children')
      BY <2>1 DEF Keeps
  <2> QED BY <1>0, <2>2, StoryKept
<1> QED BY <1>1, <1>2, <1>3, <1>5, <1>6, ReconcileChildren

\* The Service and the EndpointSlice are in place once their steps are done.
LEMMA StepsWritten ==
    ASSUME ForwardUsers, TypeOK, OwnersKnown, lives = 1, server.exists,
           Story(versions, pc, own, children, seen)
    PROVE  /\ ReconcileService => ServiceIn(children', own)
           /\ ReconcileEndpointSlice => SliceIn(children', own)
<1>0. /\ Typed(versions, pc, own, children, seen)
      /\ children \in [Keys -> Children]
      /\ pc # "idle" => \A key \in Keys : Ours(children[key]) => children[key].owner = own.uid
    BY OneLife DEF Typed
<1>1. ASSUME ReconcileService PROVE ServiceIn(children', own)
  <2> DEFINE k == service(own.spec)
  <2>1. pc = "service" /\ k \in Keys /\ CreateOrUpdate(k, wantedService)
      BY <1>1, OwnType DEF ReconcileService
  <2>2. wantedService.owner = own.uid /\ wantedService.port = own.spec.port
      BY <2>1, WantedTypes
  <2>3. CASE children' = [children EXCEPT ![k] = wantedService]
      BY <1>0, <2>1, <2>2, <2>3 DEF ServiceIn
  <2>4. CASE UNCHANGED children /\ seen[k] = wantedService
    <3>1. /\ Typed(versions, "service", own, children, seen)
          /\ Story(versions, "service", own, children, seen)
        BY <1>0, <2>1
    <3>2. ServiceIn(children, own)
        BY <1>0, <2>1, <2>2, <2>4, <3>1, ServiceThere
    <3> QED BY <2>4, <3>2
  <2> QED BY <2>1, <2>3, <2>4 DEF CreateOrUpdate
<1>2. ASSUME ReconcileEndpointSlice PROVE SliceIn(children', own)
  <2> DEFINE k == endpointSlice(own.spec)
  <2>1. pc = "endpointSlice" /\ k \in Keys /\ CreateOrUpdate(k, wantedEndpointSlice)
      BY <1>2, OwnType DEF ReconcileEndpointSlice
  <2>2. wantedEndpointSlice.owner = own.uid
      BY <2>1, WantedTypes
  <2>3. CASE children' = [children EXCEPT ![k] = wantedEndpointSlice]
      BY <1>0, <2>1, <2>2, <2>3 DEF SliceIn
  <2>4. CASE UNCHANGED children /\ seen[k] = wantedEndpointSlice
    <3>1. /\ Typed(versions, "endpointSlice", own, children, seen)
          /\ Story(versions, "endpointSlice", own, children, seen)
        BY <1>0, <2>1
    <3>2. SliceIn(children, own)
        BY <1>0, <2>1, <2>2, <2>4, <3>1, SliceThere
    <3> QED BY <2>4, <3>2
  <2> QED BY <2>1, <2>3, <2>4 DEF CreateOrUpdate
<1> QED BY <1>1, <1>2

\* What the patch of the status stores is a successor with known conditions.
LEMMA ReconcileStores ==
    ASSUME TypeOK, Reconcile
    PROVE  \/ UNCHANGED versions /\ server' = server
           \/ /\ pc = "patchStatus" /\ server.exists
              /\ \E n \in Obj :
                    /\ versions' = Append(versions, n)
                    /\ server' = n
                    /\ Successor(server, n)
                    /\ n.status.conds \in {server.status.conds, own.status.conds}
<1>1. CASE UNCHANGED versions
    BY <1>1 DEF server
<1>2. CASE pc = "patchStatus" /\ server.exists /\ StoreStatus
  <2>1. PICK n \in Obj :
            /\ Store(n) \/ StoreIfChanged(n)
            /\ n.exists = server.exists
            /\ n.uid = server.uid
            /\ n.gen = server.gen
            /\ n.spec = server.spec
            /\ n.status.conds \in {server.status.conds, own.status.conds}
      BY <1>2, StatusStored
  <2>2. Successor(server, n)
      BY <1>2, <2>1 DEF Successor
  <2>3. CASE Store(n)
    <3>1. versions' = Append(versions, n)
        BY <2>3 DEF Store
    <3>2. server' = n
        BY <3>1, VersionsType DEF server
    <3> QED BY <1>2, <2>1, <2>2, <3>1, <3>2
  <2> QED BY <1>1, <2>1, <2>3 DEF StoreIfChanged
<1> QED BY <1>1, <1>2, ReconcileWrites

LEMMA ReconcileExposed ==
    ASSUME ForwardUsers, TypeOK, OwnersKnown, ExposedInvariant, Reconcile
    PROVE  ExposedInvariant'
<1> SUFFICES ASSUME lives' = 1, server'.exists
             PROVE  Story(versions', pc', own', children', seen')
    BY DEF ExposedInvariant
<1>1. lives = 1 /\ server.exists /\ seen' = seen
    BY ReconcileWrites, ReconcileStores, ReconcileRest
<1>2. Story(versions, pc, own, children, seen)
    BY <1>1 DEF ExposedInvariant
<1>3. /\ Typed(versions, pc, own, children, seen)
      /\ server = Newest(versions)
      /\ cached = Head(versions)
      /\ pc # "idle" => own.uid = Newest(versions).uid
    BY <1>1, OneLife
<1>4. Story(versions, pc, own, children', seen) /\ Typed(versions, pc, own, children', seen)
    BY <1>1, <1>2, <1>3, ReconcileStory, ReconcileChildrenType DEF Typed
<1>5. CASE Start
  <2>1. UNCHANGED <<versions, children>> /\ pc = "idle"
      BY <1>5 DEF Start, Local
  <2>2. Story(versions, "idle", own, children, seen) /\ Typed(versions, "idle", own, children, seen)
      BY <1>2, <1>3, <2>1
  <2>3. CASE pc' = "idle" /\ UNCHANGED <<own, ret>>
      BY <1>1, <2>1, <2>2, <2>3
  <2>4. CASE /\ pc' \in {"appStatus", "patchStatus"}
             /\ own' \in Obj
             /\ cached.exists
             /\ SameObject(own', cached)
             /\ \/ own'.status.conds["Ready"] = [status |-> "False", gen |-> own'.gen]
                \/ \A t \in Grounds \cup {"Ready"} :
                      own'.status.conds[t] = cached.status.conds[t]
    <3>1. Story(versions, pc', own', children, seen)
        BY <1>3, <2>2, <2>4, StoryBegun
    <3> QED BY <1>1, <2>1, <3>1
  <2> QED BY <1>5, <2>3, <2>4, StartOwn
<1>6. CASE ~Start /\ pc' = "idle"
  <2>1. CASE UNCHANGED versions
    <3>1. Story(versions, "idle", own', children', seen)
        BY <1>4, StoryReturned
    <3> QED BY <1>1, <1>6, <2>1, <3>1
  <2>2. CASE pc = "patchStatus" /\ ~UNCHANGED versions
    <3>1. PICK n \in Obj :
              /\ versions' = Append(versions, n)
              /\ Successor(server, n)
              /\ n.status.conds \in {server.status.conds, own.status.conds}
        BY <2>2, ReconcileStores
    <3>2. Story(versions', pc, own, children', seen)
        BY <1>1, <1>3, <1>4, <2>2, <3>1, StoryStored
    <3>3. Typed(versions', pc, own, children', seen)
      <4>1. versions' \in Seq(Obj) /\ versions' # <<>>
          BY <1>4, <3>1, Stored DEF Typed
      <4> QED BY <1>4, <4>1 DEF Typed
    <3>4. Story(versions', "idle", own', children', seen)
        BY <3>2, <3>3, StoryReturned
    <3> QED BY <1>1, <1>6, <3>4
  <2> QED BY <2>1, <2>2, ReconcileStores
<1>7. CASE ~Start /\ pc' # "idle"
  <2>1. /\ pc # "idle"
        /\ own' \in Obj
        /\ SameObject(own', own)
        /\ Progress(pc, own) => /\ Progress(pc', own')
                                /\ pc' = "patchStatus" => Finished(own')
        /\ \/ pc = "appStatus" /\ pc' = "discover"
           \/ pc = "discover" /\ pc' = "service"
           \/ pc = "service" /\ pc' = "endpointSlice" /\ ReconcileService
           \/ pc = "endpointSlice" /\ pc' = "ingress" /\ ReconcileEndpointSlice
           \/ pc = "ingress" /\ pc' = "mirror"
           \/ pc = "mirror" /\ pc' = "mirrorStatus"
           \/ pc = "mirrorStatus" /\ pc' \in {"probe", "patchStatus"}
           \/ pc = "probe" /\ pc' = "patchStatus"
      BY <1>7, LaterSteps
  <2>2. UNCHANGED versions
      BY <2>1, ReconcileWrites
  <2>3. Progress(pc, own) /\ Written(pc, own, children')
      BY <1>4 DEF Story
  <2>4. /\ ReconcileService => ServiceIn(children', own)
        /\ ReconcileEndpointSlice => SliceIn(children', own)
      BY <1>1, <1>2, StepsWritten
  <2>5. Written(pc', own, children')
      BY <2>1, <2>3, <2>4 DEF Written, AfterService
  <2>6. Written(pc', own', children')
      BY <2>1, <2>5 DEF Written, ServiceIn, SliceIn, SameObject
  <2>7. pc' = "patchStatus" => pc \in {"mirrorStatus", "probe"} /\ Finished(own')
      BY <2>1, <2>3
  <2>8. Story(versions, pc', own', children', seen)
      BY <1>3, <1>4, <1>7, <2>1, <2>3, <2>6, <2>7, StoryContinued
  <2> QED BY <1>1, <2>2, <2>8
<1> QED BY <1>5, <1>6, <1>7

LEMMA EnvironmentExposed ==
    ASSUME ForwardUsers, TypeOK, OwnersKnown, ExposedInvariant, Environment,
           UNCHANGED <<children, seen, traffic>>
    PROVE  ExposedInvariant'
<1> SUFFICES ASSUME lives' = 1, server'.exists
             PROVE  Story(versions', pc', own', children', seen')
    BY DEF ExposedInvariant
<1>1. UNCHANGED <<pc, own>>
    BY Around
<1>2. CASE UNCHANGED <<versions, lives>>
    BY <1>1, <1>2 DEF ExposedInvariant, server
<1>3. ASSUME NEW o \in Obj, EnvironmentWrite(o), Touched(o), UNCHANGED lives
      PROVE  Story(versions', pc', own', children', seen')
  <2>1. server.exists /\ Story(versions, pc, own, children, seen)
      BY <1>3 DEF Touched, ExposedInvariant
  <2>2. Typed(versions, pc, own, children, seen) /\ server = Newest(versions) /\ server \in Obj
      BY <1>3, OneLife
  <2>3. Successor(server, o)
    <3>1. server.spec \in Specs /\ o.spec \in Specs
        BY <1>3, <2>1, <2>2, ObjType DEF Touched
    <3>2. Rank[Place(server.spec)] \in Nat
        BY <3>1, RankType
    <3>3. o.gen = server.gen + 1 => Rank[Place(server.spec)] <= Rank[Place(o.spec)]
      <4>1. CASE o.spec = server.spec
          BY <3>2, <4>1
      <4>2. CASE <<server.spec, o.spec>> \in Edits
          BY <3>1, <4>2, RankType
      <4>3. CASE o.gen = server.gen
          BY <2>2, <4>3, ObjType
      <4> QED BY <1>3, <4>1, <4>2, <4>3 DEF Touched
    <3> QED BY <1>3, <3>3 DEF Touched, Successor
  <2>4. versions' = Append(versions, o) /\ o.status = server.status
      BY <1>3 DEF EnvironmentWrite, Store, Touched
  <2>5. Story(versions', pc, own, children, seen)
      BY <2>1, <2>2, <2>3, <2>4, StoryStored
  <2> QED BY <1>1, <2>5
<1>4. ASSUME NEW o \in Obj, EnvironmentWrite(o), Born(o), lives' = lives + 1
      PROVE  Story(versions', pc', own', children', seen')
  <2>1. lives = 0
      BY <1>4, ExposureBoundAssumption DEF TypeOK
  <2>2. /\ versions \in Seq(Obj) /\ versions # <<>>
        /\ Len(versions) \in Nat \ {0}
        /\ \A i \in 1 .. Len(versions) : versions[i] \in Obj /\ ~versions[i].exists
    <3>1. \A i \in 1 .. Len(versions) : versions[i] \in Obj /\ versions[i].uid <= 0
        BY <2>1, VersionsType DEF Known
    <3> QED BY <3>1, VersionsType, ObjType, ExposureBoundAssumption
  <2>3. pc = "idle"
      BY <2>1, OwnType, ObjType, ExposureBoundAssumption DEF OwnersKnown
  <2>4. \A key \in Keys : ~Ours(children[key]) /\ ~Ours(seen[key])
    <3>1. \A c \in Children : Ours(c) => c.owner \in 1 .. MaxLives
        BY OwnerTypes DEF Children, Owners, Ours
    <3>2. \A key \in Keys : children[key] \in Children /\ seen[key] \in Children
        BY DEF TypeOK
    <3> QED BY <2>1, <3>1, <3>2, ExposureBoundAssumption DEF OwnersKnown
  <2>5. /\ versions' = Append(versions, o) /\ o.exists
        /\ o.status.conds["Ready"].status # "True"
    <3>1. PICK s \in Specs : o = NewObject(s, 1)
        BY <1>4, <2>1 DEF Born
    <3>2. 1 \in 1 .. MaxLives
        BY <1>4, <2>1, ExposureBoundAssumption DEF EnvironmentWrite, TypeOK
    <3>3. o.exists /\ o.status = NoStatus
        BY <3>1, <3>2, NewObjectType
    <3>4. NoStatus.conds["Ready"].status = "Unknown"
        BY DEF NoStatus, NoCondition, ExposureConditions
    <3> QED BY <1>4, <3>3, <3>4 DEF EnvironmentWrite, Store
  <2>6. /\ Len(versions') = Len(versions) + 1
        /\ \A i \in 1 .. Len(versions) : versions'[i] = versions[i]
        /\ versions'[Len(versions')] = o
      BY <2>2, <2>5, Stored
  <2>7. \A i \in 1 .. Len(versions') : i \in 1 .. Len(versions) \/ i = Len(versions')
      BY <2>2, <2>6
  <2>8. Ordered(versions', Later)
    <3>1. Ordered(versions, Later) /\ \A i \in 1 .. Len(versions) : <<versions[i], o>> \in Later
        BY <2>2 DEF Ordered, Later
    <3> QED BY <2>2, <2>5, <3>1, OrderedStored
  <2>9. Claims(versions', "idle", own, children)
    <3>1. \A i \in 1 .. Len(versions') :
              versions'[i].exists => versions'[i].status.conds["Ready"].status # "True"
        BY <2>2, <2>5, <2>6, <2>7
    <3> QED BY <3>1 DEF Claims, Sound
  <2>10. Lineage(versions', "idle", own)
      BY <2>8 DEF Lineage
  <2>11. Story(versions', "idle", own, children, seen)
      BY <2>4, <2>9, <2>10
      DEF Story, Progress, FromDiscover, Written, AfterService, ServicesBehind, SlicesBehind
  <2> QED BY <1>1, <2>3, <2>11
<1>5. ASSUME NEW o \in Obj, EnvironmentWrite(o), Gone(o) PROVE FALSE
    BY <1>5, EnvironmentWriteType, NoObjectType DEF Gone
<1> QED BY <1>2, <1>3, <1>4, <1>5, EnvironmentWrites DEF EnvironmentWrite

LEMMA RestExposed ==
    ASSUME ForwardUsers, TypeOK, OwnersKnown, ExposedInvariant,
           \/ Manager /\ UNCHANGED <<children, seen, traffic>>
           \/ Crash /\ seen' = children /\ traffic' = {} /\ UNCHANGED children
           \/ \E key \in Keys : DeliverChild(key)
           \/ GarbageCollect
           \/ Others
           \/ UNCHANGED vars
    PROVE  ExposedInvariant'
<1> SUFFICES ASSUME lives' = 1, server'.exists
             PROVE  Story(versions', pc', own', children', seen')
    BY DEF ExposedInvariant
<1>1. lives = 1 /\ server' = server
    BY DeliverType, RestartType
    DEF Manager, Deliver, TimerFires, Resync, Crash, DeliverChild, GarbageCollect, Others,
        vars, server
<1>2. Story(versions, pc, own, children, seen)
    BY <1>1 DEF ExposedInvariant
<1>3. Typed(versions, pc, own, children, seen) /\ server = Newest(versions)
    BY <1>1, OneLife
<1>4. CASE Deliver /\ UNCHANGED <<children, seen, traffic>>
  <2>1. PICK k \in 2 .. Len(versions) : versions' = SubSeq(versions, k, Len(versions))
      BY <1>4 DEF Deliver
  <2>2. Story(versions', pc, own, children, seen)
      BY <1>2, <1>3, <2>1, StoryDelivered
  <2> QED BY <1>4, <2>2 DEF Deliver
<1>5. CASE Crash /\ seen' = children /\ traffic' = {} /\ UNCHANGED children
  <2>1. versions' = <<Newest(versions)>> /\ pc' = "idle"
      BY <1>3, <1>5 DEF Crash
  <2>2. Story(versions', "idle", own', children, children)
      BY <1>2, <1>3, <2>1, StoryRestarted
  <2> QED BY <1>5, <2>1, <2>2
<1>6. ASSUME NEW k \in Keys, DeliverChild(k)
      PROVE  Story(versions', pc', own', children', seen')
  <2> DEFINE f == Floor(versions, pc, own)
  <2>0. children \in [Keys -> Children] /\ seen \in [Keys -> Children]
      BY DEF TypeOK
  <2>1. /\ UNCHANGED <<versions, pc, own, children>>
        /\ seen'[k] = children[k]
        /\ \A key \in Keys : key # k => seen'[key] = seen[key]
      BY <1>6, <2>0 DEF DeliverChild
  <2>2. SlicesBehind(children, seen) /\ ServicesBehind(children, seen, f)
      BY <1>2 DEF Story
  <2>3. SlicesBehind(children, seen')
      BY <2>1, <2>2 DEF SlicesBehind
  <2>4. k[1] = "Service"
        => Rank[<<k[2], children[k].port>>] <= Rank[<<k[2], children[k].port>>]
    <3>1. k[1] = "Service" => Rank[<<k[2], children[k].port>>] \in Nat
        BY <2>0, ServiceKeys, RankType DEF Children
    <3> QED BY <3>1
  <2>5. ServicesBehind(children, seen', f)
      BY <2>1, <2>2, <2>4, Zenon DEF ServicesBehind
  <2>6. Story(versions, pc, own, children, seen')
      BY <1>2, <2>3, <2>5, Zenon DEF Story
  <2> QED BY <2>1, <2>6
<1>7. CASE GarbageCollect \/ Others
  <2>1. Keeps(children, children')
      BY <1>1, <1>7, OthersKeep
  <2>2. Story(versions, pc, own, children', seen)
      BY <1>1, <1>2, <1>3, <2>1, StoryKept
  <2> QED BY <1>7, <2>2 DEF GarbageCollect, Others
<1>8. CASE UNCHANGED <<versions, pc, own, children, seen>>
    BY <1>2, <1>8
<1> QED
    BY <1>4, <1>5, <1>6, <1>7, <1>8 DEF Manager, TimerFires, Resync, vars

\* The inductive invariant behind the next theorem.
THEOREM ExposedInvariantHolds ==
    ASSUME ForwardUsers
    PROVE  Spec => [](OwnersKnown /\ ExposedInvariant)
<1>1. Init => OwnersKnown /\ ExposedInvariant
    BY NoObjectType, OwnerTypes
    DEF Init, ControllerInit, OwnersKnown, ExposedInvariant, NoChild, Ours
<1>2. TypeOK /\ OwnersKnown /\ ExposedInvariant /\ [Next]_vars
      => OwnersKnown' /\ ExposedInvariant'
    BY OwnersStep, ReconcileExposed, EnvironmentExposed, RestExposed DEF Next
<1> QED BY <1>1, <1>2, ExposureTypeCorrect, PTL DEF Spec

\* Ready=True for the current generation means that the Service and the EndpointSlice
\* of the spec are in place and the exposure's own, and that app and proxy were found
\* for this generation: for any number of edits that go forward, failures, restarts,
\* lost answers and names taken by others, and however old the caches are.
THEOREM ReadyIsExposed ==
    ASSUME ForwardUsers
    PROVE  Spec => []ReadyMeansExposed
<1>1. TypeOK /\ OwnersKnown /\ ExposedInvariant => ReadyMeansExposed
  <2> SUFFICES ASSUME TypeOK, OwnersKnown, ExposedInvariant, lives = 1, server.exists,
                      ReadyNow(server)
               PROVE  /\ Exposed(server)
                      /\ \A t \in Grounds :
                            server.status.conds[t] = [status |-> "True", gen |-> server.gen]
      BY DEF ReadyMeansExposed
  <2>1. Claims(versions, pc, own, children)
      BY DEF ExposedInvariant, Story
  <2>2. server = Newest(versions) /\ server = versions[Len(versions)]
        /\ Len(versions) \in 1 .. Len(versions)
      BY VersionsType DEF server, Newest
  <2>3. Sound(server.status.conds, Floor(versions, pc, own), server, children)
      BY <2>1, <2>2 DEF Claims
  <2>4. /\ server.status.conds["Ready"].status = "True"
        /\ server.status.conds["Ready"].gen = server.gen
      BY DEF ReadyNow
  <2> QED BY <2>3, <2>4 DEF Sound, ServiceIn, SliceIn, Exposed
<1> QED BY <1>1, ExposedInvariantHolds, ExposureTypeCorrect, PTL
=============================================================================
