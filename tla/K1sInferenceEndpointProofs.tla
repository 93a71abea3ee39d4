--------------------- MODULE K1sInferenceEndpointProofs ---------------------
(***************************************************************************)
(* Proofs about K1sInferenceEndpoint, for every value of its constants.    *)
(***************************************************************************)
EXTENDS K1sInferenceEndpoint, VersionLemmas, TLAPS

Obj == K1sInferenceEndpointObject

-----------------------------------------------------------------------------
(* The objects and statuses the steps build.                               *)

\* Every spec is well formed.
LEMMA SpecType ==
    ASSUME NEW o \in Obj, o.exists
    PROVE  /\ o.spec \in Specs
           /\ o.spec.cellSet \in BOOLEAN
           /\ o.spec.rev \in DOMAIN Normal
    BY SpecAssumption DEF Obj, K1sInferenceEndpointObject, K1sInferenceEndpointSpec

\* The fields of an object.
LEMMA ObjType ==
    ASSUME NEW o \in Obj
    PROVE  /\ o.exists \in BOOLEAN
           /\ o.deleting \in BOOLEAN
           /\ o.gen \in Nat
           /\ o.fin \in SUBSET Finalizers
           /\ o.status \in K1sInferenceEndpointStatus
    BY DEF Obj, K1sInferenceEndpointObject, K1sInferenceEndpointRecord

LEMMA NoObjectType ==
    /\ NoObject \in Obj
    /\ ~NoObject.exists
    /\ NoObject.fin = {}
    BY DEF NoObject, Obj, K1sInferenceEndpointObject, K1sInferenceEndpointRecord, NoStatus,
           K1sInferenceEndpointStatus, Hashes, NoCondition, ConditionStatus, ConditionTypes, Conditions,
           Finalizers

LEMMA NewObjectType ==
    ASSUME NEW s \in Specs
    PROVE  NewObject(s) \in Obj /\ NewObject(s).fin = {}
    BY NoObjectType DEF NewObject, Obj, K1sInferenceEndpointObject, K1sInferenceEndpointRecord

\* Giving an object another status changes nothing else about it.
LEMMA WithStatus ==
    ASSUME NEW o \in Obj, NEW s \in K1sInferenceEndpointStatus
    PROVE  /\ [o EXCEPT !.status = s] \in Obj
           /\ [o EXCEPT !.status = s].exists = o.exists
           /\ [o EXCEPT !.status = s].gen = o.gen
           /\ [o EXCEPT !.status = s].hash = o.hash
           /\ [o EXCEPT !.status = s].deleting = o.deleting
           /\ [o EXCEPT !.status = s].fin = o.fin
           /\ [o EXCEPT !.status = s].spec = o.spec
           /\ [o EXCEPT !.status = s].status = s
    BY DEF Obj, K1sInferenceEndpointObject, K1sInferenceEndpointRecord

LEMMA SetConditionType ==
    ASSUME NEW conds \in Conditions, NEW t \in ConditionTypes,
           NEW s \in ConditionStatus, NEW g \in Nat
    PROVE  setCondition(conds, t, s, g) \in Conditions
    BY DEF setCondition, Conditions

\* Several conditions at once.
LEMMA SetConditionsType ==
    ASSUME NEW conds \in Conditions, NEW values, NEW g \in Nat,
           \A t \in DOMAIN values : values[t] \in ConditionStatus
    PROVE  setConditions(conds, values, g) \in Conditions
    BY DEF setConditions, Conditions

\* The statuses Reconcile computes.
LEMMA ComputedStatus ==
    ASSUME NEW o \in Obj, o.exists
    PROVE  /\ credentialsMissing(o) \in K1sInferenceEndpointStatus
           /\ [deleteFailed(o) EXCEPT !.lastError = TRUE] \in K1sInferenceEndpointStatus
           /\ \A ok, ready, error \in BOOLEAN :
                 reconciled(o, ok, ready, error) \in K1sInferenceEndpointStatus
<1>1. /\ o.status \in K1sInferenceEndpointStatus
      /\ o.status.conds \in Conditions
      /\ o.gen \in Nat
      /\ o.spec.cellSet \in BOOLEAN
    BY ObjType, SpecType DEF K1sInferenceEndpointStatus
<1>2. {"CredentialsValid", "Applied"} \subseteq ConditionTypes /\ "False" \in ConditionStatus
    BY DEF ConditionTypes, ConditionStatus
<1>3. credentialsMissing(o) \in K1sInferenceEndpointStatus
    BY <1>1, <1>2, SetConditionType DEF credentialsMissing, K1sInferenceEndpointStatus
<1>4. [deleteFailed(o) EXCEPT !.lastError = TRUE] \in K1sInferenceEndpointStatus
    BY <1>1, <1>2, SetConditionType DEF deleteFailed, K1sInferenceEndpointStatus
<1>5. ASSUME NEW ok \in BOOLEAN, NEW ready \in BOOLEAN, NEW error \in BOOLEAN
      PROVE  reconciled(o, ok, ready, error) \in K1sInferenceEndpointStatus
  <2> DEFINE values == [Accepted |-> "True", Applied |-> conditionStatus(ok),
                        Ready |-> conditionStatus(ready)]
  <2>1. \A t \in DOMAIN values : values[t] \in ConditionStatus
      BY DEF conditionStatus, ConditionStatus
  <2> HIDE DEF values
  <2>2. setConditions(o.status.conds, values, o.gen) \in Conditions
      BY <1>1, <2>1, SetConditionsType
  <2>3. [o.status EXCEPT
            !.observedGeneration = o.gen,
            !.ready = ready,
            !.cellName = ~o.spec.cellSet,
            !.cellSetName = o.spec.cellSet,
            !.lastError = error,
            !.conds = setConditions(@, values, o.gen)] \in K1sInferenceEndpointStatus
      BY <1>1, <2>2 DEF K1sInferenceEndpointStatus
  <2> QED BY <2>3, Zenon DEF reconciled, values
<1> QED BY <1>3, <1>4, <1>5

\* A status patch mixes the fields of three statuses.
LEMMA PatchStatusType ==
    ASSUME NEW s \in K1sInferenceEndpointStatus, NEW c \in K1sInferenceEndpointStatus,
           NEW want \in K1sInferenceEndpointStatus, NEW resent \in BOOLEAN
    PROVE  patchStatus(s, c, want, resent) \in K1sInferenceEndpointStatus
<1> DEFINE p == patchStatus(s, c, want, resent)
           Fields == {"observedGeneration", "ready", "cellName", "cellSetName", "lastError",
                      "conds"}
<1>1. DOMAIN s = Fields
    BY DEF K1sInferenceEndpointStatus
<1>2. p = [f \in Fields |-> p[f]]
    BY <1>1 DEF patchStatus
<1>3. \A f \in Fields : p[f] \in {s[f], want[f]}
    BY <1>1 DEF patchStatus, mergeField
<1> HIDE DEF p
<1>4. /\ p.observedGeneration \in Nat
      /\ {p.ready, p.cellName, p.cellSetName, p.lastError} \subseteq BOOLEAN
      /\ p.conds \in Conditions
    BY <1>3 DEF K1sInferenceEndpointStatus
<1>5. p \in K1sInferenceEndpointStatus
    BY <1>2, <1>4 DEF K1sInferenceEndpointStatus
<1> QED BY <1>5 DEF p

-----------------------------------------------------------------------------
(* The versions, and what each kind of write stores.                       *)

VersionsOK == versions \in Seq(Obj) /\ Len(versions) \in 1 .. MaxLag + 1

LEMMA VersionsType ==
    ASSUME TypeOK
    PROVE  /\ VersionsOK
           /\ versions # <<>>
           /\ Len(versions) \in Nat \ {0}
           /\ cached = versions[1]
           /\ cached \in Obj
           /\ server \in Obj
           /\ \A i \in 1 .. Len(versions) : versions[i] \in Obj
<1>1. VersionsOK
    BY DEF TypeOK, VersionsOK, Obj
<1>2. Len(versions) \in Nat \ {0} /\ versions # <<>>
    BY <1>1, EndpointBoundAssumption DEF VersionsOK
<1> QED BY <1>1, <1>2, Ends DEF VersionsOK, cached, server

\* A write makes o the object the API server holds.
LEMMA StoreType ==
    ASSUME TypeOK, NEW o \in Obj, Store(o) \/ StoreIfChanged(o)
    PROVE  VersionsOK' /\ server' = o
<1>1. CASE UNCHANGED versions /\ o = server
    BY <1>1, VersionsType DEF VersionsOK, server
<1>2. CASE Store(o)
  <2>1. /\ versions \in Seq(Obj) /\ versions # <<>>
        /\ versions' = Append(versions, o) /\ Len(versions) <= MaxLag
      BY <1>2, VersionsType DEF VersionsOK, Store
  <2>2. /\ versions' \in Seq(Obj)
        /\ Len(versions') = Len(versions) + 1
        /\ versions'[Len(versions')] = o
      BY <2>1, Stored
  <2> QED BY <2>1, <2>2, EndpointBoundAssumption DEF VersionsOK, server
<1> QED BY <1>1, <1>2 DEF StoreIfChanged

LEMMA DeliverType ==
    ASSUME TypeOK, Deliver
    PROVE  VersionsOK' /\ server' = server
<1>1. PICK k \in 2 .. Len(versions) : versions' = SubSeq(versions, k, Len(versions))
    BY DEF Deliver
<1>2. versions \in Seq(Obj) /\ versions # <<>> /\ Len(versions) \in 1 .. MaxLag + 1
    BY VersionsType DEF VersionsOK
<1>3. /\ versions' \in Seq(Obj)
      /\ versions' # <<>>
      /\ Len(versions') < Len(versions)
      /\ versions'[Len(versions')] = versions[Len(versions)]
    BY <1>1, <1>2, Delivered
<1>4. Len(versions') \in 1 .. MaxLag + 1
    BY <1>2, <1>3, Ends, EndpointBoundAssumption
<1> QED BY <1>3, <1>4 DEF VersionsOK, server

LEMMA RestartType ==
    ASSUME TypeOK, Crash
    PROVE  VersionsOK' /\ server' = server /\ Len(versions') = 1
<1>0. /\ versions \in Seq(Obj)
      /\ versions # <<>>
      /\ versions' = <<versions[Len(versions)]>>
    BY VersionsType DEF VersionsOK, Crash, server
<1>1. /\ versions' \in Seq(Obj)
      /\ Len(versions') = 1
      /\ versions'[Len(versions')] = server
    BY <1>0, Restarted DEF server
<1> QED BY <1>1, EndpointBoundAssumption DEF VersionsOK, server

LEMMA FinalizersStored ==
    ASSUME TypeOK
    PROVE  afterFinalizers \in Obj
<1>1. server \in Obj /\ cached \in Obj /\ own.fin \in SUBSET Finalizers
    BY VersionsType DEF TypeOK, K1sInferenceEndpointObject, K1sInferenceEndpointRecord
<1>2. wantedFinalizers \in SUBSET Finalizers
    BY <1>1 DEF wantedFinalizers, Finalizers
<1> QED
    BY <1>1, <1>2, NoObjectType
    DEF afterFinalizers, patchFinalizers, Obj, K1sInferenceEndpointObject, K1sInferenceEndpointRecord

LEMMA HashStored ==
    ASSUME TypeOK, own.exists
    PROVE  LET h == afterHash(manifestHash(own))
           IN  /\ h \in Obj
               /\ h.exists = server.exists
               /\ h.gen = server.gen
               /\ h.deleting = server.deleting
               /\ h.fin = server.fin
               /\ h.spec = server.spec
               /\ h.status = server.status
               /\ h.hash = IF cached.hash = manifestHash(own) THEN server.hash ELSE manifestHash(own)
<1>1. server \in Obj /\ own.spec \in Specs
    BY VersionsType, SpecType DEF TypeOK, Obj
<1>2. manifestHash(own) \in Hashes
    BY <1>1 DEF manifestHash, Hashes
<1> QED
    BY <1>1, <1>2
    DEF afterHash, patchLastAppliedHash, Obj, K1sInferenceEndpointObject, K1sInferenceEndpointRecord

\* The status patch stores the server's object with another status.
LEMMA StatusStored ==
    ASSUME TypeOK, StoreStatus
    PROVE  \E resent \in BOOLEAN, o \in Obj :
               /\ Store(o) \/ StoreIfChanged(o)
               /\ o.exists = server.exists
               /\ o.gen = server.gen
               /\ o.deleting = server.deleting
               /\ o.fin = server.fin
               /\ o.hash = server.hash
               /\ o.spec = server.spec
               /\ o.status = patchStatus(server.status, cached.status, own.status, resent)
<1>1. PICK fresh \in BOOLEAN, resent \in BOOLEAN :
          LET merged == patchStatus(server.status, cached.status, own.status, resent)
              o == [server EXCEPT !.status = merged]
          IN  IF fresh THEN Store(o) ELSE StoreIfChanged(o)
    BY DEF StoreStatus
<1> DEFINE merged == patchStatus(server.status, cached.status, own.status, resent)
           o == [server EXCEPT !.status = merged]
<1>2. /\ server \in Obj
      /\ server.status \in K1sInferenceEndpointStatus
      /\ cached.status \in K1sInferenceEndpointStatus
      /\ own.status \in K1sInferenceEndpointStatus
    BY VersionsType, ObjType DEF TypeOK, Obj
<1>3. merged \in K1sInferenceEndpointStatus
    BY <1>2, PatchStatusType
<1>4. Store(o) \/ StoreIfChanged(o)
    BY <1>1
<1> HIDE DEF merged
<1>5. /\ o \in Obj
      /\ o.exists = server.exists
      /\ o.gen = server.gen
      /\ o.deleting = server.deleting
      /\ o.fin = server.fin
      /\ o.hash = server.hash
      /\ o.spec = server.spec
      /\ o.status = merged
    BY <1>2, <1>3, WithStatus
<1> QED BY <1>4, <1>5 DEF merged

LEMMA EditStored ==
    ASSUME NEW o \in Obj, o.exists, NEW s \in Specs
    PROVE  LET e == [o EXCEPT !.spec = s, !.gen = @ + 1]
           IN  /\ e \in Obj
               /\ e.exists
               /\ e.gen = o.gen + 1
               /\ e.fin = o.fin
               /\ e.deleting = o.deleting
               /\ e.hash = o.hash
               /\ e.spec = s
               /\ e.status = o.status
<1> DEFINE g == o.gen + 1
<1>1. g \in Nat
    BY ObjType
<1> HIDE DEF g
<1>2. LET e == [o EXCEPT !.spec = s, !.gen = g]
      IN  /\ e \in Obj
          /\ e.exists
          /\ e.gen = g
          /\ e.fin = o.fin
          /\ e.deleting = o.deleting
          /\ e.hash = o.hash
          /\ e.spec = s
          /\ e.status = o.status
    BY <1>1 DEF Obj, K1sInferenceEndpointObject, K1sInferenceEndpointRecord
<1> QED BY <1>2, Zenon DEF g

LEMMA DeleteStored ==
    ASSUME NEW o \in Obj, o.exists
    PROVE  LET d == deleteObject(o, NoObject)
           IN  /\ d \in Obj
               /\ o.fin = {} => d = NoObject
               /\ o.fin # {} => /\ d.exists
                                /\ d.gen = o.gen + 1
                                /\ d.deleting
                                /\ d.fin = o.fin
                                /\ d.hash = o.hash
                                /\ d.spec = o.spec
                                /\ d.status = o.status
<1>1. CASE o.fin = {}
    BY <1>1, NoObjectType DEF deleteObject
<1>2. CASE o.fin # {}
  <2> DEFINE g == o.gen + 1
  <2>1. g \in Nat
      BY ObjType
  <2> HIDE DEF g
  <2>2. LET d == [o EXCEPT !.deleting = TRUE, !.gen = g]
        IN  /\ d \in Obj
            /\ d.exists
            /\ d.gen = g
            /\ d.deleting
            /\ d.fin = o.fin
            /\ d.hash = o.hash
            /\ d.spec = o.spec
            /\ d.status = o.status
      BY <2>1 DEF Obj, K1sInferenceEndpointObject, K1sInferenceEndpointRecord
  <2> QED BY <1>2, <2>2, Zenon DEF deleteObject, g
<1> QED BY <1>1, <1>2

LEMMA ForeignStored ==
    ASSUME NEW o \in Obj, o.exists
    PROVE  LET a == [o EXCEPT !.fin = @ \cup {foreignFinalizer}]
           IN  /\ a \in Obj
               /\ a.exists
               /\ a.gen = o.gen
               /\ a.deleting = o.deleting
               /\ a.hash = o.hash
               /\ a.spec = o.spec
               /\ a.status = o.status
               /\ containsCapability(a) <=> containsCapability(o)
    BY DEF containsCapability, capabilityFinalizer, foreignFinalizer, Finalizers, Obj,
           K1sInferenceEndpointObject, K1sInferenceEndpointRecord

LEMMA ReleaseStored ==
    ASSUME NEW o \in Obj, o.exists
    PROVE  LET r == releaseForeign(o, NoObject)
           IN  /\ r \in Obj
               /\ Guarded(r) <=> Guarded(o)
               /\ r.exists => /\ r.gen = o.gen
                              /\ r.deleting = o.deleting
                              /\ r.hash = o.hash
                              /\ r.spec = o.spec
                              /\ r.status = o.status
    BY NoObjectType
    DEF releaseForeign, containsCapability, Guarded, capabilityFinalizer,
        foreignFinalizer, Finalizers, Obj, K1sInferenceEndpointObject, K1sInferenceEndpointRecord

-----------------------------------------------------------------------------
(* Type correctness.                                                       *)

LocalsOK ==
    /\ pc \in Steps
    /\ own \in Obj
    /\ pc # "idle" => own.exists
    /\ ret \in {"done", "poll", "error"}

\* k1s runs no more cells than were asked for.
RemoteOK(k) ==
    /\ k \in [Kinds -> Deployments \cup {NoManifest}]
    /\ \A kind \in Kinds : k[kind] # NoManifest => k[kind].up <= Cells(kind)

LEMMA TypeParts ==
    TypeOK <=> /\ VersionsOK
               /\ LocalsOK
               /\ RemoteOK(k1s)
               /\ credsOK \in BOOLEAN
               /\ queue \in BOOLEAN
               /\ timer \in BOOLEAN
               /\ removed \in BOOLEAN
               /\ faults \in 0 .. MaxFaults
               /\ lives \in 0 .. MaxLives
    BY DEF TypeOK, VersionsOK, LocalsOK, RemoteOK, Obj

LEMMA TypePartsAfter ==
    ASSUME VersionsOK', LocalsOK', RemoteOK(k1s'),
           credsOK' \in BOOLEAN, queue' \in BOOLEAN, timer' \in BOOLEAN,
           removed' \in BOOLEAN, faults' \in 0 .. MaxFaults, lives' \in 0 .. MaxLives
    PROVE  TypeOK'
    BY DEF TypeOK, VersionsOK, LocalsOK, RemoteOK, Obj

LEMMA InitType == Init => TypeOK
<1> SUFFICES ASSUME Init PROVE TypeOK
    OBVIOUS
<1>1. versions = <<NoObject>> /\ NoObject \in Obj
    BY NoObjectType DEF Init, ControllerInit
<1>2. VersionsOK
    BY <1>1, EndpointBoundAssumption DEF VersionsOK
<1>3. LocalsOK
    BY NoObjectType DEF Init, ControllerInit, LocalsOK, Steps
<1>4. faults \in 0 .. MaxFaults /\ lives \in 0 .. MaxLives
    BY EndpointBoundAssumption DEF Init, ControllerInit
<1>5. RemoteOK(k1s)
    BY DEF Init, RemoteOK
<1>6. /\ credsOK \in BOOLEAN
      /\ queue \in BOOLEAN
      /\ timer \in BOOLEAN
      /\ removed \in BOOLEAN
    BY DEF Init, ControllerInit
<1> QED BY <1>2, <1>3, <1>4, <1>5, <1>6, TypeParts

\* Counting a disturbance stays within the bound.
LEMMA DisturbType ==
    ASSUME TypeOK, NEW kind, Disturb(kind)
    PROVE  faults' \in 0 .. MaxFaults
    BY EndpointBoundAssumption DEF TypeOK, Disturb

\* A step that goes on to write a status.
LEMMA WriteStatusType ==
    ASSUME NEW o \in Obj, o.exists, NEW s \in K1sInferenceEndpointStatus,
           NEW r \in {"done", "poll", "error"}, WriteStatus(o, s, r)
    PROVE  LocalsOK'
<1>1. own' \in Obj /\ own'.exists /\ pc' = "patchStatus" /\ ret' = r
    BY WithStatus DEF WriteStatus
<1> QED BY <1>1 DEF LocalsOK, Steps

\* A step that goes on to the next call.
LEMMA GotoType ==
    ASSUME LocalsOK, pc # "idle", NEW step \in Steps, Goto(step)
    PROVE  LocalsOK'
    BY DEF LocalsOK, Goto

LEMMA ReturnType ==
    ASSUME TypeOK, NEW r, Return(r)
    PROVE  LocalsOK' /\ queue' \in BOOLEAN /\ timer' \in BOOLEAN
    BY NoObjectType DEF Return, TypeOK, LocalsOK, Steps

LEMMA StartType ==
    ASSUME TypeOK, Start
    PROVE  LocalsOK'
<1>1. cached \in Obj /\ LocalsOK /\ pc = "idle"
    BY VersionsType, TypeParts DEF Start
<1>2. CASE ReturnAtOnce
    BY <1>1, <1>2 DEF ReturnAtOnce, LocalsOK
<1>3. CASE MissingCredentials
    BY <1>1, <1>3, ComputedStatus, WriteStatusType DEF MissingCredentials
<1>4. CASE BeginDelete
    BY <1>1, <1>4 DEF BeginDelete, Enter, LocalsOK, Steps
<1>5. CASE BeginAddFinalizer
    BY <1>1, <1>5 DEF BeginAddFinalizer, Enter, LocalsOK, Steps
<1>6. CASE BeginApply
    BY <1>1, <1>6 DEF BeginApply, Enter, LocalsOK, Steps
<1> QED BY <1>2, <1>3, <1>4, <1>5, <1>6 DEF Start

\* What Apply and Delete leave running.
LEMMA AppliedType ==
    ASSUME RemoteOK(k1s), NEW s \in Specs
    PROVE  RemoteOK(applied(buildInferenceManifest(s)))
<1>1. /\ kindOf(s) \in Kinds
      /\ Normal[s.rev] \in {Normal[r] : r \in DOMAIN Normal}
    BY SpecAssumption DEF K1sInferenceEndpointSpec, kindOf, Kinds
<1>2. \A kind \in Kinds : Cells(kind) \in Nat
    BY SpecAssumption DEF Cells, MaxNumeral
<1> DEFINE m == buildInferenceManifest(s)
           fresh == [rev |-> m.rev, up |-> 0]
<1>3. m.kind \in Kinds /\ fresh \in Deployments /\ fresh.up = 0
    BY <1>1 DEF buildInferenceManifest, Deployments
<1> HIDE DEF m, fresh
<1>4. \/ applied(m) = k1s
      \/ applied(m) = [k1s EXCEPT ![m.kind] = fresh]
    BY DEF applied, RemoteOK, fresh
<1>5. RemoteOK([k1s EXCEPT ![m.kind] = fresh])
    BY <1>2, <1>3 DEF RemoteOK
<1>6. RemoteOK(applied(m))
    BY <1>4, <1>5
<1> QED BY <1>6 DEF m

LEMMA DeletedType ==
    ASSUME RemoteOK(k1s), NEW kind \in Kinds
    PROVE  RemoteOK([k1s EXCEPT ![kind] = NoManifest])
    BY DEF RemoteOK

\* Every answer that k1s gives is read as ready or not ready.
LEMMA ObservedType ==
    ASSUME LocalsOK, own.exists, applyObservedInferenceStatus
    PROVE  LocalsOK'
<1>1. PICK reply \in inferenceReplies(kindOf(own.spec)) :
          WriteStatus(own, reconciled(own, TRUE, ParseInferenceStatus(reply).ready,
                                      str(reply.last_error) # ""), "poll")
    BY DEF applyObservedInferenceStatus
<1>2. ParseInferenceStatus(reply).ready \in BOOLEAN /\ (str(reply.last_error) # "") \in BOOLEAN
    BY DEF ParseInferenceStatus
<1>3. own \in Obj
    BY DEF LocalsOK
<1> QED BY <1>1, <1>2, <1>3, ComputedStatus, WriteStatusType

LEMMA CallType ==
    ASSUME TypeOK, UNCHANGED removed,
           \/ DeleteInference \/ DeleteInferenceFails \/ CheckStatus
           \/ Apply \/ ApplyFails \/ ReadStatus
    PROVE  TypeOK'
<1>1. LocalsOK /\ own \in Obj /\ own.exists /\ pc # "idle"
    BY TypeParts
    DEF LocalsOK, DeleteInference, DeleteInferenceFails, CheckStatus, Apply, ApplyFails,
        ReadStatus
<1>2. own.spec \in Specs /\ kindOf(own.spec) \in Kinds
    BY <1>1, SpecType DEF kindOf, Kinds
<1>3. UNCHANGED <<versions, credsOK, queue, timer, lives, removed>>
    BY DEF DeleteInference, DeleteInferenceFails, CheckStatus, Apply, ApplyFails, ReadStatus
<1>4. faults' \in 0 .. MaxFaults
    BY DisturbType
    DEF DeleteInference, DeleteInferenceFails, CheckStatus, Apply, ApplyFails, ReadStatus,
        TypeOK
<1>5. RemoteOK(k1s')
  <2>1. RemoteOK(k1s)
      BY TypeParts
  <2>2. \/ k1s' = k1s
        \/ k1s' = [k1s EXCEPT ![kindOf(own.spec)] = NoManifest]
        \/ k1s' = applied(buildInferenceManifest(own.spec))
      BY DEF DeleteInference, DeleteInferenceFails, CheckStatus, Apply, ApplyFails, ReadStatus,
             deleted
  <2> QED BY <1>2, <2>1, <2>2, AppliedType, DeletedType
<1>6. LocalsOK'
  <2>1. {"removeFinalizer", "apply", "readStatus", "patchHash"} \subseteq Steps
      BY DEF Steps
  <2>2. CASE Goto("removeFinalizer") \/ Goto("apply") \/ Goto("readStatus") \/ Goto("patchHash")
      BY <1>1, <2>1, <2>2, GotoType
  <2>3. CASE applyObservedInferenceStatus
      BY <1>1, <2>3, ObservedType
  <2>4. CASE WriteStatus(own, [deleteFailed(own) EXCEPT !.lastError = TRUE], "error")
      BY <1>1, <2>4, ComputedStatus, WriteStatusType
  <2>5. CASE WriteStatus(own, reconciled(own, FALSE, FALSE, TRUE), "poll")
      BY <1>1, <2>5, ComputedStatus, WriteStatusType
  <2>6. CASE WriteStatus(own, reconciled(own, TRUE, FALSE, TRUE), "poll")
      BY <1>1, <2>6, ComputedStatus, WriteStatusType
  <2> QED
      BY <2>2, <2>3, <2>4, <2>5, <2>6
      DEF DeleteInference, DeleteInferenceFails, CheckStatus, Apply, ApplyFails, ReadStatus
<1>7. VersionsOK'
    BY <1>3, TypeParts DEF VersionsOK
<1> QED BY <1>3, <1>4, <1>5, <1>6, <1>7, TypeParts, TypePartsAfter

LEMMA PatchType ==
    ASSUME TypeOK, UNCHANGED removed,
           \/ PatchFinalizers \/ PatchFinalizersFails
           \/ PatchHash \/ PatchHashFails(manifestHash(own))
           \/ PatchStatus \/ PatchStatusFails
    PROVE  TypeOK'
<1>1. LocalsOK /\ own.exists /\ pc # "idle"
    BY TypeParts
    DEF LocalsOK, PatchFinalizers, PatchFinalizersFails, PatchHash, PatchHashFails,
        PatchStatus, PatchStatusFails
<1>2. VersionsOK'
  <2>1. CASE UNCHANGED versions
      BY <2>1, VersionsType DEF VersionsOK
  <2>2. CASE StoreIfChanged(afterFinalizers)
      BY <2>2, FinalizersStored, StoreType
  <2>3. CASE StoreIfChanged(afterHash(manifestHash(own)))
      BY <1>1, <2>3, HashStored, StoreType
  <2>4. CASE StoreStatus
      BY <2>4, StatusStored, StoreType
  <2> QED
      BY <2>1, <2>2, <2>3, <2>4
      DEF PatchFinalizers, PatchFinalizersFails, PatchHash, PatchHashFails, PatchStatus,
          PatchStatusFails
<1>3. faults' \in 0 .. MaxFaults
    BY DisturbType
    DEF PatchFinalizers, PatchFinalizersFails, PatchHash, PatchHashFails, PatchStatus,
        PatchStatusFails, TypeOK
<1>4. UNCHANGED <<k1s, credsOK, lives>>
    BY DEF PatchFinalizers, PatchFinalizersFails, PatchHash, PatchHashFails, PatchStatus,
           PatchStatusFails
<1>5. LocalsOK' /\ queue' \in BOOLEAN /\ timer' \in BOOLEAN
  <2>1. CASE PatchHash
      BY <1>1, <2>1, GotoType, TypeParts DEF PatchHash, Steps
  <2>2. CASE Return("requeue") \/ Return("done") \/ Return("error") \/ Return(ret)
      BY <2>2, ReturnType
  <2> QED
      BY <2>1, <2>2
      DEF PatchFinalizers, PatchFinalizersFails, PatchHashFails, PatchStatus, PatchStatusFails
<1> QED BY <1>2, <1>3, <1>4, <1>5, TypeParts, TypePartsAfter

LEMMA ReconcileType ==
    ASSUME TypeOK, Reconcile, UNCHANGED removed
    PROVE  TypeOK'
<1>1. CASE Start
  <2>1. LocalsOK'
      BY <1>1, StartType
  <2>2. UNCHANGED <<versions, k1s, credsOK, timer, faults, lives>> /\ queue' = FALSE
      BY <1>1 DEF Start
  <2>3. VersionsOK'
      BY <2>2, VersionsType DEF VersionsOK
  <2> QED BY <2>1, <2>2, <2>3, TypeParts, TypePartsAfter
<1> QED BY <1>1, CallType, PatchType DEF Reconcile

LEMMA ManagerType ==
    ASSUME TypeOK, Deliver \/ TimerFires \/ Resync \/ Crash, UNCHANGED removed
    PROVE  TypeOK'
<1>1. CASE Deliver
  <2>1. VersionsOK'
      BY <1>1, DeliverType
  <2>2. LocalsOK'
      BY <1>1, TypeParts DEF Deliver, LocalsOK
  <2> QED BY <1>1, <2>1, <2>2, TypeParts, TypePartsAfter DEF Deliver
<1>2. CASE TimerFires \/ Resync
    BY <1>2 DEF TimerFires, Resync, TypeOK
<1>3. CASE Crash
  <2>1. VersionsOK'
      BY <1>3, RestartType
  <2>2. faults' \in 0 .. MaxFaults
      BY <1>3, DisturbType DEF Crash
  <2>3. LocalsOK'
      BY <1>3, NoObjectType DEF Crash, LocalsOK, Steps
  <2> QED BY <1>3, <2>1, <2>2, <2>3, TypeParts, TypePartsAfter DEF Crash
<1> QED BY <1>1, <1>2, <1>3

\* One more cell comes up.
LEMMA CellStartsType ==
    ASSUME RemoteOK(k1s), NEW kind \in Kinds, CellStarts(kind)
    PROVE  RemoteOK(k1s')
<1>1. /\ k1s[kind] \in Deployments
      /\ k1s[kind].up < Cells(kind)
      /\ k1s' = [k1s EXCEPT ![kind].up = @ + 1]
    BY DEF CellStarts, RemoteOK
<1>2. Cells(kind) \in Nat
    BY SpecAssumption DEF Cells, MaxNumeral
<1> DEFINE n == k1s[kind].up + 1
           d == [k1s[kind] EXCEPT !.up = n]
<1>3. n \in Nat /\ n <= Cells(kind)
    BY <1>1, <1>2 DEF Deployments
<1>4. k1s' = [k1s EXCEPT ![kind] = d]
    BY <1>1
<1> HIDE DEF n
<1>5. d \in Deployments /\ d.up = n
    BY <1>1, <1>3 DEF Deployments
<1> HIDE DEF d
<1> QED BY <1>3, <1>4, <1>5 DEF RemoteOK

LEMMA EnvironmentType ==
    ASSUME TypeOK, UNCHANGED removed, Environment
    PROVE  TypeOK'
<1>0. server \in Obj
    BY VersionsType
<1> USE DEF Environment, Create, CreateObject, Edit, EditObject, Delete, AddForeign,
            RemoveForeign, LoseCredentials, RestoreCredentials
<1>1. LocalsOK' /\ UNCHANGED <<queue, timer>>
  <2>1. UNCHANGED <<pc, own, ret, queue, timer>>
      BY DEF CellStarts
  <2> QED BY <2>1, TypeParts DEF LocalsOK
<1>2. VersionsOK'
  <2>1. ASSUME NEW s \in Specs, Create(s) PROVE VersionsOK'
      BY <2>1, NewObjectType, StoreType
  <2>2. ASSUME NEW s \in Specs, Edit(s) PROVE VersionsOK'
      BY <1>0, <2>2, EditStored, StoreType
  <2>3. CASE Delete
      BY <1>0, <2>3, DeleteStored, StoreType
  <2>4. CASE AddForeign
      BY <1>0, <2>4, ForeignStored, StoreType
  <2>5. CASE RemoveForeign
      BY <1>0, <2>5, ReleaseStored, StoreType
  <2>6. CASE UNCHANGED versions
      BY <2>6, VersionsType DEF VersionsOK
  <2> QED BY <2>1, <2>2, <2>3, <2>4, <2>5, <2>6 DEF CellStarts
<1>3. faults' \in 0 .. MaxFaults
    BY DisturbType DEF CellStarts, TypeOK
<1>4. lives' \in 0 .. MaxLives
  <2>1. lives' = lives \/ (lives' = lives + 1 /\ lives < MaxLives)
      BY DEF CellStarts
  <2>2. lives \in 0 .. MaxLives /\ MaxLives \in Nat
      BY TypeParts, EndpointBoundAssumption
  <2> HIDE DEF Environment
  <2> QED BY <2>1, <2>2
<1>5. credsOK' \in BOOLEAN
    BY DEF CellStarts, TypeOK
<1>6. RemoteOK(k1s')
  <2>1. UNCHANGED k1s \/ \E kind \in Kinds : CellStarts(kind)
      OBVIOUS
  <2> QED BY <2>1, CellStartsType, TypeParts
<1> QED BY <1>1, <1>2, <1>3, <1>4, <1>5, <1>6, TypeParts, TypePartsAfter

LEMMA OutOfBandType ==
    ASSUME TypeOK, NEW kind \in Kinds, OutOfBandDelete(kind), removed' = TRUE
    PROVE  TypeOK'
<1>1. VersionsOK' /\ LocalsOK'
    BY TypeParts DEF OutOfBandDelete, VersionsOK, LocalsOK
<1>2. RemoteOK(k1s') /\ faults' \in 0 .. MaxFaults
    BY DeletedType, DisturbType, TypeParts DEF OutOfBandDelete
<1> QED BY <1>1, <1>2, TypeParts, TypePartsAfter DEF OutOfBandDelete

\* Type correctness: in every behaviour every variable keeps its type, and a cell
\* set never has more cells up than the endpoint asks for.
THEOREM EndpointTypeCorrect == Spec => []TypeOK
<1>1. TypeOK /\ [Next]_vars => TypeOK'
  <2> SUFFICES ASSUME TypeOK, [Next]_vars PROVE TypeOK'
      OBVIOUS
  <2>1. CASE UNCHANGED vars
      BY <2>1 DEF vars, TypeOK
  <2> QED BY <2>1, ReconcileType, ManagerType, EnvironmentType, OutOfBandType DEF Next
<1> QED BY InitType, <1>1, PTL DEF Spec

-----------------------------------------------------------------------------
(* What a step writes.                                                     *)

\* The steps of a deletion.
DeleteSteps == {"deleteInference", "removeFinalizer"}

\* The steps of a reconcile that deploys and observes.
ApplySteps == {"checkStatus", "apply", "patchHash", "readStatus"}

\* The two kinds of write that take the object away or bring it.
Born(o) == ~server.exists /\ \E s \in Specs : o = NewObject(s)

Gone(o) == server.exists /\ o = NoObject

\* Users and other controllers never touch the operator's finalizer, the hash or
\* the status; they move the generation with the spec or the deletion.
Touched(o) ==
    /\ server.exists
    /\ o.exists
    /\ containsCapability(o) <=> containsCapability(server)
    /\ o.hash = server.hash
    /\ o.status = server.status
    /\ \/ /\ o.gen = server.gen
          /\ o.deleting = server.deleting
          /\ o.spec = server.spec
       \/ /\ o.gen = server.gen + 1
          /\ o.deleting = server.deleting
          /\ <<server.spec, o.spec>> \in Edits
       \/ /\ o.gen = server.gen + 1
          /\ o.deleting
          /\ o.spec = server.spec

EnvironmentWrite(o) ==
    /\ Store(o)
    /\ \/ Born(o) /\ lives < MaxLives /\ lives' = lives + 1
       \/ Gone(o) /\ ~containsCapability(server) /\ UNCHANGED lives
       \/ Touched(o) /\ UNCHANGED lives

LEMMA EnvironmentWrites ==
    ASSUME TypeOK, Environment
    PROVE  \/ UNCHANGED versions
           \/ \E o \in Obj : EnvironmentWrite(o)
<1>0. server \in Obj
    BY VersionsType
<1>1. ASSUME NEW s \in Specs, Create(s) PROVE \E o \in Obj : EnvironmentWrite(o)
  <2>1. NewObject(s) \in Obj /\ EnvironmentWrite(NewObject(s))
      BY <1>1, NewObjectType DEF Create, CreateObject, Born, EnvironmentWrite
  <2> QED BY <2>1
<1>2. ASSUME NEW s \in Specs, Edit(s) PROVE \E o \in Obj : EnvironmentWrite(o)
  <2> DEFINE e == [server EXCEPT !.spec = s, !.gen = @ + 1]
  <2>1. /\ server.exists
        /\ Store(e)
        /\ <<server.spec, s>> \in Edits
        /\ UNCHANGED lives
      BY <1>2 DEF Edit, EditObject
  <2>2. /\ e \in Obj
        /\ e.exists
        /\ e.gen = server.gen + 1
        /\ e.fin = server.fin
        /\ e.deleting = server.deleting
        /\ e.hash = server.hash
        /\ e.spec = s
        /\ e.status = server.status
      BY <1>0, <2>1, EditStored
  <2> HIDE DEF e
  <2>3. Touched(e)
      BY <2>1, <2>2 DEF Touched, containsCapability
  <2> QED BY <2>1, <2>2, <2>3 DEF EnvironmentWrite
<1>3. CASE Delete
  <2> DEFINE d == deleteObject(server, NoObject)
  <2>1. server.exists /\ Store(d) /\ UNCHANGED lives
      BY <1>3 DEF Delete
  <2>2. /\ d \in Obj
        /\ server.fin = {} => d = NoObject
        /\ server.fin # {} => /\ d.exists
                              /\ d.gen = server.gen + 1
                              /\ d.deleting
                              /\ d.fin = server.fin
                              /\ d.hash = server.hash
                              /\ d.spec = server.spec
                              /\ d.status = server.status
      BY <1>0, <2>1, DeleteStored
  <2> HIDE DEF d
  <2>3. CASE server.fin = {}
      BY <2>1, <2>2, <2>3 DEF EnvironmentWrite, Gone, containsCapability
  <2>4. CASE server.fin # {}
      BY <2>1, <2>2, <2>4 DEF EnvironmentWrite, Touched, containsCapability
  <2> QED BY <2>3, <2>4
<1>4. CASE AddForeign
  <2> DEFINE a == [server EXCEPT !.fin = @ \cup {foreignFinalizer}]
  <2>1. server.exists /\ Store(a) /\ UNCHANGED lives
      BY <1>4 DEF AddForeign
  <2>2. a \in Obj /\ Touched(a)
      BY <1>0, <2>1, ForeignStored DEF Touched
  <2> QED BY <2>1, <2>2 DEF EnvironmentWrite
<1>5. CASE RemoveForeign
  <2> DEFINE r == releaseForeign(server, NoObject)
  <2>1. server.exists /\ Store(r) /\ UNCHANGED lives
      BY <1>5 DEF RemoveForeign
  <2>2. /\ r \in Obj
        /\ Guarded(r) <=> Guarded(server)
        /\ r.exists => /\ r.gen = server.gen
                       /\ r.deleting = server.deleting
                       /\ r.hash = server.hash
                       /\ r.spec = server.spec
                       /\ r.status = server.status
      BY <1>0, <2>1, ReleaseStored
  <2>3. r = NoObject \/ r.exists
      BY <1>0, <2>1 DEF releaseForeign, Obj, K1sInferenceEndpointObject, K1sInferenceEndpointRecord
  <2> HIDE DEF r
  <2>4. CASE r = NoObject
    <3>1. ~containsCapability(server)
        BY <2>1, <2>2, <2>4, NoObjectType DEF Guarded
    <3> QED BY <2>1, <2>2, <2>4, <3>1 DEF EnvironmentWrite, Gone
  <2>5. CASE r.exists
    <3>1. Touched(r)
        BY <2>1, <2>2, <2>5 DEF Touched, Guarded
    <3> QED BY <2>1, <2>2, <3>1 DEF EnvironmentWrite
  <2> QED BY <2>3, <2>4, <2>5
<1>6. CASE UNCHANGED versions
    BY <1>6
<1> QED
    BY <1>1, <1>2, <1>3, <1>4, <1>5, <1>6
    DEF Environment, LoseCredentials, RestoreCredentials, CellStarts

\* Everything else the environment may change.
LEMMA EnvironmentFrame ==
    ASSUME TypeOK, Environment
    PROVE  /\ UNCHANGED <<pc, own, ret>>
           /\ UNCHANGED k1s \/ (\E kind \in Kinds : CellStarts(kind))
    BY DEF Environment, Create, CreateObject, Edit, EditObject, Delete, AddForeign,
           RemoveForeign, LoseCredentials, RestoreCredentials, CellStarts

\* Reconcile writes three things: the finalizers, the hash and the status.
LEMMA ReconcileWrites ==
    ASSUME TypeOK, Reconcile
    PROVE  \/ UNCHANGED versions
           \/ /\ pc \in {"addFinalizer", "removeFinalizer"}
              /\ patchFinalizersAllowed(server, cached, wantedFinalizers)
              /\ StoreIfChanged(afterFinalizers)
           \/ /\ pc = "patchHash"
              /\ cached.exists /\ server.exists
              /\ StoreIfChanged(afterHash(manifestHash(own)))
           \/ /\ pc = "patchStatus"
              /\ cached.exists /\ server.exists
              /\ StoreStatus
<1>1. CASE Start
    BY <1>1 DEF Start
<1>2. CASE \/ DeleteInference \/ DeleteInferenceFails \/ CheckStatus
           \/ Apply \/ ApplyFails \/ ReadStatus
    BY <1>2 DEF DeleteInference, DeleteInferenceFails, CheckStatus, Apply, ApplyFails,
                ReadStatus
<1>3. CASE PatchFinalizers \/ PatchFinalizersFails
    BY <1>3 DEF PatchFinalizers, PatchFinalizersFails
<1>4. CASE PatchHash \/ PatchHashFails(manifestHash(own))
    BY <1>4 DEF PatchHash, PatchHashFails
<1>5. CASE PatchStatus \/ PatchStatusFails
    BY <1>5 DEF PatchStatus, PatchStatusFails
<1> QED BY <1>1, <1>2, <1>3, <1>4, <1>5 DEF Reconcile

-----------------------------------------------------------------------------
(* The order of the guards.                                                *)

\* As for K1sApp: the versions yet to be seen only gain the guard or only lose it,
\* and Reconcile deletes or deploys on the side that fits.
EndpointGuardOrder ==
    /\ OnlyGained(versions) \/ OnlyLost(versions)
    /\ pc \in DeleteSteps => OnlyLost(versions)
    /\ pc = "addFinalizer" => OnlyGained(versions)
    /\ pc \in ApplySteps => Guarded(server)

\* What the steps of Next do with the order: nothing that a stale copy could not
\* stand.
OrderKept ==
    /\ OnlyGained(versions) => OnlyGained(versions)'
    /\ OnlyLost(versions) => OnlyLost(versions)'

LEMMA SameVersionsOrder ==
    ASSUME UNCHANGED versions
    PROVE  OrderKept /\ server' = server
    BY DEF OrderKept, OnlyGained, OnlyLost, server

LEMMA GuardStored ==
    ASSUME TypeOK, NEW o \in Obj, Store(o) \/ StoreIfChanged(o), SameGuard(server, o)
    PROVE  OrderKept /\ (Guarded(server') <=> Guarded(server))
<1>1. server' = o
    BY StoreType
<1>2. Guarded(server') <=> Guarded(server)
    BY <1>1 DEF SameGuard
<1>3. CASE UNCHANGED versions
    BY <1>2, <1>3, SameVersionsOrder
<1>4. CASE Store(o)
  <2>1. versions \in Seq(Obj) /\ versions # <<>> /\ versions' = Append(versions, o)
      BY <1>4, VersionsType DEF VersionsOK, Store
  <2>2. /\ OnlyGained(versions) => OnlyGained(versions')
        /\ OnlyLost(versions) => OnlyLost(versions')
      BY <2>1, GuardKept DEF server
  <2> QED BY <1>2, <2>2 DEF OrderKept
<1> QED BY <1>3, <1>4 DEF StoreIfChanged

LEMMA EnvironmentOrder ==
    ASSUME TypeOK, Environment
    PROVE  OrderKept /\ (Guarded(server') <=> Guarded(server))
<1>1. CASE UNCHANGED versions
    BY <1>1, SameVersionsOrder
<1>2. ASSUME NEW o \in Obj, EnvironmentWrite(o)
      PROVE  SameGuard(server, o) /\ Store(o)
    BY <1>2, NewObjectType, NoObjectType
    DEF EnvironmentWrite, Born, Gone, Touched, SameGuard, Guarded, containsCapability
<1> QED BY <1>1, <1>2, EnvironmentWrites, GuardStored

\* The patch that adds the finalizer keeps every guard there is.
LEMMA AddKeepsGuard ==
    ASSUME TypeOK, pc = "addFinalizer", Guarded(server)
    PROVE  Guarded(afterFinalizers) /\ afterFinalizers.deleting = server.deleting
<1>1. server \in Obj /\ capabilityFinalizer \in wantedFinalizers
    BY VersionsType DEF wantedFinalizers
<1> QED
    BY <1>1
    DEF afterFinalizers, patchFinalizers, Guarded, containsCapability, Obj,
        K1sInferenceEndpointObject, K1sInferenceEndpointRecord

\* The patch that removes the finalizer adds no guard.
LEMMA RemoveAddsNoGuard ==
    ASSUME TypeOK, pc = "removeFinalizer", Guarded(afterFinalizers)
    PROVE  afterFinalizers = server
<1>1. server \in Obj /\ capabilityFinalizer \notin wantedFinalizers
    BY VersionsType DEF wantedFinalizers
<1> QED
    BY <1>1, NoObjectType
    DEF afterFinalizers, patchFinalizers, Guarded, containsCapability, Obj,
        K1sInferenceEndpointObject, K1sInferenceEndpointRecord

LEMMA FinalizersOrder ==
    ASSUME TypeOK, EndpointGuardOrder, pc \in {"addFinalizer", "removeFinalizer"},
           StoreIfChanged(afterFinalizers)
    PROVE  (OnlyGained(versions) \/ OnlyLost(versions))'
<1>1. versions \in Seq(Obj) /\ versions # <<>> /\ Len(versions) \in Nat \ {0}
    BY VersionsType DEF VersionsOK
<1>2. CASE UNCHANGED versions
    BY <1>2, SameVersionsOrder DEF EndpointGuardOrder, OrderKept
<1>3. CASE Store(afterFinalizers)
  <2>1. versions' = Append(versions, afterFinalizers) /\ afterFinalizers \in Obj
      BY <1>3, FinalizersStored DEF Store
  <2>2. CASE pc = "addFinalizer"
    <3>1. OnlyGained(versions)
        BY <2>2 DEF EndpointGuardOrder
    <3>2. OnlyGained(versions')
        BY <1>1, <2>1, <2>2, <3>1, AddKeepsGuard, GainedStored DEF server
    <3> QED BY <3>2
  <2>3. CASE pc = "removeFinalizer"
    <3>1. OnlyLost(versions)
        BY <2>3 DEF EndpointGuardOrder, DeleteSteps
    <3>2. ~GuardedLive(server)
        BY <1>1, <3>1 DEF OnlyLost, server
    <3>3. Guarded(afterFinalizers) => Guarded(server) /\ afterFinalizers.deleting
        BY <2>3, <3>2, RemoveAddsNoGuard DEF GuardedLive
    <3>4. OnlyLost(versions')
        BY <1>1, <2>1, <3>1, <3>3, LostStored DEF server
    <3> QED BY <3>4
  <2> QED BY <2>2, <2>3
<1> QED BY <1>2, <1>3 DEF StoreIfChanged

LEMMA PatchOrder ==
    ASSUME TypeOK, own.exists, StoreIfChanged(afterHash(manifestHash(own))) \/ StoreStatus
    PROVE  OrderKept /\ (Guarded(server') <=> Guarded(server))
<1>1. CASE StoreIfChanged(afterHash(manifestHash(own)))
  <2>1. SameGuard(server, afterHash(manifestHash(own)))
      BY HashStored DEF SameGuard, Guarded, containsCapability
  <2> QED BY <1>1, <2>1, HashStored, GuardStored
<1>2. CASE StoreStatus
  <2>1. PICK resent \in BOOLEAN, o \in Obj :
            /\ Store(o) \/ StoreIfChanged(o)
            /\ o.exists = server.exists
            /\ o.deleting = server.deleting
            /\ o.fin = server.fin
      BY <1>2, StatusStored
  <2>2. SameGuard(server, o)
      BY <2>1 DEF SameGuard, Guarded, containsCapability
  <2> QED BY <2>1, <2>2, GuardStored
<1> QED BY <1>1, <1>2

\* Where the steps of Reconcile lead.
LEMMA StartSteps ==
    ASSUME TypeOK, Start
    PROVE  \/ pc' \in {"idle", "patchStatus"}
           \/ pc' = "addFinalizer" /\ cached.exists /\ ~containsCapability(cached)
           \/ /\ pc' = IF cached.spec.policy # "Orphan" THEN "deleteInference" ELSE "removeFinalizer"
              /\ own' = cached /\ Guarded(cached) /\ cached.deleting
           \/ pc' \in ApplySteps /\ own' = cached /\ GuardedLive(cached)
<1>1. CASE ReturnAtOnce \/ MissingCredentials
    BY <1>1 DEF Start, ReturnAtOnce, MissingCredentials, WriteStatus
<1>2. CASE BeginDelete
    BY <1>2 DEF BeginDelete, Enter, Guarded
<1>3. CASE BeginAddFinalizer
    BY <1>3 DEF BeginAddFinalizer, Enter
<1>4. CASE BeginApply
    BY <1>4 DEF BeginApply, Enter, ApplySteps, GuardedLive, Guarded
<1> QED BY <1>1, <1>2, <1>3, <1>4 DEF Start

LEMMA LaterSteps ==
    ASSUME TypeOK, Reconcile, ~Start
    PROVE  \/ pc' \in {"idle", "patchStatus"}
           \/ DeleteInference /\ pc' = "removeFinalizer" /\ own' = own
           \/ pc \in ApplySteps /\ pc' \in ApplySteps /\ own' = own
<1>1. CASE DeleteInference
    BY <1>1 DEF DeleteInference, Goto
<1>2. CASE CheckStatus \/ Apply \/ PatchHash \/ ReadStatus
    BY <1>2 DEF CheckStatus, Apply, PatchHash, ReadStatus, applyObservedInferenceStatus, Goto,
                WriteStatus, ApplySteps
<1>3. CASE DeleteInferenceFails \/ ApplyFails
    BY <1>3 DEF DeleteInferenceFails, ApplyFails, WriteStatus
<1>4. CASE \/ PatchFinalizers \/ PatchFinalizersFails \/ PatchHashFails(manifestHash(own))
           \/ PatchStatus \/ PatchStatusFails
    BY <1>4 DEF PatchFinalizers, PatchFinalizersFails, PatchHashFails, PatchStatus,
                PatchStatusFails, Return
<1> QED BY <1>1, <1>2, <1>3, <1>4 DEF Reconcile

LEMMA ReconcileOrder ==
    ASSUME TypeOK, EndpointGuardOrder, Reconcile
    PROVE  EndpointGuardOrder'
<1>1. versions \in Seq(Obj) /\ versions # <<>> /\ cached = versions[1]
    BY VersionsType DEF VersionsOK
<1>2. CASE Start
  <2>1. UNCHANGED versions
      BY <1>2 DEF Start
  <2>2. OrderKept /\ server' = server
      BY <2>1, SameVersionsOrder
  <2>3. pc' \in DeleteSteps => OnlyLost(versions)
      BY <1>1, <1>2, StartSteps, FirstVersion
      DEF EndpointGuardOrder, DeleteSteps, ApplySteps
  <2>4. pc' = "addFinalizer" => OnlyGained(versions)
      BY <1>1, <1>2, StartSteps, FirstVersion
      DEF EndpointGuardOrder, DeleteSteps, ApplySteps, Guarded
  <2>5. pc' \in ApplySteps => Guarded(server)
      BY <1>1, <1>2, StartSteps, FirstVersion
      DEF EndpointGuardOrder, DeleteSteps, ApplySteps, server
  <2>6. (OnlyGained(versions) \/ OnlyLost(versions))'
      BY <2>2 DEF EndpointGuardOrder, OrderKept
  <2>7. Guarded(server)' <=> Guarded(server)
      BY <2>2 DEF Guarded, containsCapability
  <2> QED BY <2>2, <2>3, <2>4, <2>5, <2>6, <2>7 DEF EndpointGuardOrder, OrderKept
<1>3. CASE ~Start /\ pc \in {"addFinalizer", "removeFinalizer"}
  <2>1. pc' = "idle"
      BY <1>3
      DEF Reconcile, DeleteInference, DeleteInferenceFails, CheckStatus, Apply, ApplyFails,
          ReadStatus, PatchHash, PatchHashFails, PatchStatus, PatchStatusFails, PatchFinalizers,
          PatchFinalizersFails, Return
  <2>2. UNCHANGED versions \/ StoreIfChanged(afterFinalizers)
      BY <1>3, ReconcileWrites
  <2>3. (OnlyGained(versions) \/ OnlyLost(versions))'
      BY <1>3, <2>2, FinalizersOrder, SameVersionsOrder DEF EndpointGuardOrder, OrderKept
  <2> QED BY <2>1, <2>3 DEF EndpointGuardOrder, DeleteSteps, ApplySteps
<1>4. CASE ~Start /\ pc \notin {"addFinalizer", "removeFinalizer"}
  <2>1. OrderKept /\ (Guarded(server)' <=> Guarded(server))
    <3>1. CASE UNCHANGED versions
        BY <3>1, SameVersionsOrder DEF Guarded, containsCapability
    <3>2. CASE ~UNCHANGED versions
      <4>1. /\ pc \in {"patchHash", "patchStatus"}
            /\ StoreIfChanged(afterHash(manifestHash(own))) \/ StoreStatus
          BY <1>4, <3>2, ReconcileWrites
      <4>2. own.exists
          BY <4>1 DEF TypeOK
      <4>3. OrderKept /\ (Guarded(server') <=> Guarded(server))
          BY <4>1, <4>2, PatchOrder
      <4> QED BY <4>3 DEF Guarded, containsCapability
    <3> QED BY <3>1, <3>2
  <2> QED BY <1>4, <2>1, LaterSteps DEF DeleteInference, EndpointGuardOrder, OrderKept, DeleteSteps, ApplySteps
<1> QED BY <1>2, <1>3, <1>4

LEMMA ManagerOrder ==
    ASSUME TypeOK, EndpointGuardOrder, Deliver \/ TimerFires \/ Resync \/ Crash
    PROVE  EndpointGuardOrder'
<1>1. CASE Deliver
  <2>1. PICK k \in 2 .. Len(versions) : versions' = SubSeq(versions, k, Len(versions))
      BY <1>1 DEF Deliver
  <2>2. versions \in Seq(Obj) /\ versions # <<>>
      BY VersionsType DEF VersionsOK
  <2>3. /\ OnlyGained(versions) => OnlyGained(versions')
        /\ OnlyLost(versions) => OnlyLost(versions')
      BY <2>1, <2>2, OrderDelivered
  <2>4. server' = server /\ pc' = pc
      BY <1>1, DeliverType DEF Deliver
  <2>5. Guarded(server)' <=> Guarded(server)
      BY <2>4 DEF Guarded, containsCapability
  <2> QED BY <2>3, <2>4, <2>5 DEF EndpointGuardOrder
<1>2. CASE TimerFires \/ Resync
  <2>1. UNCHANGED <<versions, pc>>
      BY <1>2 DEF TimerFires, Resync
  <2>2. OrderKept /\ (Guarded(server)' <=> Guarded(server))
      BY <2>1, SameVersionsOrder DEF Guarded, containsCapability
  <2> QED BY <2>1, <2>2 DEF EndpointGuardOrder, OrderKept
<1>3. CASE Crash
  <2>1. Len(versions') = 1 /\ pc' = "idle"
      BY <1>3, RestartType DEF Crash
  <2>2. OnlyGained(versions')
      BY <2>1, OneVersion
  <2> QED BY <2>1, <2>2 DEF EndpointGuardOrder, DeleteSteps, ApplySteps
<1> QED BY <1>1, <1>2, <1>3

\* The order of the guards holds in every behaviour of an endpoint, whatever is
\* in the specs.
THEOREM EndpointGuardsStayOrdered == Spec => []EndpointGuardOrder
<1>1. Init => EndpointGuardOrder
  <2> SUFFICES ASSUME Init PROVE EndpointGuardOrder
      OBVIOUS
  <2>1. Len(versions) = 1 /\ pc = "idle"
      BY DEF Init, ControllerInit
  <2> QED BY <2>1, OneVersion DEF EndpointGuardOrder, DeleteSteps, ApplySteps
<1>2. TypeOK /\ EndpointGuardOrder /\ [Next]_vars => EndpointGuardOrder'
  <2> SUFFICES ASSUME TypeOK, EndpointGuardOrder, [Next]_vars PROVE EndpointGuardOrder'
      OBVIOUS
  <2>1. CASE Environment
    <3>1. pc' = pc /\ OrderKept /\ (Guarded(server') <=> Guarded(server))
        BY <2>1, EnvironmentFrame, EnvironmentOrder
    <3>2. Guarded(server)' <=> Guarded(server)
        BY <3>1 DEF Guarded, containsCapability
    <3> QED BY <3>1, <3>2 DEF EndpointGuardOrder, OrderKept
  <2>2. CASE UNCHANGED vars
    <3>1. UNCHANGED <<versions, pc>>
        BY <2>2 DEF vars
    <3>2. OrderKept /\ (Guarded(server)' <=> Guarded(server))
        BY <3>1, SameVersionsOrder DEF Guarded, containsCapability
    <3> QED BY <3>1, <3>2 DEF EndpointGuardOrder, OrderKept
  <2>3. ASSUME NEW kind \in Kinds, OutOfBandDelete(kind) PROVE EndpointGuardOrder'
    <3>1. UNCHANGED <<versions, pc>>
        BY <2>3 DEF OutOfBandDelete
    <3>2. OrderKept /\ (Guarded(server)' <=> Guarded(server))
        BY <3>1, SameVersionsOrder DEF Guarded, containsCapability
    <3> QED BY <3>1, <3>2 DEF EndpointGuardOrder, OrderKept
  <2> QED BY <2>1, <2>2, <2>3, ReconcileOrder, ManagerOrder DEF Next
<1> QED BY <1>1, <1>2, EndpointTypeCorrect, PTL DEF Spec

-----------------------------------------------------------------------------
(* What runs belongs to the guarded object, and is of its kind.            *)

\* Users keep to the kind of an endpoint and to deletePolicy Delete. A cell that is
\* made a cell set is left behind in k1s, and so is what the policy Orphan leaves.
StableShape ==
    /\ \A s \in Specs : s.policy # "Orphan"
    /\ \A s, t \in Specs : <<s, t>> \in Edits => s.cellSet = t.cellSet

\* Two guarded objects are of the same kind.
SameKind(a, b) == Guarded(a) /\ Guarded(b) => a.spec.cellSet = b.spec.cellSet

SameKinds == {pair \in Obj \X Obj : SameKind(pair[1], pair[2])}

\* Only the kind of the API server's guarded object runs.
RunsFor(o, k) == \A kind \in Kinds : k[kind] # NoManifest => Guarded(o) /\ kind = kindOf(o.spec)

NothingRuns(k) == \A kind \in Kinds : k[kind] = NoManifest

\* The guarded versions are of one kind, the copy being reconciled is of that kind,
\* and the finalizer is released when nothing runs. An object created anew may be of
\* the other kind, but is not guarded before the earlier one is forgotten.
ShapeInvariant ==
    /\ Ordered(versions, SameKinds)
    /\ RunsFor(server, k1s)
    /\ pc \in ApplySteps \cup DeleteSteps => Guarded(own) /\ SameKind(own, server)
    /\ pc = "removeFinalizer" => NothingRuns(k1s)

LEMMA KindFacts ==
    ASSUME NEW a \in Obj, NEW b \in Obj, a.exists, b.exists
    PROVE  /\ kindOf(a.spec) \in Kinds
           /\ a.spec.cellSet = b.spec.cellSet <=> kindOf(a.spec) = kindOf(b.spec)
    BY SpecType DEF kindOf, Kinds

\* Every version is of the kind of the last one.
LEMMA KindOfServer ==
    ASSUME TypeOK, Ordered(versions, SameKinds), NEW i \in 1 .. Len(versions)
    PROVE  SameKind(versions[i], server)
<1>1. Len(versions) \in Nat \ {0}
    BY VersionsType
<1>2. CASE i = Len(versions)
    BY <1>2 DEF SameKind, server
<1>3. CASE i < Len(versions)
  <2>1. <<versions[i], versions[Len(versions)]>> \in SameKinds
      BY <1>1, <1>3 DEF Ordered
  <2> QED BY <2>1 DEF SameKinds, server
<1> QED BY <1>1, <1>2, <1>3

\* A write that leaves the guard and the kind as they are.
LEMMA KindStored ==
    ASSUME TypeOK, Ordered(versions, SameKinds), NEW o \in Obj, Store(o) \/ StoreIfChanged(o),
           \/ Guarded(o) => Guarded(server) /\ o.spec.cellSet = server.spec.cellSet
           \/ \A i \in 1 .. Len(versions) : ~Guarded(versions[i])
    PROVE  Ordered(versions', SameKinds)
<1>1. /\ versions \in Seq(Obj) /\ versions # <<>>
      /\ \A i \in 1 .. Len(versions) : versions[i] \in Obj
    BY VersionsType DEF VersionsOK
<1>2. \A i \in 1 .. Len(versions) : SameKind(versions[i], o)
    BY KindOfServer DEF SameKind
<1>3. \A i \in 1 .. Len(versions) : <<versions[i], o>> \in SameKinds
    BY <1>1, <1>2 DEF SameKinds
<1>4. CASE UNCHANGED versions
    BY <1>4
<1>5. CASE versions' = Append(versions, o)
    BY <1>1, <1>3, <1>5, OrderedStored
<1> QED BY <1>4, <1>5 DEF Store, StoreIfChanged

\* k1s changes by an Apply, by a deletion, or by what happens in k1s.
LEMMA ReconcileRemote ==
    ASSUME TypeOK, Reconcile
    PROVE  \/ UNCHANGED k1s
           \/ /\ pc = "apply"
              /\ UNCHANGED versions
              /\ k1s' = applied(buildInferenceManifest(own.spec))
           \/ /\ pc = "deleteInference"
              /\ UNCHANGED versions
              /\ k1s' = [k1s EXCEPT ![kindOf(own.spec)] = NoManifest]
<1>1. CASE Apply \/ ApplyFails
    BY <1>1 DEF Apply, ApplyFails
<1>2. CASE DeleteInference \/ DeleteInferenceFails
    BY <1>2 DEF DeleteInference, DeleteInferenceFails, deleted
<1>3. CASE UNCHANGED k1s
    BY <1>3
<1> QED
    BY <1>1, <1>2, <1>3
    DEF Reconcile, Start, PatchFinalizers, PatchFinalizersFails, CheckStatus, PatchHash,
        PatchHashFails, ReadStatus, PatchStatus, PatchStatusFails

\* An Apply adds its own kind to what runs and leaves the other alone.
LEMMA AppliedRuns ==
    ASSUME RemoteOK(k1s), NEW s \in Specs, NEW kind \in Kinds
    PROVE  applied(buildInferenceManifest(s))[kind] # NoManifest
           <=> (kind = kindOf(s) \/ k1s[kind] # NoManifest)
<1> DEFINE m == buildInferenceManifest(s)
           fresh == [rev |-> m.rev, up |-> 0]
<1>1. m.kind = kindOf(s) /\ m.kind \in Kinds
    BY SpecAssumption DEF buildInferenceManifest, kindOf, Kinds
<1>2. fresh # NoManifest
  <2>1. fresh \in Deployments
      BY SpecAssumption DEF K1sInferenceEndpointSpec, buildInferenceManifest, Deployments
  <2> QED BY <2>1, SpecAssumption
<1> HIDE DEF m, fresh
<1>3. applied(m)[kind] = IF kind = m.kind
                         THEN IF k1s[kind] # NoManifest /\ k1s[kind].rev = m.rev
                              THEN k1s[kind] ELSE fresh
                         ELSE k1s[kind]
    BY DEF applied, RemoteOK, fresh
<1>4. applied(m)[kind] # NoManifest <=> (kind = m.kind \/ k1s[kind] # NoManifest)
    BY <1>2, <1>3
<1> QED BY <1>1, <1>4 DEF m

\* A cell that starts belongs to what runs already.
LEMMA CellStartsRuns ==
    ASSUME RemoteOK(k1s), NEW kind \in Kinds, CellStarts(kind), NEW other \in Kinds
    PROVE  k1s'[other] # NoManifest <=> k1s[other] # NoManifest
<1>1. k1s[kind] # NoManifest /\ k1s' = [k1s EXCEPT ![kind].up = k1s[kind].up + 1]
    BY DEF CellStarts
<1>2. RemoteOK(k1s')
    BY CellStartsType
<1> DEFINE d == [k1s[kind] EXCEPT !.up = k1s[kind].up + 1]
<1>3. k1s' = [k1s EXCEPT ![kind] = d]
    BY <1>1
<1>4. d \in Deployments
  <2>1. k1s[kind] \in Deployments
      BY <1>1 DEF RemoteOK
  <2> DEFINE n == k1s[kind].up + 1
  <2>2. n \in Nat
      BY <2>1 DEF Deployments
  <2> HIDE DEF n
  <2>3. [k1s[kind] EXCEPT !.up = n] \in Deployments
      BY <2>1, <2>2 DEF Deployments
  <2> QED BY <2>3, Zenon DEF n
<1> HIDE DEF d
<1>5. d # NoManifest
    BY <1>4, SpecAssumption
<1> QED BY <1>1, <1>3, <1>5 DEF RemoteOK

\* Reconcile starts on a copy that is of the kind of what runs.
LEMMA StartShape ==
    ASSUME StableShape, TypeOK, ShapeInvariant, Start
    PROVE  ShapeInvariant'
<1>1. UNCHANGED <<versions, k1s>>
    BY DEF Start
<1>2. server' = server
    BY <1>1 DEF server
<1>3. cached \in Obj /\ cached = versions[1] /\ 1 \in 1 .. Len(versions)
    BY VersionsType
<1>4. SameKind(cached, server)
    BY <1>3, KindOfServer DEF ShapeInvariant
<1>5. pc' # "removeFinalizer"
  <2>1. cached.exists => cached.spec.policy # "Orphan"
      BY <1>3, SpecType DEF StableShape
  <2> QED BY <2>1, StartSteps DEF Guarded, ApplySteps
<1>6. pc' \in ApplySteps \cup DeleteSteps => own' = cached /\ Guarded(cached)
    BY StartSteps DEF ApplySteps, DeleteSteps, GuardedLive
<1>7. pc' \in ApplySteps \cup DeleteSteps => Guarded(own') /\ SameKind(own', server')
    BY <1>2, <1>4, <1>6
<1>8. Ordered(versions', SameKinds) /\ RunsFor(server', k1s')
    BY <1>1, <1>2 DEF ShapeInvariant
<1> QED BY <1>5, <1>7, <1>8 DEF ShapeInvariant

\* A call of Reconcile to k1s.
LEMMA CallShape ==
    ASSUME TypeOK, EndpointGuardOrder, ShapeInvariant, Reconcile, ~Start, UNCHANGED versions
    PROVE  ShapeInvariant'
<1>1. server' = server /\ own \in Obj /\ server \in Obj /\ RemoteOK(k1s)
    BY VersionsType, TypeParts DEF server, LocalsOK
<1>2. Ordered(versions', SameKinds)
    BY DEF ShapeInvariant
<1>3. pc' \in ApplySteps \cup DeleteSteps => Guarded(own') /\ SameKind(own', server')
    BY <1>1, LaterSteps DEF ShapeInvariant, ApplySteps, DeleteSteps, DeleteInference
<1>4. RunsFor(server, k1s)
    BY DEF ShapeInvariant
<1>5. CASE UNCHANGED k1s
  <2>1. RunsFor(server', k1s')
      BY <1>1, <1>4, <1>5
  <2>2. pc' = "removeFinalizer" => NothingRuns(k1s')
    <3> SUFFICES ASSUME pc' = "removeFinalizer" PROVE NothingRuns(k1s')
        OBVIOUS
    <3>1. DeleteInference
        BY LaterSteps DEF ApplySteps
    <3>2. Guarded(own) /\ SameKind(own, server) /\ k1s' = [k1s EXCEPT ![kindOf(own.spec)] = NoManifest]
        BY <3>1 DEF DeleteInference, deleted, ShapeInvariant, DeleteSteps
    <3>3. \A kind \in Kinds : k1s[kind] # NoManifest => kind = kindOf(own.spec)
        BY <1>1, <1>4, <3>2, KindFacts DEF RunsFor, SameKind, Guarded
    <3> QED BY <1>1, <3>2, <3>3 DEF NothingRuns, RemoteOK
  <2> QED BY <1>2, <1>3, <2>1, <2>2 DEF ShapeInvariant
<1>6. CASE pc = "apply" /\ k1s' = applied(buildInferenceManifest(own.spec))
  <2>1. Guarded(server) /\ Guarded(own) /\ SameKind(own, server)
      BY <1>6 DEF EndpointGuardOrder, ShapeInvariant, ApplySteps
  <2>2. own.spec \in Specs /\ kindOf(own.spec) = kindOf(server.spec)
      BY <1>1, <2>1, SpecType, KindFacts DEF SameKind, Guarded
  <2>3. RunsFor(server', k1s')
      BY <1>1, <1>4, <1>6, <2>1, <2>2, AppliedRuns DEF RunsFor
  <2>4. pc' # "removeFinalizer"
      BY <1>6, LaterSteps DEF DeleteInference, ApplySteps
  <2> QED BY <1>2, <1>3, <2>3, <2>4 DEF ShapeInvariant
<1>7. CASE pc = "deleteInference" /\ k1s' = [k1s EXCEPT ![kindOf(own.spec)] = NoManifest]
  <2>1. Guarded(own) /\ SameKind(own, server)
      BY <1>7 DEF ShapeInvariant, DeleteSteps
  <2>2. \A kind \in Kinds : k1s[kind] # NoManifest => kind = kindOf(own.spec)
      BY <1>1, <1>4, <2>1, KindFacts DEF RunsFor, SameKind, Guarded
  <2>3. NothingRuns(k1s')
      BY <1>1, <1>7, <2>2 DEF NothingRuns, RemoteOK
  <2>4. RunsFor(server', k1s')
      BY <2>3 DEF RunsFor, NothingRuns
  <2> QED BY <1>2, <1>3, <2>3, <2>4 DEF ShapeInvariant
<1> QED BY <1>5, <1>6, <1>7, ReconcileRemote

\* A write of Reconcile to the API server.
LEMMA WriteShape ==
    ASSUME TypeOK, EndpointGuardOrder, ShapeInvariant, Reconcile, ~Start, ~UNCHANGED versions
    PROVE  ShapeInvariant'
<1>1. /\ server \in Obj /\ own \in Obj /\ (pc # "idle" => own.exists)
      /\ Len(versions) \in Nat \ {0}
    BY VersionsType, TypeParts DEF LocalsOK
<1>2. UNCHANGED k1s
    BY ReconcileRemote
<1>3. RunsFor(server, k1s) /\ Ordered(versions, SameKinds)
    BY DEF ShapeInvariant
<1>4. CASE pc \in {"addFinalizer", "removeFinalizer"} /\ StoreIfChanged(afterFinalizers)
  <2>1. afterFinalizers \in Obj /\ server' = afterFinalizers
      BY <1>4, FinalizersStored, StoreType
  <2>2. pc' = "idle"
      BY <1>4, LaterSteps
      DEF Reconcile, DeleteInference, DeleteInferenceFails, CheckStatus, Apply, ApplyFails,
          ReadStatus, PatchHash, PatchHashFails, PatchStatus, PatchStatusFails, PatchFinalizers,
          PatchFinalizersFails, Return
  <2>3. Guarded(server) /\ afterFinalizers.exists => afterFinalizers.spec = server.spec
      BY <1>1, NoObjectType
      DEF afterFinalizers, patchFinalizers, Obj, K1sInferenceEndpointObject,
          K1sInferenceEndpointRecord
  <2>4. CASE pc = "addFinalizer"
    <3>1. Guarded(server) => Guarded(afterFinalizers)
        BY <2>4, AddKeepsGuard
    <3>2. CASE Guarded(server)
      <4>1. afterFinalizers.spec = server.spec /\ Guarded(afterFinalizers)
          BY <2>3, <3>1, <3>2 DEF Guarded
      <4>2. Ordered(versions', SameKinds)
          BY <1>3, <1>4, <2>1, <3>2, <4>1, KindStored
      <4>3. RunsFor(server', k1s')
          BY <1>2, <1>3, <2>1, <4>1 DEF RunsFor
      <4> QED BY <2>2, <4>2, <4>3 DEF ShapeInvariant, ApplySteps, DeleteSteps
    <3>3. CASE ~Guarded(server)
      <4>1. OnlyGained(versions)
          BY <2>4 DEF EndpointGuardOrder
      <4>2. \A i \in 1 .. Len(versions) : ~Guarded(versions[i])
          BY <1>1, <3>3, <4>1 DEF OnlyGained, server
      <4>3. Ordered(versions', SameKinds)
          BY <1>3, <1>4, <2>1, <4>2, KindStored
      <4>4. RunsFor(server', k1s')
          BY <1>2, <1>3, <3>3 DEF RunsFor
      <4> QED BY <2>2, <4>3, <4>4 DEF ShapeInvariant, ApplySteps, DeleteSteps
    <3> QED BY <3>2, <3>3
  <2>5. CASE pc = "removeFinalizer"
    <3>1. Guarded(afterFinalizers) => afterFinalizers = server
        BY <2>5, RemoveAddsNoGuard
    <3>2. Ordered(versions', SameKinds)
        BY <1>3, <1>4, <2>1, <3>1, KindStored
    <3>3. NothingRuns(k1s')
        BY <1>2, <2>5 DEF ShapeInvariant
    <3>4. RunsFor(server', k1s')
        BY <3>3 DEF NothingRuns, RunsFor
    <3> QED BY <2>2, <3>2, <3>4 DEF ShapeInvariant, ApplySteps, DeleteSteps
  <2> QED BY <1>4, <2>4, <2>5
<1>5. ASSUME pc \in {"patchHash", "patchStatus"}, NEW o \in Obj, Store(o) \/ StoreIfChanged(o),
             o.exists = server.exists, o.fin = server.fin, o.spec = server.spec
      PROVE  ShapeInvariant'
  <2>1. server' = o
      BY <1>5, StoreType
  <2>2. Guarded(o) <=> Guarded(server)
      BY <1>5 DEF Guarded, containsCapability
  <2>3. Ordered(versions', SameKinds)
      BY <1>3, <1>5, <2>2, KindStored
  <2>4. RunsFor(server', k1s')
      BY <1>2, <1>3, <1>5, <2>1, <2>2 DEF RunsFor
  <2>5. pc' \in ApplySteps \cup DeleteSteps =>
            pc \in ApplySteps \cup DeleteSteps /\ own' = own /\ pc' # "removeFinalizer"
      BY <1>5, LaterSteps DEF ApplySteps, DeleteSteps, DeleteInference
  <2>6. pc' \in ApplySteps \cup DeleteSteps => Guarded(own') /\ SameKind(own', server')
      BY <1>5, <2>1, <2>2, <2>5 DEF ShapeInvariant, SameKind
  <2>7. pc' # "removeFinalizer"
      BY <2>5 DEF DeleteSteps
  <2> QED BY <2>3, <2>4, <2>6, <2>7 DEF ShapeInvariant
<1>6. CASE pc = "patchHash" /\ StoreIfChanged(afterHash(manifestHash(own)))
    BY <1>1, <1>5, <1>6, HashStored
<1>7. CASE pc = "patchStatus" /\ StoreStatus
    BY <1>5, <1>7, StatusStored
<1> QED BY <1>4, <1>6, <1>7, ReconcileWrites

LEMMA EnvironmentShape ==
    ASSUME StableShape, TypeOK, EndpointGuardOrder, ShapeInvariant, Environment
    PROVE  ShapeInvariant'
<1>1. UNCHANGED <<pc, own>> /\ server \in Obj /\ RemoteOK(k1s)
    BY EnvironmentFrame, VersionsType, TypeParts
<1>2. \A kind \in Kinds : k1s'[kind] # NoManifest <=> k1s[kind] # NoManifest
    BY <1>1, EnvironmentFrame, CellStartsRuns
<1>3. pc' = "removeFinalizer" => NothingRuns(k1s')
    BY <1>1, <1>2 DEF ShapeInvariant, NothingRuns
<1>4. CASE UNCHANGED versions
  <2>1. server' = server
      BY <1>4 DEF server
  <2>2. Ordered(versions', SameKinds) /\ RunsFor(server', k1s')
      BY <1>2, <1>4, <2>1 DEF ShapeInvariant, RunsFor
  <2>3. pc' \in ApplySteps \cup DeleteSteps => Guarded(own') /\ SameKind(own', server')
      BY <1>1, <2>1 DEF ShapeInvariant
  <2> QED BY <1>3, <2>2, <2>3 DEF ShapeInvariant
<1>5. ASSUME NEW o \in Obj, EnvironmentWrite(o) PROVE ShapeInvariant'
  <2>1. Store(o) /\ server' = o
      BY <1>5, StoreType DEF EnvironmentWrite
  <2>2. Guarded(o) => server.exists /\ Guarded(server) /\ o.spec.cellSet = server.spec.cellSet
    <3>1. CASE Born(o) \/ Gone(o)
        BY <3>1, NewObjectType, NoObjectType DEF Born, Gone, Guarded, containsCapability
    <3>2. CASE Touched(o)
      <4>1. Guarded(o) <=> Guarded(server)
          BY <3>2 DEF Touched, Guarded
      <4>2. server.spec \in Specs /\ o.spec \in Specs
          BY <1>1, <3>2, SpecType DEF Touched
      <4>3. o.spec.cellSet = server.spec.cellSet
          BY <3>2, <4>2 DEF Touched, StableShape
      <4> QED BY <3>2, <4>1, <4>3 DEF Touched
    <3> QED BY <1>5, <3>1, <3>2 DEF EnvironmentWrite
  <2>3. Guarded(server) => Guarded(o)
      BY <1>5 DEF EnvironmentWrite, Born, Gone, Touched, Guarded
  <2>4. Ordered(versions', SameKinds)
      BY <2>1, <2>2, KindStored DEF ShapeInvariant
  <2>5. Guarded(server) => kindOf(o.spec) = kindOf(server.spec)
      BY <1>1, <2>2, <2>3, KindFacts DEF Guarded
  <2>6. RunsFor(server', k1s')
      BY <1>2, <2>1, <2>3, <2>5 DEF ShapeInvariant, RunsFor
  <2>7. pc' \in ApplySteps \cup DeleteSteps => Guarded(own') /\ SameKind(own', server')
      BY <1>1, <2>1, <2>2 DEF ShapeInvariant, SameKind
  <2> QED BY <1>3, <2>4, <2>6, <2>7 DEF ShapeInvariant
<1> QED BY <1>4, <1>5, EnvironmentWrites

LEMMA OtherShape ==
    ASSUME TypeOK, ShapeInvariant,
           \/ Deliver \/ TimerFires \/ Resync \/ Crash
           \/ \E kind \in Kinds : OutOfBandDelete(kind)
    PROVE  ShapeInvariant'
<1>1. versions \in Seq(Obj) /\ versions # <<>> /\ RemoteOK(k1s)
    BY VersionsType, TypeParts DEF VersionsOK
<1>2. server' = server
  <2>1. CASE Deliver
      BY <2>1, DeliverType
  <2>2. CASE Crash
      BY <2>2, RestartType
  <2>3. CASE UNCHANGED versions
      BY <2>3 DEF server
  <2> QED BY <2>1, <2>2, <2>3 DEF TimerFires, Resync, OutOfBandDelete
<1>3. Ordered(versions', SameKinds)
  <2>1. CASE Deliver
    <3>1. PICK k \in 2 .. Len(versions) : versions' = SubSeq(versions, k, Len(versions))
        BY <2>1 DEF Deliver
    <3> QED BY <1>1, <3>1, RelationsDelivered DEF ShapeInvariant
  <2>2. CASE Crash
    <3>1. Len(versions') = 1
        BY <2>2, RestartType
    <3> QED BY <3>1 DEF Ordered
  <2>3. CASE UNCHANGED versions
      BY <2>3 DEF ShapeInvariant
  <2> QED BY <2>1, <2>2, <2>3 DEF TimerFires, Resync, OutOfBandDelete
<1>4. \A kind \in Kinds : k1s'[kind] # NoManifest => k1s[kind] # NoManifest
    BY <1>1 DEF Deliver, TimerFires, Resync, Crash, OutOfBandDelete, RemoteOK
<1>5. pc' = "idle" \/ UNCHANGED <<pc, own>>
    BY DEF Deliver, TimerFires, Resync, Crash, OutOfBandDelete
<1>6. RunsFor(server', k1s')
    BY <1>2, <1>4 DEF ShapeInvariant, RunsFor
<1>7. pc' = "removeFinalizer" => NothingRuns(k1s')
    BY <1>4, <1>5 DEF ShapeInvariant, NothingRuns
<1>8. pc' \in ApplySteps \cup DeleteSteps => Guarded(own') /\ SameKind(own', server')
    BY <1>2, <1>5 DEF ShapeInvariant, ApplySteps, DeleteSteps
<1> QED BY <1>3, <1>6, <1>7, <1>8 DEF ShapeInvariant

\* For users who keep the kind of an endpoint, what k1s runs is of the kind of the
\* guarded object, in every behaviour.
THEOREM ShapeInvariantHolds ==
    ASSUME StableShape
    PROVE  Spec => []ShapeInvariant
<1>1. Init => ShapeInvariant
  <2> SUFFICES ASSUME Init PROVE ShapeInvariant
      OBVIOUS
  <2>1. Len(versions) = 1 /\ pc = "idle" /\ \A kind \in Kinds : k1s[kind] = NoManifest
      BY DEF Init, ControllerInit
  <2> QED BY <2>1 DEF ShapeInvariant, Ordered, RunsFor, ApplySteps, DeleteSteps
<1>2. TypeOK /\ EndpointGuardOrder /\ ShapeInvariant /\ [Next]_vars => ShapeInvariant'
  <2> SUFFICES ASSUME TypeOK, EndpointGuardOrder, ShapeInvariant, [Next]_vars
               PROVE  ShapeInvariant'
      OBVIOUS
  <2>1. CASE Reconcile
      BY <2>1, StartShape, CallShape, WriteShape
  <2>2. CASE Environment
      BY <2>2, EnvironmentShape
  <2>3. CASE UNCHANGED vars
      BY <2>3 DEF vars, ShapeInvariant, server
  <2> QED BY <2>1, <2>2, <2>3, OtherShape DEF Next
<1> QED BY <1>1, <1>2, EndpointTypeCorrect, EndpointGuardsStayOrdered, PTL DEF Spec

\* k1s-side resources are deleted before the endpoint disappears, for every number
\* of specs, faults, restarts, recreations and undelivered watch events, as long as
\* users keep the kind of the endpoint and deletePolicy Delete.
THEOREM EndpointCleanupBeforeGone ==
    ASSUME StableShape
    PROVE  Spec => []CleanupBeforeGone
<1>1. ShapeInvariant => CleanupBeforeGone
    BY DEF ShapeInvariant, RunsFor, CleanupBeforeGone
<1> QED BY <1>1, ShapeInvariantHolds, PTL

-----------------------------------------------------------------------------
(* K1sInferenceEndpoint implements FinalizerContract.                      *)

\* What k1s runs, as the contract sees it.
Remote == {kind \in Kinds : k1s[kind] # NoManifest}

\* Steps that change neither what runs nor the guard nor the existence of the object.
LEMMA QuietStep ==
    ASSUME Remote' = Remote, server'.exists = server.exists,
           Guarded(server') <=> Guarded(server)
    PROVE  UNCHANGED Contract!vars
    BY DEF Contract!vars, Remote, Guarded, containsCapability

\* Removing a kind from k1s.
LEMMA UndeployStep ==
    ASSUME TypeOK, NEW kind \in Kinds, UNCHANGED versions,
           k1s' = [k1s EXCEPT ![kind] = NoManifest]
    PROVE  Contract!Next
<1>1. Remote' = Remote \ {kind}
    BY DEF TypeOK, Remote
<1>2. server' = server
    BY DEF server
<1>3. Contract!Undeploy(kind)
    BY <1>1, <1>2 DEF Contract!Undeploy, Remote, Guarded, containsCapability
<1> QED BY <1>3 DEF Contract!Next

\* An Apply under the guard deploys.
LEMMA DeployStep ==
    ASSUME TypeOK, NEW s \in Specs, Guarded(server), UNCHANGED versions,
           k1s' = applied(buildInferenceManifest(s))
    PROVE  Contract!Next
<1>1. kindOf(s) \in Kinds /\ RemoteOK(k1s)
    BY TypeParts DEF kindOf, Kinds
<1>2. Remote' = Remote \cup {kindOf(s)}
    BY <1>1, AppliedRuns DEF Remote
<1>3. server' = server
    BY DEF server
<1>4. Contract!Deploy(kindOf(s))
    BY <1>2, <1>3 DEF Contract!Deploy, Remote, Guarded, containsCapability
<1> QED BY <1>1, <1>4 DEF Contract!Next

\* The patch of the finalizers takes the guard, or gives it up with nothing running.
LEMMA FinalizersStep ==
    ASSUME TypeOK, ShapeInvariant, pc \in {"addFinalizer", "removeFinalizer"}, UNCHANGED k1s,
           patchFinalizersAllowed(server, cached, wantedFinalizers),
           StoreIfChanged(afterFinalizers)
    PROVE  [Contract!Next]_Contract!vars
<1>1. server \in Obj /\ server.exists
    BY VersionsType DEF patchFinalizersAllowed
<1>2. afterFinalizers \in Obj /\ server' = afterFinalizers
    BY FinalizersStored, StoreType
<1>3. Remote' = Remote /\ {server.exists, server'.exists} \subseteq BOOLEAN
    BY <1>1, <1>2, ObjType DEF Remote
<1>4. CASE afterFinalizers = server
    BY <1>2, <1>3, <1>4, QuietStep
<1>5. CASE pc = "addFinalizer" /\ afterFinalizers # server
  <2>1. capabilityFinalizer \in wantedFinalizers
      BY <1>5 DEF wantedFinalizers
  <2>2. afterFinalizers.exists /\ Guarded(afterFinalizers)
      BY <1>1, <1>5, <2>1
      DEF afterFinalizers, patchFinalizers, Guarded, containsCapability, Obj,
          K1sInferenceEndpointObject, K1sInferenceEndpointRecord
  <2>3. Contract!Guard
      BY <1>1, <1>2, <1>3, <2>2 DEF Contract!Guard, Remote, Guarded, containsCapability
  <2> QED BY <2>3 DEF Contract!Next
<1>6. CASE pc = "removeFinalizer" /\ afterFinalizers # server
  <2>1. ~Guarded(server')
      BY <1>2, <1>6, RemoveAddsNoGuard
  <2>2. Remote = {}
      BY <1>6 DEF ShapeInvariant, NothingRuns, Remote
  <2>3. CASE Guarded(server)
      BY <1>3, <2>1, <2>2, <2>3
      DEF Contract!Release, Contract!Next, Remote, Guarded, containsCapability
  <2>4. CASE ~Guarded(server) /\ server'.exists
      BY <1>1, <1>3, <2>1, <2>4, QuietStep
  <2>5. CASE ~Guarded(server) /\ ~server'.exists
      BY <1>1, <1>3, <2>1, <2>5
      DEF Contract!Remove, Contract!Next, Remote, Guarded, containsCapability
  <2> QED BY <2>3, <2>4, <2>5
<1> QED BY <1>4, <1>5, <1>6

LEMMA ReconcileImplements ==
    ASSUME TypeOK, EndpointGuardOrder, ShapeInvariant, Reconcile
    PROVE  [Contract!Next]_Contract!vars
<1>1. own \in Obj /\ (pc # "idle" => own.exists)
    BY TypeParts DEF LocalsOK
<1>2. CASE pc = "apply" /\ UNCHANGED versions /\ k1s' = applied(buildInferenceManifest(own.spec))
  <2>1. Guarded(server) /\ own.spec \in Specs
      BY <1>1, <1>2, SpecType DEF EndpointGuardOrder, ApplySteps
  <2> QED BY <1>2, <2>1, DeployStep
<1>3. CASE /\ pc = "deleteInference"
           /\ UNCHANGED versions
           /\ k1s' = [k1s EXCEPT ![kindOf(own.spec)] = NoManifest]
    BY <1>1, <1>3, KindFacts, UndeployStep
<1>4. CASE UNCHANGED k1s
  <2>1. Remote' = Remote
      BY <1>4 DEF Remote
  <2>2. CASE UNCHANGED versions
      BY <2>1, <2>2, QuietStep DEF server
  <2>3. ASSUME NEW o \in Obj, Store(o) \/ StoreIfChanged(o), o.exists = server.exists,
               o.fin = server.fin
        PROVE  UNCHANGED Contract!vars
    <3>1. server' = o
        BY <2>3, StoreType
    <3> QED BY <2>1, <2>3, <3>1, QuietStep DEF Guarded, containsCapability
  <2>4. CASE pc = "patchHash" /\ StoreIfChanged(afterHash(manifestHash(own)))
      BY <1>1, <2>3, <2>4, HashStored
  <2>5. CASE pc = "patchStatus" /\ StoreStatus
      BY <2>3, <2>5, StatusStored
  <2> QED BY <1>4, <2>2, <2>4, <2>5, FinalizersStep, ReconcileWrites
<1> QED BY <1>2, <1>3, <1>4, ReconcileRemote

LEMMA EnvironmentImplements ==
    ASSUME TypeOK, Environment
    PROVE  [Contract!Next]_Contract!vars
<1>1. Remote' = Remote
  <2>1. RemoteOK(k1s)
      BY TypeParts
  <2>2. \A kind \in Kinds : k1s'[kind] # NoManifest <=> k1s[kind] # NoManifest
      BY <2>1, EnvironmentFrame, CellStartsRuns
  <2> QED BY <2>2 DEF Remote
<1>2. CASE UNCHANGED versions
    BY <1>1, <1>2, QuietStep DEF server
<1>3. ASSUME NEW o \in Obj, EnvironmentWrite(o) PROVE [Contract!Next]_Contract!vars
  <2>1. server' = o /\ server \in Obj /\ {server.exists, o.exists} \subseteq BOOLEAN
      BY <1>3, StoreType, VersionsType, ObjType DEF EnvironmentWrite
  <2>2. CASE Born(o)
    <3>1. PICK s \in Specs : o = NewObject(s) /\ ~server.exists
        BY <2>2 DEF Born
    <3>2. o.exists /\ ~Guarded(o)
      <4>1. NewObject(s).exists
          BY NoObjectType DEF NewObject, Obj, K1sInferenceEndpointObject,
                              K1sInferenceEndpointRecord
      <4> QED BY <3>1, <4>1, NewObjectType DEF Guarded, containsCapability
    <3>3. Contract!Create
        BY <1>1, <2>1, <3>1, <3>2 DEF Contract!Create, Remote, Guarded, containsCapability
    <3> QED BY <3>3 DEF Contract!Next
  <2>3. CASE Gone(o) /\ ~containsCapability(server)
    <3>1. server.exists /\ ~o.exists /\ ~Guarded(server) /\ ~Guarded(o)
        BY <2>3, NoObjectType DEF Gone, Guarded
    <3>2. Contract!Remove
        BY <1>1, <2>1, <3>1 DEF Contract!Remove, Remote, Guarded, containsCapability
    <3> QED BY <3>2 DEF Contract!Next
  <2>4. CASE Touched(o)
    <3>1. server'.exists = server.exists /\ (Guarded(server') <=> Guarded(server))
        BY <2>1, <2>4 DEF Touched, Guarded
    <3> QED BY <1>1, <3>1, QuietStep
  <2> QED BY <1>3, <2>2, <2>3, <2>4 DEF EnvironmentWrite
<1> QED BY <1>2, <1>3, EnvironmentWrites

\* For users who keep the kind of an endpoint, the reconciler, its cache and its
\* environment together implement the finalizer contract.
THEOREM EndpointContract ==
    ASSUME StableShape
    PROVE  Spec => ImplementsContract
<1>1. Init => Contract!Init
  <2> SUFFICES ASSUME Init PROVE Contract!Init
      OBVIOUS
  <2>1. versions = <<NoObject>> /\ k1s = [kind \in Kinds |-> NoManifest]
      BY DEF Init, ControllerInit
  <2>2. server = NoObject
      BY <2>1 DEF server
  <2> QED BY <2>1, <2>2, NoObjectType DEF Contract!Init, Guarded
<1>2. TypeOK /\ EndpointGuardOrder /\ ShapeInvariant /\ [Next]_vars
          => [Contract!Next]_Contract!vars
  <2> SUFFICES ASSUME TypeOK, EndpointGuardOrder, ShapeInvariant, [Next]_vars
               PROVE  [Contract!Next]_Contract!vars
      OBVIOUS
  <2>1. CASE Reconcile
      BY <2>1, ReconcileImplements
  <2>2. CASE Environment
      BY <2>2, EnvironmentImplements
  <2>3. CASE Deliver \/ Crash
    <3>1. server' = server /\ UNCHANGED k1s
        BY <2>3, DeliverType, RestartType DEF Deliver, Crash
    <3> QED BY <3>1, QuietStep DEF Remote
  <2>4. CASE TimerFires \/ Resync \/ UNCHANGED vars
    <3>1. server' = server /\ UNCHANGED k1s
        BY <2>4 DEF TimerFires, Resync, vars, server
    <3> QED BY <3>1, QuietStep DEF Remote
  <2>5. CASE \E kind \in Kinds : OutOfBandDelete(kind)
      BY <2>5, UndeployStep DEF OutOfBandDelete
  <2> QED BY <2>1, <2>2, <2>3, <2>4, <2>5 DEF Next
<1> QED
    BY <1>1, <1>2, EndpointTypeCorrect, EndpointGuardsStayOrdered, ShapeInvariantHolds, PTL
    DEF Spec, ImplementsContract, Contract!Spec

-----------------------------------------------------------------------------
(* What Ready=True says.                                                   *)
(*                                                                         *)
(* As in K1sAppProofs: all that is recorded, published or deployed stems   *)
(* from copies that were read before, so nothing of it is ahead of the     *)
(* copy at hand, the floor. A hash that matches the copy's manifest then   *)
(* means that k1s runs just this manifest, and the cells that k1s counts   *)
(* in its answer are cells of it.                                          *)

\* The manifests that the specs, with their defaults filled in, can have.
Manifests == [kind : Kinds, rev : {Normal[r] : r \in DOMAIN Normal}]

manifestOf(o) == buildInferenceManifest(o.spec)

\* Users never go back to a manifest they have left; they may rewrite the spec so
\* that its manifest stays the same.
Forward(rank) ==
    /\ rank \in [Manifests -> Nat]
    /\ \A m, n \in Manifests : rank[m] = rank[n] => m = n
    /\ \A s, t \in Specs : <<s, t>> \in Edits =>
           rank[buildInferenceManifest(s)] <= rank[buildInferenceManifest(t)]

Rank == CHOOSE rank : Forward(rank)

ForwardUsers == \E rank : Forward(rank)

\* b is the object a at the same time or later. A deletion is never taken back.
Before(a, b) ==
    (a.exists /\ b.exists) =>
        /\ a.gen <= b.gen
        /\ a.gen = b.gen => manifestOf(a) = manifestOf(b)
        /\ Rank[manifestOf(a)] <= Rank[manifestOf(b)]
        /\ a.deleting => b.deleting

Later == {pair \in Obj \X Obj : Before(pair[1], pair[2])}

Newest(vs) == vs[Len(vs)]

ReadyCondition(o) == o.status.conds["Ready"]

\* The manifest that runs in a collection.
Running(k, kind) == [kind |-> kind, rev |-> k[kind].rev]

\* The collection of m runs nothing older than m.
Reached(k, m) == k[m.kind] = NoManifest \/ Rank[m] <= Rank[Running(k, m.kind)]

\* The collection of m runs m with all its cells.
Complete(k, m) == k[m.kind] = [rev |-> m.rev, up |-> Cells(m.kind)]

\* What copy c says is no news for the floor f, and true: k1s got the manifest of
\* its hash, and serves the newest object s if it is s that c calls ready.
Sound(c, f, s, k) ==
    /\ \A m \in Manifests : c.hash = hashBytes(m) =>
           Rank[m] <= Rank[manifestOf(f)] /\ Reached(k, m)
    /\ ReadyCondition(c).status = "True" =>
           /\ ReadyCondition(c).gen <= f.gen
           /\ ReadyCondition(c).gen = s.gen => Complete(k, manifestOf(s))

\* Every version is as old as the floor or newer, says nothing that is news for it,
\* and nothing newer than the floor was applied.
Grounded(vs, f, k) ==
    /\ \A i \in 1 .. Len(vs) :
          vs[i].exists /\ Before(f, vs[i]) /\ Sound(vs[i], f, Newest(vs), k)
    /\ \A kind \in Kinds : k[kind] # NoManifest =>
          Rank[Running(k, kind)] <= Rank[manifestOf(f)]

\* No reconcile has begun.
Blank(c) == c.hash = NoHash /\ ReadyCondition(c).status # "True"

Untouched(vs, k) == (\A i \in 1 .. Len(vs) : Blank(vs[i])) /\ NothingRuns(k)

\* The steps at which the manifest of the copy has been applied.
AppliedSteps == {"checkStatus", "patchHash", "readStatus"}

\* The copy that is reconciled is the floor; between reconciles it is the cached one.
FloorHolds(vs, p, o, k) ==
    IF p # "idle"
    THEN /\ Grounded(vs, o, k)
         /\ Sound(o, o, Newest(vs), k)
         /\ p \in AppliedSteps => Reached(k, manifestOf(o))
         /\ p \in DeleteSteps => o.deleting
    ELSE IF Head(vs).exists THEN Grounded(vs, Head(vs), k) ELSE Untouched(vs, k)

Honest(vs, p, o, k) ==
    Live(Newest(vs)) => Ordered(vs, Later) /\ Unbroken(vs) /\ FloorHolds(vs, p, o, k)

\* Before the creation there is nothing.
Unborn(vs, p, k) ==
    p = "idle" /\ (\A i \in 1 .. Len(vs) : vs[i] = NoObject) /\ NothingRuns(k)

\* For the first object of its name, and as long as nobody else removes cells.
ServingInvariant ==
    /\ lives <= 1 /\ ~removed => Honest(versions, pc, own, k1s)
    /\ lives = 0 => Unborn(versions, pc, k1s)

-----------------------------------------------------------------------------
(* The order of versions, and what a raised floor leaves true.             *)

LEMMA RankType ==
    ASSUME ForwardUsers
    PROVE  /\ \A m \in Manifests : Rank[m] \in Nat
           /\ \A m, n \in Manifests : Rank[m] = Rank[n] => m = n
           /\ \A s, t \in Specs : <<s, t>> \in Edits =>
                  Rank[buildInferenceManifest(s)] <= Rank[buildInferenceManifest(t)]
<1>1. Forward(Rank)
    BY Zenon DEF ForwardUsers, Rank
<1>2. \A m \in Manifests : Rank[m] \in Nat
    BY <1>1 DEF Forward
<1>3. /\ \A m, n \in Manifests : Rank[m] = Rank[n] => m = n
      /\ \A s, t \in Specs : <<s, t>> \in Edits =>
             Rank[buildInferenceManifest(s)] <= Rank[buildInferenceManifest(t)]
    BY <1>1, Zenon DEF Forward
<1> QED BY <1>2, <1>3, Zenon

LEMMA ObjectType ==
    ASSUME NEW o \in Obj
    PROVE  /\ o.gen \in Nat
           /\ o.exists => manifestOf(o) \in Manifests
           /\ o.exists => manifestOf(o).kind = kindOf(o.spec)
           /\ o.status \in K1sInferenceEndpointStatus
           /\ ReadyCondition(o).gen \in Nat
<1>1. o.gen \in Nat /\ o.status \in K1sInferenceEndpointStatus
    BY ObjType
<1>2. o.status.conds["Ready"] \in [status : ConditionStatus, gen : Nat]
    BY <1>1 DEF K1sInferenceEndpointStatus, Conditions, ConditionTypes
<1>3. o.exists => manifestOf(o) \in Manifests /\ manifestOf(o).kind = kindOf(o.spec)
    BY SpecType DEF manifestOf, buildInferenceManifest, Manifests, kindOf, Kinds
<1> QED BY <1>1, <1>2, <1>3 DEF ReadyCondition

\* What runs in a collection is the manifest of some spec.
LEMMA RunningType ==
    ASSUME NEW k, RemoteOK(k), NEW kind \in Kinds, k[kind] # NoManifest
    PROVE  Running(k, kind) \in Manifests
<1>1. k[kind] \in Deployments
    BY DEF RemoteOK
<1> QED BY <1>1 DEF Running, Manifests, Deployments

LEMMA HashFacts ==
    /\ \A m, n : hashBytes(m) = hashBytes(n) => m = n
    /\ \A m : hashBytes(m) # NoHash
    BY DEF hashBytes, NoHash

LEMMA BeforeSelf ==
    ASSUME ForwardUsers, NEW o \in Obj
    PROVE  Before(o, o)
    BY ObjectType, RankType DEF Before

LEMMA BeforeChain ==
    ASSUME ForwardUsers, NEW a \in Obj, NEW b \in Obj,
           NEW c \in Obj, b.exists, Before(a, b), Before(b, c)
    PROVE  Before(a, c)
<1> SUFFICES ASSUME a.exists, c.exists
             PROVE  /\ a.gen <= c.gen
                    /\ a.gen = c.gen => manifestOf(a) = manifestOf(c)
                    /\ Rank[manifestOf(a)] <= Rank[manifestOf(c)]
                    /\ a.deleting => c.deleting
    BY DEF Before
<1>1. /\ a.gen \in Nat /\ b.gen \in Nat /\ c.gen \in Nat
      /\ a.gen <= b.gen /\ b.gen <= c.gen
      /\ a.gen = b.gen => manifestOf(a) = manifestOf(b)
      /\ b.gen = c.gen => manifestOf(b) = manifestOf(c)
      /\ (a.deleting => b.deleting) /\ (b.deleting => c.deleting)
    BY ObjectType DEF Before
<1>2. /\ Rank[manifestOf(a)] \in Nat /\ Rank[manifestOf(b)] \in Nat /\ Rank[manifestOf(c)] \in Nat
      /\ Rank[manifestOf(a)] <= Rank[manifestOf(b)] /\ Rank[manifestOf(b)] <= Rank[manifestOf(c)]
    BY ObjectType, RankType DEF Before
<1>3. Rank[manifestOf(a)] <= Rank[manifestOf(c)]
    BY <1>2
<1>4. a.gen = c.gen => a.gen = b.gen /\ b.gen = c.gen
    BY <1>1
<1> QED BY <1>1, <1>3, <1>4

\* The cached version comes before all others, and all before the newest.
LEMMA EndsBefore ==
    ASSUME ForwardUsers, NEW vs \in Seq(Obj), vs # <<>>, Ordered(vs, Later),
           NEW i \in 1 .. Len(vs)
    PROVE  Before(Head(vs), vs[i]) /\ Before(vs[i], Newest(vs))
<1>1. /\ Len(vs) \in Nat \ {0}
      /\ Head(vs) = vs[1]
      /\ \A j \in 1 .. Len(vs) : vs[j] \in Obj
    BY Ends
<1>2. ASSUME NEW j \in 1 .. Len(vs), NEW n \in 1 .. Len(vs), j <= n
      PROVE  Before(vs[j], vs[n])
  <2>1. CASE j = n
      BY <1>1, <2>1, BeforeSelf
  <2>2. CASE j < n
    <3>1. <<vs[j], vs[n]>> \in Later
        BY <2>2 DEF Ordered
    <3> QED BY <3>1 DEF Later
  <2> QED BY <1>1, <1>2, <2>1, <2>2
<1>3. 1 \in 1 .. Len(vs) /\ Len(vs) \in 1 .. Len(vs) /\ 1 <= i /\ i <= Len(vs)
    BY <1>1
<1> QED BY <1>1, <1>2, <1>3 DEF Newest

\* If the object exists now and the cache has it, it exists in between.
LEMMA AllExist ==
    ASSUME NEW vs \in Seq(Obj), vs # <<>>, Unbroken(vs), Head(vs).exists,
           Newest(vs).exists, NEW i \in 1 .. Len(vs)
    PROVE  vs[i].exists
<1>1. Len(vs) \in Nat \ {0} /\ Head(vs) = vs[1]
    BY Ends
<1>2. CASE i = 1 \/ i = Len(vs)
    BY <1>1, <1>2 DEF Newest
<1>3. CASE 1 < i /\ i < Len(vs)
  <2>1. 1 \in 1 .. Len(vs) /\ Len(vs) \in 1 .. Len(vs)
      BY <1>1
  <2> QED BY <1>1, <1>3, <2>1 DEF Unbroken, Newest
<1>4. (i = 1 \/ i = Len(vs)) \/ (1 < i /\ i < Len(vs))
    BY <1>1
<1> QED BY <1>2, <1>3, <1>4

LEMMA BlankIsSound ==
    ASSUME NEW c, Blank(c)
    PROVE  \A f, s, k : Sound(c, f, s, k)
    BY HashFacts DEF Blank, Sound

\* A newer floor does for what an older one did.
LEMMA SoundRaised ==
    ASSUME ForwardUsers, NEW c \in Obj, NEW f \in Obj,
           NEW g \in Obj, f.exists, g.exists, Before(f, g), NEW s, NEW k,
           Sound(c, f, s, k)
    PROVE  Sound(c, g, s, k)
<1>1. /\ f.gen \in Nat /\ g.gen \in Nat /\ f.gen <= g.gen
      /\ Rank[manifestOf(f)] \in Nat /\ Rank[manifestOf(g)] \in Nat
      /\ Rank[manifestOf(f)] <= Rank[manifestOf(g)]
      /\ ReadyCondition(c).gen \in Nat
    BY ObjectType, RankType DEF Before
<1>2. ASSUME NEW m \in Manifests, c.hash = hashBytes(m)
      PROVE  Rank[m] <= Rank[manifestOf(g)] /\ Reached(k, m)
  <2>1. Rank[m] <= Rank[manifestOf(f)] /\ Reached(k, m) /\ Rank[m] \in Nat
      BY <1>2, RankType DEF Sound
  <2> QED BY <1>1, <2>1
<1>3. ReadyCondition(c).status = "True" => ReadyCondition(c).gen <= g.gen
    BY <1>1 DEF Sound
<1> QED BY <1>2, <1>3 DEF Sound

LEMMA GroundedRaised ==
    ASSUME ForwardUsers, NEW vs \in Seq(Obj), vs # <<>>, Ordered(vs, Later),
           NEW f \in Obj, f.exists, NEW k, RemoteOK(k),
           Grounded(vs, f, k)
    PROVE  Grounded(vs, Head(vs), k)
<1>1. /\ Head(vs) \in Obj
      /\ \A i \in 1 .. Len(vs) : vs[i] \in Obj
      /\ Head(vs) = vs[1] /\ 1 \in 1 .. Len(vs)
    BY Ends
<1>2. Head(vs).exists /\ Before(f, Head(vs))
    BY <1>1 DEF Grounded
<1>3. \A i \in 1 .. Len(vs) : Sound(vs[i], Head(vs), Newest(vs), k)
    BY <1>1, <1>2, SoundRaised DEF Grounded
<1>4. \A i \in 1 .. Len(vs) : Before(Head(vs), vs[i])
    BY EndsBefore
<1>5. ASSUME NEW kind \in Kinds, k[kind] # NoManifest
      PROVE  Rank[Running(k, kind)] <= Rank[manifestOf(Head(vs))]
  <2>1. /\ Rank[Running(k, kind)] \in Nat
        /\ Rank[manifestOf(f)] \in Nat /\ Rank[manifestOf(Head(vs))] \in Nat
        /\ Rank[manifestOf(f)] <= Rank[manifestOf(Head(vs))]
      BY <1>1, <1>2, <1>5, ObjectType, RankType, RunningType DEF Before
  <2>2. Rank[Running(k, kind)] <= Rank[manifestOf(f)]
      BY <1>5 DEF Grounded
  <2> QED BY <2>1, <2>2
<1> QED BY <1>3, <1>4, <1>5 DEF Grounded

-----------------------------------------------------------------------------
(* The effects of a step: on the versions, on the copy, on k1s.            *)

\* x is s after a write of the environment or of a reconciler at step p with copy o.
Revised(s, x, p, o) ==
    /\ s.exists
    /\ x.exists
    /\ s.deleting => x.deleting
    /\ \/ x.gen = s.gen /\ x.spec = s.spec
       \/ x.gen = s.gen + 1 /\ (x.spec = s.spec \/ <<s.spec, x.spec>> \in Edits)
    /\ \/ x.hash = s.hash
       \/ p = "patchHash" /\ x.hash = hashBytes(manifestOf(o))
    /\ \/ ReadyCondition(x) = ReadyCondition(s)
       \/ p = "patchStatus" /\ ReadyCondition(x) = ReadyCondition(o)

LEMMA RevisedBefore ==
    ASSUME ForwardUsers, NEW s \in Obj, NEW x \in Obj, NEW p, NEW o, Revised(s, x, p, o)
    PROVE  Before(s, x)
<1>1. s.gen \in Nat /\ s.spec \in Specs /\ x.spec \in Specs /\ Rank[manifestOf(s)] \in Nat
    BY ObjectType, SpecType, RankType DEF Revised
<1>2. Rank[manifestOf(s)] <= Rank[manifestOf(x)]
  <2>1. CASE x.spec = s.spec
      BY <1>1, <2>1 DEF manifestOf
  <2>2. CASE <<s.spec, x.spec>> \in Edits
      BY <1>1, <2>2, RankType DEF manifestOf
  <2> QED BY <2>1, <2>2 DEF Revised
<1>3. s.gen <= x.gen /\ (s.gen = x.gen => x.spec = s.spec)
    BY <1>1 DEF Revised
<1> QED BY <1>2, <1>3 DEF Revised, Before, manifestOf

\* A claim about the newest version says nothing about one that was edited since.
LEMMA SoundLater ==
    ASSUME NEW c \in Obj, NEW f \in Obj, NEW s \in Obj,
           NEW x \in Obj, f.exists, s.exists, x.exists, Before(f, s), Before(s, x),
           NEW k, Sound(c, f, s, k)
    PROVE  Sound(c, f, x, k)
<1>1. /\ f.gen \in Nat /\ s.gen \in Nat /\ x.gen \in Nat /\ ReadyCondition(c).gen \in Nat
      /\ f.gen <= s.gen /\ s.gen <= x.gen
      /\ s.gen = x.gen => manifestOf(s) = manifestOf(x)
    BY ObjectType DEF Before
<1>2. ASSUME ReadyCondition(c).status = "True", ReadyCondition(c).gen = x.gen
      PROVE  Complete(k, manifestOf(x))
  <2>1. ReadyCondition(c).gen <= f.gen
      BY <1>2 DEF Sound
  <2>2. ReadyCondition(c).gen = s.gen /\ s.gen = x.gen
      BY <1>1, <1>2, <2>1
  <2> QED BY <1>1, <1>2, <2>2 DEF Sound
<1> QED BY <1>2 DEF Sound

LEMMA GroundedStored ==
    ASSUME ForwardUsers, NEW vs \in Seq(Obj), vs # <<>>, NEW x \in Obj,
           x.exists, NEW f \in Obj, f.exists, NEW k, Grounded(vs, f, k),
           Before(Newest(vs), x), Sound(x, f, x, k), NEW ws, ws = Append(vs, x)
    PROVE  Grounded(ws, f, k)
<1>1. /\ Len(ws) = Len(vs) + 1 /\ Len(vs) \in Nat \ {0}
      /\ \A i \in 1 .. Len(vs) : ws[i] = vs[i] /\ vs[i] \in Obj
      /\ ws[Len(ws)] = x
      /\ Newest(ws) = x
    BY Ends, Stored DEF Newest
<1>2. /\ Newest(vs) \in Obj /\ Newest(vs).exists /\ Before(f, Newest(vs))
    BY <1>1 DEF Grounded, Newest
<1>3. Before(f, x)
    BY <1>2, BeforeChain
<1>4. ASSUME NEW i \in 1 .. Len(ws)
      PROVE  ws[i].exists /\ Before(f, ws[i]) /\ Sound(ws[i], f, Newest(ws), k)
  <2>1. CASE i \in 1 .. Len(vs)
    <3>1. vs[i].exists /\ Before(f, vs[i]) /\ Sound(vs[i], f, Newest(vs), k)
        BY <2>1 DEF Grounded
    <3>2. Sound(vs[i], f, x, k)
        BY <1>1, <1>2, <2>1, <3>1, SoundLater
    <3> QED BY <1>1, <2>1, <3>1, <3>2
  <2>2. CASE i = Len(ws)
      BY <1>1, <1>3, <2>2
  <2>3. i \in 1 .. Len(vs) \/ i = Len(ws)
      BY <1>1
  <2> QED BY <2>1, <2>2, <2>3
<1> QED BY <1>4 DEF Grounded

\* What a reconcile writes is what its copy says.
LEMMA RevisedSound ==
    ASSUME ForwardUsers, NEW s \in Obj, NEW x \in Obj, NEW p,
           NEW o \in Obj, p # "idle" => o.exists, Revised(s, x, p, o),
           NEW f \in Obj, f.exists, Before(f, s), NEW k, Sound(s, f, s, k),
           p # "idle" => f = o /\ Sound(o, o, s, k),
           p \in AppliedSteps => Reached(k, manifestOf(o))
    PROVE  Sound(x, f, x, k)
<1>1. Before(s, x) /\ s.exists /\ x.exists
    BY RevisedBefore DEF Revised
<1>2. Sound(s, f, x, k) /\ (p # "idle" => Sound(o, f, x, k))
    BY <1>1, SoundLater
<1>3. ASSUME NEW m \in Manifests, x.hash = hashBytes(m)
      PROVE  Rank[m] <= Rank[manifestOf(f)] /\ Reached(k, m)
  <2>1. CASE x.hash = s.hash
      BY <1>2, <1>3, <2>1 DEF Sound
  <2>2. CASE p = "patchHash" /\ x.hash = hashBytes(manifestOf(o))
    <3>1. m = manifestOf(o) /\ f = o /\ Reached(k, manifestOf(o))
        BY <1>3, <2>2, HashFacts DEF AppliedSteps
    <3>2. Rank[m] \in Nat
        BY RankType
    <3> QED BY <3>1, <3>2
  <2> QED BY <2>1, <2>2 DEF Revised
<1>4. \/ ReadyCondition(x) = ReadyCondition(s)
      \/ p # "idle" /\ ReadyCondition(x) = ReadyCondition(o)
    BY DEF Revised
<1> QED BY <1>2, <1>3, <1>4 DEF Sound

LEMMA HonestStored ==
    ASSUME ForwardUsers, NEW vs \in Seq(Obj), vs # <<>>, NEW x \in Obj,
           NEW p, NEW o \in Obj, p # "idle" => o.exists,
           NEW k, Honest(vs, p, o, k),
           Revised(Newest(vs), x, p, o), NEW ws, ws = Append(vs, x)
    PROVE  Honest(ws, p, o, k)
<1> DEFINE s == Newest(vs)
<1>1. /\ Len(ws) = Len(vs) + 1 /\ Len(vs) \in Nat \ {0}
      /\ \A i \in 1 .. Len(vs) : ws[i] = vs[i] /\ vs[i] \in Obj
      /\ ws[Len(ws)] = x
      /\ Newest(ws) = x
      /\ Head(ws) = Head(vs) /\ Head(vs) = vs[1]
      /\ s \in Obj
      /\ s = vs[Len(vs)] /\ 1 \in 1 .. Len(vs) /\ Len(vs) \in 1 .. Len(vs)
    BY Ends, Stored DEF Newest
<1> SUFFICES ASSUME Live(x)
             PROVE  Ordered(ws, Later) /\ Unbroken(ws) /\ FloorHolds(ws, p, o, k)
    BY <1>1 DEF Honest
<1>2. s.exists /\ x.exists /\ Before(s, x) /\ Live(s)
    BY <1>1, RevisedBefore DEF Revised, Live
<1>3. Ordered(vs, Later) /\ Unbroken(vs) /\ FloorHolds(vs, p, o, k)
    BY <1>2 DEF Honest
<1>4. Ordered(ws, Later)
  <2>1. \A i \in 1 .. Len(vs) : Before(vs[i], x)
      BY <1>1, <1>2, <1>3, EndsBefore, BeforeChain
  <2>2. \A i \in 1 .. Len(vs) : <<vs[i], x>> \in Later
      BY <1>1, <2>1 DEF Later
  <2> QED BY <1>3, <2>2, OrderedStored
<1>5. Unbroken(ws)
    BY <1>1, <1>2, <1>3, UnbrokenStored
<1>6. FloorHolds(ws, p, o, k)
  <2>1. CASE p # "idle"
    <3>1. /\ Grounded(vs, o, k) /\ Sound(o, o, s, k)
          /\ p \in AppliedSteps => Reached(k, manifestOf(o))
          /\ p \in DeleteSteps => o.deleting
        BY <1>3, <2>1 DEF FloorHolds
    <3>2. Before(o, s) /\ Sound(s, o, s, k)
        BY <1>1, <3>1 DEF Grounded
    <3>3. Sound(x, o, x, k)
        BY <1>1, <2>1, <3>1, <3>2, RevisedSound
    <3>4. Grounded(ws, o, k)
        BY <1>1, <1>2, <2>1, <3>1, <3>3, GroundedStored
    <3>5. Sound(o, o, x, k)
        BY <1>1, <1>2, <2>1, <3>1, <3>2, SoundLater
    <3> QED BY <1>1, <2>1, <3>1, <3>4, <3>5 DEF FloorHolds
  <2>2. CASE p = "idle" /\ Head(vs).exists
    <3>1. Grounded(vs, Head(vs), k)
        BY <1>3, <2>2 DEF FloorHolds
    <3>2. Before(Head(vs), s) /\ Sound(s, Head(vs), s, k)
        BY <1>1, <3>1 DEF Grounded
    <3>3. Sound(x, Head(vs), x, k)
        BY <1>1, <2>2, <3>2, RevisedSound DEF AppliedSteps
    <3>4. Grounded(ws, Head(vs), k)
        BY <1>1, <1>2, <2>2, <3>1, <3>3, GroundedStored
    <3> QED BY <1>1, <2>2, <3>4 DEF FloorHolds
  <2>3. CASE p = "idle" /\ ~Head(vs).exists
    <3>1. Untouched(vs, k)
        BY <1>3, <2>3 DEF FloorHolds
    <3>2. Blank(x)
        BY <1>1, <2>3, <3>1 DEF Untouched, Blank, Revised
    <3>3. \A i \in 1 .. Len(ws) : i \in 1 .. Len(vs) \/ i = Len(ws)
        BY <1>1
    <3>4. Untouched(ws, k)
        BY <1>1, <3>1, <3>2, <3>3 DEF Untouched
    <3> QED BY <1>1, <2>3, <3>4 DEF FloorHolds
  <2> QED BY <2>1, <2>2, <2>3
<1> QED BY <1>4, <1>5, <1>6

\* The object is created.
LEMMA HonestBorn ==
    ASSUME NEW vs \in Seq(Obj), vs # <<>>, NEW p, NEW o, NEW k, Unborn(vs, p, k),
           NEW spec \in Specs, NEW ws, ws = Append(vs, NewObject(spec))
    PROVE  Honest(ws, p, o, k)
<1> DEFINE x == NewObject(spec)
<1>0. /\ x \in Obj
      /\ Blank(x) /\ Blank(NoObject)
      /\ ~NoObject.exists
  <2>1. NoStatus.conds["Ready"].status # "True"
      BY DEF NoStatus, ConditionTypes, NoCondition
  <2> QED BY <2>1, NoObjectType, NewObjectType
          DEF NewObject, NoObject, Blank, ReadyCondition
<1> HIDE DEF x
<1>1. /\ Len(ws) = Len(vs) + 1 /\ Len(vs) \in Nat \ {0}
      /\ \A i \in 1 .. Len(vs) : ws[i] = vs[i] /\ vs[i] \in Obj
      /\ ws[Len(ws)] = x
      /\ Head(ws) = Head(vs) /\ Head(vs) = vs[1]
    BY <1>0, Ends, Stored DEF x
<1>2. \A i \in 1 .. Len(vs) : vs[i] = NoObject
    BY DEF Unborn
<1>3. \A i \in 1 .. Len(ws) : i \in 1 .. Len(vs) \/ i = Len(ws)
    BY <1>1
<1>4. Untouched(ws, k)
    BY <1>0, <1>1, <1>2, <1>3 DEF Untouched, Unborn
<1>5. Ordered(ws, Later)
  <2>1. \A i \in 1 .. Len(vs) : <<vs[i], x>> \in Later
      BY <1>0, <1>1, <1>2 DEF Later, Before
  <2>2. Ordered(vs, Later)
      BY <1>0, <1>1, <1>2 DEF Ordered, Later, Before
  <2> QED BY <1>0, <2>1, <2>2, OrderedStored DEF x
<1>6. Unbroken(ws)
  <2>1. Unbroken(vs) /\ \A i \in 1 .. Len(vs) : ~vs[i].exists
      BY <1>0, <1>2 DEF Unbroken
  <2> QED BY <1>0, <2>1, UnbrokenStored DEF x
<1>7. p = "idle" /\ ~Head(ws).exists
    BY <1>0, <1>1, <1>2 DEF Unborn
<1> QED BY <1>4, <1>5, <1>6, <1>7 DEF Honest, FloorHolds

\* Fewer versions with the same newest one.
LEMMA GroundedDelivered ==
    ASSUME NEW vs \in Seq(Obj), NEW n \in 2 .. Len(vs),
           NEW ws, ws = SubSeq(vs, n, Len(vs)), NEW k
    PROVE  /\ \A f : Grounded(vs, f, k) => Grounded(ws, f, k)
           /\ Untouched(vs, k) => Untouched(ws, k)
<1>1. \A i \in 1 .. Len(ws) : i + n - 1 \in 1 .. Len(vs) /\ ws[i] = vs[i + n - 1]
    BY DeliveredElements
<1>2. Newest(ws) = Newest(vs)
    BY Delivered DEF Newest
<1> QED BY <1>1, <1>2 DEF Grounded, Untouched

\* The cache catches up, by one version or by several.
LEMMA HonestDelivered ==
    ASSUME ForwardUsers, NEW vs \in Seq(Obj), vs # <<>>, NEW p, NEW o,
           NEW k, RemoteOK(k), Honest(vs, p, o, k),
           NEW n \in 2 .. Len(vs), NEW ws, ws = SubSeq(vs, n, Len(vs))
    PROVE  Honest(ws, p, o, k)
<1>1. /\ ws \in Seq(Obj) /\ ws # <<>>
      /\ Newest(ws) = Newest(vs)
    BY Delivered DEF Newest
<1> SUFFICES ASSUME Live(Newest(vs))
             PROVE  Ordered(ws, Later) /\ Unbroken(ws) /\ FloorHolds(ws, p, o, k)
    BY <1>1 DEF Honest
<1>2. Ordered(vs, Later) /\ Unbroken(vs) /\ FloorHolds(vs, p, o, k)
    BY DEF Honest
<1>3. Ordered(ws, Later) /\ Unbroken(ws)
    BY <1>2, RelationsDelivered
<1>4. /\ Head(vs) \in Obj
      /\ \A i \in 1 .. Len(ws) : ws[i] \in Obj
      /\ Head(ws) = ws[1] /\ 1 \in 1 .. Len(ws)
    BY <1>1, Ends
<1>5. CASE p # "idle"
  <2>1. Grounded(ws, o, k)
      BY <1>2, <1>5, GroundedDelivered DEF FloorHolds
  <2> QED BY <1>1, <1>2, <1>3, <1>5, <2>1 DEF FloorHolds
<1>6. CASE p = "idle" /\ Head(vs).exists
  <2>1. Grounded(ws, Head(vs), k)
      BY <1>2, <1>6, GroundedDelivered DEF FloorHolds
  <2>2. Grounded(ws, Head(ws), k)
      BY <1>1, <1>3, <1>4, <1>6, <2>1, GroundedRaised
  <2>3. Head(ws).exists
      BY <1>4, <2>1 DEF Grounded
  <2> QED BY <1>3, <1>6, <2>2, <2>3 DEF FloorHolds
<1>7. CASE p = "idle" /\ ~Head(vs).exists
  <2>1. Untouched(ws, k)
      BY <1>2, <1>7, GroundedDelivered DEF FloorHolds
  <2>2. ASSUME Head(ws).exists
        PROVE  Grounded(ws, Head(ws), k)
    <3>1. \A i \in 1 .. Len(ws) : ws[i].exists /\ Before(Head(ws), ws[i])
        BY <1>1, <1>3, <2>2, AllExist, EndsBefore DEF Live
    <3>2. \A i \in 1 .. Len(ws) : Sound(ws[i], Head(ws), Newest(ws), k)
        BY <2>1, BlankIsSound DEF Untouched
    <3> QED BY <2>1, <3>1, <3>2 DEF Grounded, Untouched, NothingRuns
  <2> QED BY <1>3, <1>7, <2>1, <2>2 DEF FloorHolds
<1> QED BY <1>5, <1>6, <1>7

\* Reconcile returns.
LEMMA HonestIdle ==
    ASSUME ForwardUsers, NEW vs \in Seq(Obj), vs # <<>>, NEW p,
           NEW o \in Obj, p # "idle" => o.exists,
           NEW k, RemoteOK(k), Honest(vs, p, o, k), NEW q
    PROVE  Honest(vs, "idle", q, k)
<1> SUFFICES ASSUME Live(Newest(vs)), p # "idle"
             PROVE  FloorHolds(vs, "idle", q, k)
    BY DEF Honest, FloorHolds
<1>1. Grounded(vs, o, k) /\ Ordered(vs, Later)
    BY DEF Honest, FloorHolds
<1>2. Grounded(vs, Head(vs), k)
    BY <1>1, GroundedRaised
<1>3. Head(vs).exists
    BY <1>1, Ends DEF Grounded
<1> QED BY <1>2, <1>3 DEF FloorHolds

\* The manager restarts.
LEMMA HonestRestarted ==
    ASSUME ForwardUsers, NEW vs \in Seq(Obj), vs # <<>>, NEW p,
           NEW o \in Obj, p # "idle" => o.exists,
           NEW k, RemoteOK(k), Honest(vs, p, o, k),
           NEW q, NEW ws, ws = <<Newest(vs)>>
    PROVE  Honest(ws, "idle", q, k)
<1>1. Honest(vs, "idle", q, k)
    BY HonestIdle
<1>2. CASE Len(vs) = 1
  <2>1. ws = vs
      BY <1>2 DEF Newest
  <2> QED BY <1>1, <2>1
<1>3. CASE Len(vs) \in 2 .. Len(vs)
  <2>1. ws = SubSeq(vs, Len(vs), Len(vs))
      BY <1>3 DEF Newest
  <2> QED BY <1>1, <1>3, <2>1, HonestDelivered
<1> QED BY <1>2, <1>3, Ends

\* Reconcile begins with the cached object.
LEMMA HonestEntered ==
    ASSUME NEW vs \in Seq(Obj), vs # <<>>, NEW o, NEW k, Honest(vs, "idle", o, k),
           Head(vs).exists, NEW p,
           p \in AppliedSteps => Head(vs).hash = hashBytes(manifestOf(Head(vs))),
           p \in DeleteSteps => Head(vs).deleting
    PROVE  Honest(vs, p, Head(vs), k)
<1> SUFFICES ASSUME Live(Newest(vs)), p # "idle"
             PROVE  FloorHolds(vs, p, Head(vs), k)
    BY DEF Honest, FloorHolds
<1>1. Grounded(vs, Head(vs), k)
    BY DEF Honest, FloorHolds
<1>2. Sound(Head(vs), Head(vs), Newest(vs), k) /\ manifestOf(Head(vs)) \in Manifests
    BY <1>1, Ends, ObjectType DEF Grounded
<1>3. p \in AppliedSteps => Reached(k, manifestOf(Head(vs)))
    BY <1>2 DEF Sound
<1> QED BY <1>1, <1>2, <1>3 DEF FloorHolds

\* Once the manifest of the copy is applied, it is this manifest that runs.
LEMMA HonestRunning ==
    ASSUME ForwardUsers, NEW vs, NEW p \in AppliedSteps, NEW o \in Obj, o.exists,
           NEW k, RemoteOK(k), Honest(vs, p, o, k), Live(Newest(vs)),
           k[kindOf(o.spec)] # NoManifest
    PROVE  k[kindOf(o.spec)].rev = manifestOf(o).rev
<1> DEFINE kind == kindOf(o.spec)
           m == Running(k, kind)
<1>1. /\ kind \in Kinds /\ manifestOf(o) \in Manifests /\ manifestOf(o).kind = kind
    BY ObjectType DEF kindOf, Kinds
<1>2. m \in Manifests /\ m.rev = k[kind].rev
    BY <1>1, RunningType DEF Running
<1>3. p # "idle"
    BY DEF AppliedSteps
<1>4. Grounded(vs, o, k) /\ Reached(k, manifestOf(o))
    BY <1>3 DEF Honest, FloorHolds
<1>5. Rank[m] <= Rank[manifestOf(o)] /\ Rank[manifestOf(o)] <= Rank[m]
    BY <1>1, <1>4 DEF Grounded, Reached
<1>6. Rank[m] \in Nat /\ Rank[manifestOf(o)] \in Nat
    BY <1>1, <1>2, RankType
<1>7. m = manifestOf(o)
    BY <1>1, <1>2, <1>5, <1>6, RankType
<1> QED BY <1>2, <1>7

\* Reconcile goes on with its copy, or with one of another status: with the same
\* Ready condition, with one that is not True, or with a true one.
LEMMA HonestRewritten ==
    ASSUME NEW vs \in Seq(Obj), vs # <<>>, NEW p, NEW o \in Obj, NEW k,
           Honest(vs, p, o, k), p # "idle", o.exists, NEW q, q # "idle",
           NEW w \in Obj, w.exists, w.gen = o.gen, w.spec = o.spec, w.hash = o.hash,
           w.deleting = o.deleting,
           q \in AppliedSteps => p \in AppliedSteps \/ Reached(k, manifestOf(o)),
           q \in DeleteSteps => p \in DeleteSteps,
           \/ ReadyCondition(w) = ReadyCondition(o)
           \/ ReadyCondition(w).status # "True"
           \/ /\ ReadyCondition(w).gen = o.gen
              /\ Live(Newest(vs)) => Complete(k, manifestOf(o))
    PROVE  Honest(vs, q, w, k)
<1> SUFFICES ASSUME Live(Newest(vs))
             PROVE  FloorHolds(vs, q, w, k)
    BY DEF Honest
<1>0. manifestOf(w) = manifestOf(o)
    BY DEF manifestOf
<1>1. /\ Grounded(vs, o, k) /\ Sound(o, o, Newest(vs), k)
      /\ p \in AppliedSteps => Reached(k, manifestOf(o))
      /\ p \in DeleteSteps => o.deleting
    BY DEF Honest, FloorHolds
<1>2. Before(o, Newest(vs))
    BY <1>1, Ends DEF Grounded, Newest
<1>3. Grounded(vs, w, k)
  <2>1. \A v : Before(o, v) => Before(w, v)
      BY <1>0 DEF Before
  <2>2. \A c, s : Sound(c, o, s, k) => Sound(c, w, s, k)
      BY <1>0 DEF Sound
  <2> QED BY <1>0, <1>1, <2>1, <2>2 DEF Grounded
<1>4. Sound(w, w, Newest(vs), k)
  <2>1. \A m \in Manifests : w.hash = hashBytes(m) =>
            Rank[m] <= Rank[manifestOf(w)] /\ Reached(k, m)
      BY <1>0, <1>1 DEF Sound
  <2>2. CASE ReadyCondition(w) = ReadyCondition(o)
      BY <1>1, <2>1, <2>2 DEF Sound
  <2>3. CASE ReadyCondition(w).status # "True"
      BY <2>1, <2>3 DEF Sound
  <2>4. CASE ReadyCondition(w).gen = o.gen /\ Complete(k, manifestOf(o))
    <3>1. w.gen <= w.gen
        BY ObjectType
    <3>2. Newest(vs).gen = o.gen => manifestOf(Newest(vs)) = manifestOf(o)
        BY <1>2 DEF Before, Live
    <3> QED BY <2>1, <2>4, <3>1, <3>2 DEF Sound
  <2> QED BY <2>2, <2>3, <2>4
<1> QED BY <1>0, <1>1, <1>3, <1>4 DEF FloorHolds

\* A reconcile that deletes tells of an object that is no longer live.
LEMMA HonestDeleting ==
    ASSUME NEW vs \in Seq(Obj), vs # <<>>, NEW p \in DeleteSteps, NEW o, o.exists, NEW k,
           Honest(vs, p, o, k)
    PROVE  ~Live(Newest(vs))
<1> SUFFICES ASSUME Live(Newest(vs)) PROVE FALSE
    OBVIOUS
<1>1. p # "idle"
    BY DEF DeleteSteps
<1>2. Grounded(vs, o, k) /\ o.deleting
    BY <1>1 DEF Honest, FloorHolds
<1>3. Before(o, Newest(vs))
    BY <1>2, Ends DEF Grounded, Newest
<1> QED BY <1>2, <1>3 DEF Before, Live

\* k1s runs more cells of what it runs: a claim that all are up was true before.
LEMMA HonestGrown ==
    ASSUME NEW vs \in Seq(Obj), vs # <<>>, NEW p, NEW o \in Obj, p # "idle" => o.exists,
           NEW k, Honest(vs, p, o, k), NEW l,
           \A kind \in Kinds :
               \/ l[kind] = k[kind]
               \/ /\ k[kind] # NoManifest /\ l[kind] # NoManifest
                  /\ l[kind].rev = k[kind].rev
                  /\ k[kind].up # Cells(kind)
    PROVE  Honest(vs, p, o, l)
<1>1. \A kind \in Kinds : /\ l[kind] = NoManifest <=> k[kind] = NoManifest
                          /\ l[kind] # NoManifest => Running(l, kind) = Running(k, kind)
    BY DEF Running
<1>2. \A m : m.kind \in Kinds /\ Reached(k, m) => Reached(l, m)
    BY <1>1 DEF Reached
<1>3. \A m : m.kind \in Kinds /\ Complete(k, m) => Complete(l, m)
    BY DEF Complete
<1>4. \A m \in Manifests : m.kind \in Kinds
    BY DEF Manifests
<1>5. ASSUME NEW s \in Obj, s.exists, NEW c, NEW f, Sound(c, f, s, k)
      PROVE  Sound(c, f, s, l)
  <2>1. manifestOf(s).kind \in Kinds
      BY <1>4, <1>5, ObjectType
  <2> QED BY <1>2, <1>3, <1>4, <1>5, <2>1 DEF Sound
<1>6. Untouched(vs, k) => Untouched(vs, l)
    BY <1>1 DEF Untouched, NothingRuns
<1> SUFFICES ASSUME Live(Newest(vs))
             PROVE  FloorHolds(vs, p, o, l)
    BY DEF Honest
<1>7. Newest(vs) \in Obj /\ Newest(vs).exists
    BY Ends DEF Newest, Live
<1>8. \A f : Grounded(vs, f, k) => Grounded(vs, f, l)
    BY <1>1, <1>5, <1>7 DEF Grounded
<1>9. FloorHolds(vs, p, o, k)
    BY DEF Honest
<1>10. CASE p # "idle"
  <2>1. manifestOf(o).kind \in Kinds
      BY <1>4, <1>10, ObjectType
  <2> QED BY <1>2, <1>5, <1>7, <1>8, <1>9, <1>10, <2>1 DEF FloorHolds
<1>11. CASE p = "idle"
    BY <1>6, <1>8, <1>9, <1>11 DEF FloorHolds
<1> QED BY <1>10, <1>11

\* Reconcile applies the manifest of its copy. If that runs already, nothing
\* changes; if something else runs, nobody could claim that the copy is served.
LEMMA HonestApplied ==
    ASSUME ForwardUsers, NEW vs \in Seq(Obj), vs # <<>>, NEW p, NEW o \in Obj, p # "idle",
           o.exists, NEW k, RemoteOK(k), Honest(vs, p, o, k), NEW l, RemoteOK(l),
           \A kind \in Kinds : kind # manifestOf(o).kind => l[kind] = k[kind],
           l[manifestOf(o).kind] # NoManifest,
           l[manifestOf(o).kind].rev = manifestOf(o).rev,
           (k[manifestOf(o).kind] # NoManifest /\ k[manifestOf(o).kind].rev = manifestOf(o).rev)
               => l = k
    PROVE  Honest(vs, p, o, l) /\ Reached(l, manifestOf(o))
<1> DEFINE m == manifestOf(o)
<1>1. /\ m \in Manifests /\ m.kind \in Kinds /\ Rank[m] \in Nat
      /\ m = [kind |-> m.kind, rev |-> m.rev]
    BY ObjectType, RankType DEF Manifests
<1>2. Running(l, m.kind) = m
    BY <1>1 DEF Running
<1>3. Reached(l, m)
    BY <1>1, <1>2 DEF Reached
<1>4. ASSUME NEW n \in Manifests, Rank[n] <= Rank[m], Reached(k, n)
      PROVE  Reached(l, n)
  <2>1. CASE n.kind = m.kind
      BY <1>2, <1>4, <2>1 DEF Reached
  <2>2. CASE n.kind # m.kind
    <3>1. n.kind \in Kinds
        BY DEF Manifests
    <3>2. l[n.kind] = k[n.kind]
        BY <2>2, <3>1
    <3> QED BY <1>4, <3>2 DEF Reached, Running
  <2> QED BY <2>1, <2>2
<1>5. Complete(k, m) => l = k
  <2> SUFFICES ASSUME Complete(k, m) PROVE l = k
      OBVIOUS
  <2>1. k[m.kind].rev = m.rev
      BY DEF Complete
  <2>2. [rev |-> m.rev, up |-> Cells(m.kind)] \in Deployments
    <3>1. Cells(m.kind) \in Nat
        BY SpecAssumption DEF Cells, MaxNumeral
    <3> QED BY <1>1, <3>1 DEF Deployments, Manifests
  <2>3. k[m.kind] # NoManifest
      BY <2>2, SpecAssumption DEF Complete
  <2> QED BY <2>1, <2>3
<1>6. ASSUME Live(Newest(vs))
      PROVE  FloorHolds(vs, p, o, l)
  <2>1. /\ Grounded(vs, o, k) /\ Sound(o, o, Newest(vs), k)
        /\ p \in DeleteSteps => o.deleting
      BY <1>6 DEF Honest, FloorHolds
  <2>2. /\ \A i \in 1 .. Len(vs) : vs[i] \in Obj
        /\ Newest(vs) \in Obj /\ Before(o, Newest(vs)) /\ Newest(vs).exists
      BY <1>6, <2>1, Ends DEF Grounded, Newest, Live
  <2>3. ASSUME NEW c \in Obj, Sound(c, o, Newest(vs), k)
        PROVE  Sound(c, o, Newest(vs), l)
    <3>1. ASSUME ReadyCondition(c).status = "True",
                 ReadyCondition(c).gen = Newest(vs).gen
          PROVE  Complete(l, manifestOf(Newest(vs)))
      <4>1. /\ Newest(vs).gen <= o.gen /\ o.gen <= Newest(vs).gen
            /\ o.gen \in Nat /\ Newest(vs).gen \in Nat
          BY <2>2, <2>3, <3>1, ObjectType DEF Sound, Before
      <4>2. o.gen = Newest(vs).gen
          BY <4>1
      <4>3. manifestOf(Newest(vs)) = m
          BY <2>2, <4>2 DEF Before
      <4>4. Complete(k, m)
          BY <2>3, <3>1, <4>3 DEF Sound
      <4> QED BY <1>5, <4>3, <4>4
    <3> QED BY <1>4, <2>3, <3>1 DEF Sound
  <2>4. ASSUME NEW kind \in Kinds, l[kind] # NoManifest
        PROVE  Rank[Running(l, kind)] <= Rank[m]
    <3>1. CASE kind = m.kind
        BY <1>1, <1>2, <3>1
    <3>2. CASE kind # m.kind
      <4>1. l[kind] = k[kind]
          BY <3>2
      <4> QED BY <2>1, <2>4, <4>1 DEF Grounded, Running
    <3> QED BY <3>1, <3>2
  <2>5. Grounded(vs, o, l)
      BY <2>1, <2>2, <2>3, <2>4 DEF Grounded
  <2> QED BY <1>3, <2>1, <2>3, <2>5 DEF FloorHolds
<1> QED BY <1>3, <1>6 DEF Honest

-----------------------------------------------------------------------------
(* The steps of Reconcile and the Ready condition.                         *)

\* A cell set is read as ready when all its cells are up, and a cell when it is.
LEMMA ReadyAnswer ==
    ASSUME NEW kind \in Kinds, RemoteOK(k1s), k1s[kind] # NoManifest,
           NEW reply \in inferenceReplies(kind), ParseInferenceStatus(reply).ready
    PROVE  k1s[kind].up = Cells(kind)
<1> DEFINE up == k1s[kind].up
<1>1. up \in Nat /\ up <= Cells(kind) /\ Replicas \in Nat \ {0}
  <2>1. k1s[kind] \in Deployments
      BY DEF RemoteOK
  <2> QED BY <2>1, SpecAssumption DEF RemoteOK, Deployments, MaxNumeral
<1> HIDE DEF up
<1>2. CASE kind = "InferenceCellSet"
  <2> DEFINE r == [kind |-> Str(kind), ready |-> Num(up), desired |-> Num(Replicas),
                   phase |-> Absent, status |-> Str("Running"), last_error |-> Absent]
  <2>1. reply = r
      BY <1>2 DEF inferenceReplies, up
  <2>2. boolv(Num(up)) = FALSE /\ i32(Num(up)) = up /\ i32(Num(Replicas)) = Replicas
      BY DEF boolv, i32, Num
  <2>3. firstStatus(str(Absent), str(Str("Running"))) = "Running"
      BY DEF firstStatus, str, Absent, Str
  <2>4. ~equalFoldReady("Running")
      BY DEF equalFoldReady
  <2>5. /\ r.ready = Num(up) /\ r.desired = Num(Replicas)
        /\ r.phase = Absent /\ r.status = Str("Running")
      OBVIOUS
  <2> HIDE DEF r
  <2>6. i32(Num(up)) >= i32(Num(Replicas))
      BY <2>1, <2>2, <2>3, <2>4, <2>5 DEF ParseInferenceStatus
  <2> QED BY <1>1, <1>2, <2>2, <2>6 DEF Cells, up
<1>3. CASE kind = "InferenceCell"
  <2>1. Cells(kind) = 1
      BY <1>3 DEF Cells
  <2>2. CASE up = 0
    <3> DEFINE r1 == [kind |-> Str(kind), ready |-> Bool(FALSE), desired |-> Absent,
                      phase |-> Str("Pending"), status |-> Str("Running"),
                      last_error |-> Absent]
               r2 == [kind |-> Str(kind), ready |-> Absent, desired |-> Absent,
                      phase |-> Str("Failed"), status |-> Str("Running"),
                      last_error |-> Str("no memory")]
    <3>1. reply = r1 \/ reply = r2
        BY <1>3, <2>2 DEF inferenceReplies, up
    <3>2. boolv(Bool(FALSE)) = FALSE /\ boolv(Absent) = FALSE
        BY DEF boolv, Bool, Absent
    <3>3. /\ firstStatus(str(Str("Pending")), str(Str("Running"))) = "Pending"
          /\ firstStatus(str(Str("Failed")), str(Str("Running"))) = "Failed"
        BY DEF firstStatus, str, Str
    <3>4. ~equalFoldReady("Pending") /\ ~equalFoldReady("Failed")
        BY DEF equalFoldReady
    <3>5. str(Str(kind)) # "InferenceCellSet"
        BY <1>3 DEF str, Str
    <3>6. /\ r1.kind = Str(kind) /\ r1.ready = Bool(FALSE)
          /\ r1.phase = Str("Pending") /\ r1.status = Str("Running")
          /\ r2.kind = Str(kind) /\ r2.ready = Absent
          /\ r2.phase = Str("Failed") /\ r2.status = Str("Running")
        OBVIOUS
    <3> HIDE DEF r1, r2
    <3>7. ~ParseInferenceStatus(r1).ready
        BY <3>2, <3>3, <3>4, <3>5, <3>6 DEF ParseInferenceStatus
    <3>8. ~ParseInferenceStatus(r2).ready
        BY <3>2, <3>3, <3>4, <3>5, <3>6 DEF ParseInferenceStatus
    <3> QED BY <3>1, <3>7, <3>8
  <2> QED BY <1>1, <2>1, <2>2 DEF up
<1> QED BY <1>2, <1>3 DEF Kinds

\* The Ready condition of the statuses that Reconcile computes.
LEMMA ComputedReady ==
    ASSUME NEW o \in Obj
    PROVE  /\ credentialsMissing(o).conds["Ready"] = ReadyCondition(o)
           /\ [deleteFailed(o) EXCEPT !.lastError = TRUE].conds["Ready"] = ReadyCondition(o)
           /\ \A ok, ready, error \in BOOLEAN :
                 /\ reconciled(o, ok, ready, error).conds["Ready"].gen = o.gen
                 /\ ~ready => reconciled(o, ok, ready, error).conds["Ready"].status # "True"
<1>1. o.status \in K1sInferenceEndpointStatus /\ o.status.conds \in Conditions
    BY ObjectType DEF K1sInferenceEndpointStatus
<1>2. /\ credentialsMissing(o).conds["Ready"] = ReadyCondition(o)
      /\ [deleteFailed(o) EXCEPT !.lastError = TRUE].conds["Ready"] = ReadyCondition(o)
    BY <1>1 DEF credentialsMissing, deleteFailed, setCondition, ReadyCondition, Conditions,
                ConditionTypes, K1sInferenceEndpointStatus
<1>3. ASSUME NEW ok \in BOOLEAN, NEW ready \in BOOLEAN, NEW error \in BOOLEAN
      PROVE  /\ reconciled(o, ok, ready, error).conds["Ready"].gen = o.gen
             /\ ~ready => reconciled(o, ok, ready, error).conds["Ready"].status # "True"
  <2> DEFINE values == [Accepted |-> "True", Applied |-> conditionStatus(ok),
                        Ready |-> conditionStatus(ready)]
  <2>1. "Ready" \in DOMAIN values /\ values["Ready"] = conditionStatus(ready)
      OBVIOUS
  <2> HIDE DEF values
  <2>2. setConditions(o.status.conds, values, o.gen)["Ready"]
        = [status |-> conditionStatus(ready), gen |-> o.gen]
      BY <1>1, <2>1 DEF setConditions, Conditions, ConditionTypes
  <2>3. reconciled(o, ok, ready, error).conds
        = setConditions(o.status.conds, values, o.gen)
      BY <1>1 DEF reconciled, values, K1sInferenceEndpointStatus
  <2>4. ~ready => conditionStatus(ready) # "True"
      BY DEF conditionStatus
  <2> QED BY <2>2, <2>3, <2>4
<1> QED BY <1>2, <1>3, Zenon

\* Reconcile turns to its last patch.
LEMMA HonestWriteStatus ==
    ASSUME NEW vs \in Seq(Obj), vs # <<>>, NEW p, NEW o \in Obj, NEW k,
           Honest(vs, p, o, k), p # "idle", o.exists, NEW s \in K1sInferenceEndpointStatus,
           NEW r, WriteStatus(o, s, r),
           \/ s.conds["Ready"] = ReadyCondition(o)
           \/ s.conds["Ready"].status # "True"
           \/ /\ s.conds["Ready"].gen = o.gen
              /\ Live(Newest(vs)) => Complete(k, manifestOf(o))
    PROVE  Honest(vs, pc', own', k)
<1> DEFINE w == [o EXCEPT !.status = s]
<1>1. /\ w \in Obj
      /\ w.exists /\ w.gen = o.gen /\ w.spec = o.spec /\ w.hash = o.hash
      /\ w.deleting = o.deleting
      /\ ReadyCondition(w) = s.conds["Ready"]
    BY WithStatus DEF ReadyCondition
<1>2. pc' = "patchStatus" /\ own' = w
    BY DEF WriteStatus
<1>3. "patchStatus" \notin AppliedSteps /\ "patchStatus" \notin DeleteSteps
    BY DEF AppliedSteps, DeleteSteps
<1> HIDE DEF w
<1>4. Honest(vs, "patchStatus", w, k)
    BY <1>1, <1>3, HonestRewritten
<1> QED BY <1>2, <1>4

LEMMA StartServing ==
    ASSUME TypeOK, Honest(versions, pc, own, k1s), Start
    PROVE  Honest(versions, pc', own', k1s)
<1>1. /\ versions \in Seq(Obj) /\ versions # <<>>
      /\ cached = Head(versions) /\ cached \in Obj
      /\ pc = "idle" /\ Honest(versions, "idle", own, k1s)
    BY VersionsType DEF VersionsOK, cached, Start
<1>2. ASSUME cached.exists,
             NEW q, q \in AppliedSteps => cached.hash = hashBytes(manifestOf(cached)),
             q \in DeleteSteps => cached.deleting
      PROVE  Honest(versions, q, cached, k1s)
    BY <1>1, <1>2, HonestEntered
<1>3. CASE ReturnAtOnce
    BY <1>1, <1>3 DEF ReturnAtOnce
<1>4. CASE MissingCredentials
  <2>1. Honest(versions, "patchStatus", cached, k1s)
      BY <1>2, <1>4 DEF AppliedSteps, DeleteSteps, MissingCredentials
  <2>2. /\ credentialsMissing(cached) \in K1sInferenceEndpointStatus
        /\ credentialsMissing(cached).conds["Ready"] = ReadyCondition(cached)
      BY <1>1, <1>4, ComputedStatus, ComputedReady DEF MissingCredentials
  <2> QED BY <1>1, <1>4, <2>1, <2>2, HonestWriteStatus DEF MissingCredentials
<1>5. ASSUME NEW q, Enter(q),
             q \in AppliedSteps => cached.hash = hashBytes(manifestOf(cached)),
             q \in DeleteSteps => cached.deleting
      PROVE  Honest(versions, pc', own', k1s)
    BY <1>2, <1>5 DEF Enter
<1>6. CASE BeginDelete
    BY <1>5, <1>6 DEF BeginDelete, AppliedSteps
<1>7. CASE BeginAddFinalizer
    BY <1>5, <1>7 DEF BeginAddFinalizer, AppliedSteps, DeleteSteps
<1>8. CASE BeginApply
    BY <1>5, <1>8 DEF BeginApply, AppliedSteps, DeleteSteps, manifestHash, manifestOf
<1> QED BY <1>3, <1>4, <1>6, <1>7, <1>8 DEF Start

\* What Reconcile publishes from an answer of k1s is true of the newest object.
LEMMA ObservedServing ==
    ASSUME ForwardUsers, TypeOK, Honest(versions, pc, own, k1s), pc \in AppliedSteps,
           k1s[kindOf(own.spec)] # NoManifest, applyObservedInferenceStatus
    PROVE  Honest(versions, pc', own', k1s)
<1> DEFINE kind == kindOf(own.spec)
<1>1. /\ versions \in Seq(Obj) /\ versions # <<>>
      /\ RemoteOK(k1s) /\ own \in Obj /\ pc # "idle" /\ own.exists
    BY VersionsType, TypeParts DEF VersionsOK, LocalsOK, AppliedSteps
<1>2. kind \in Kinds /\ manifestOf(own).kind = kind
    BY <1>1, ObjectType DEF kindOf, Kinds
<1>3. PICK reply \in inferenceReplies(kind) :
          WriteStatus(own, reconciled(own, TRUE, ParseInferenceStatus(reply).ready,
                                      str(reply.last_error) # ""), "poll")
    BY DEF applyObservedInferenceStatus
<1> DEFINE ready == ParseInferenceStatus(reply).ready
           error == str(reply.last_error) # ""
           s == reconciled(own, TRUE, ready, error)
<1>4. ready \in BOOLEAN /\ error \in BOOLEAN
    BY DEF ParseInferenceStatus
<1>5. s \in K1sInferenceEndpointStatus
    BY <1>1, <1>4, ComputedStatus
<1>6. CASE ready = TRUE
  <2>1. s.conds["Ready"].gen = own.gen
      BY <1>1, <1>4, ComputedReady
  <2>2. Live(Newest(versions)) => Complete(k1s, manifestOf(own))
    <3> SUFFICES ASSUME Live(Newest(versions)) PROVE Complete(k1s, manifestOf(own))
        OBVIOUS
    <3>1. k1s[kind].up = Cells(kind)
        BY <1>1, <1>2, <1>6, ReadyAnswer
    <3>2. k1s[kind].rev = manifestOf(own).rev
        BY <1>1, HonestRunning
    <3>3. k1s[kind] \in Deployments
        BY <1>1, <1>2 DEF RemoteOK
    <3>4. k1s[kind] = [rev |-> k1s[kind].rev, up |-> k1s[kind].up]
        BY <3>3 DEF Deployments
    <3> QED BY <1>2, <3>1, <3>2, <3>4 DEF Complete
  <2> HIDE DEF s
  <2>3. WriteStatus(own, s, "poll")
      BY <1>3 DEF s
  <2> QED BY <1>1, <1>5, <2>1, <2>2, <2>3, HonestWriteStatus
<1>7. CASE ready = FALSE
  <2>1. s.conds["Ready"].status # "True"
      BY <1>1, <1>4, <1>7, ComputedReady
  <2> HIDE DEF s
  <2>2. WriteStatus(own, s, "poll")
      BY <1>3 DEF s
  <2> QED BY <1>1, <1>5, <2>1, <2>2, HonestWriteStatus
<1> QED BY <1>4, <1>6, <1>7

\* What POST /apply does with the manifest of the copy.
LEMMA ApplyServing ==
    ASSUME ForwardUsers, TypeOK, Honest(versions, pc, own, k1s), pc # "idle",
           NEW l, l = applied(buildInferenceManifest(own.spec))
    PROVE  Honest(versions, pc, own, l) /\ Reached(l, manifestOf(own))
<1> DEFINE m == manifestOf(own)
           fresh == [rev |-> m.rev, up |-> 0]
<1>1. /\ versions \in Seq(Obj) /\ versions # <<>>
      /\ RemoteOK(k1s) /\ own \in Obj /\ own.exists
    BY VersionsType, TypeParts DEF VersionsOK, LocalsOK
<1>2. m \in Manifests /\ m.kind \in Kinds
    BY <1>1, ObjectType DEF kindOf, Kinds
<1>3. RemoteOK(l)
    BY <1>1, SpecType, AppliedType
<1>4. l = applied(m)
    BY DEF manifestOf
<1>5. fresh \in Deployments /\ fresh.rev = m.rev /\ fresh # NoManifest
  <2>1. fresh \in Deployments /\ fresh.rev = m.rev
      BY <1>2 DEF Deployments, Manifests
  <2> QED BY <2>1, SpecAssumption
<1> HIDE DEF m, fresh
<1>6. l = [k1s EXCEPT ![m.kind] =
              IF @ # NoManifest /\ @.rev = m.rev THEN @ ELSE fresh]
    BY <1>4 DEF applied, fresh
<1>7. \A kind \in Kinds : kind # m.kind => l[kind] = k1s[kind]
    BY <1>1, <1>6 DEF RemoteOK
<1>8. CASE k1s[m.kind] # NoManifest /\ k1s[m.kind].rev = m.rev
  <2>1. l = k1s
      BY <1>1, <1>2, <1>6, <1>8 DEF RemoteOK
  <2> QED BY <1>1, <1>7, <1>8, <2>1, HonestApplied DEF m
<1>9. CASE ~(k1s[m.kind] # NoManifest /\ k1s[m.kind].rev = m.rev)
  <2>1. l[m.kind] = fresh
      BY <1>1, <1>2, <1>6, <1>9 DEF RemoteOK
  <2> QED BY <1>1, <1>3, <1>5, <1>7, <1>9, <2>1, HonestApplied DEF m
<1> QED BY <1>8, <1>9

\* A call to k1s, with what Reconcile makes of the answer.
LEMMA CallServing ==
    ASSUME ForwardUsers, TypeOK, Honest(versions, pc, own, k1s),
           \/ DeleteInference \/ DeleteInferenceFails \/ CheckStatus
           \/ Apply \/ ApplyFails \/ ReadStatus
    PROVE  Honest(versions, pc', own', k1s')
<1>1. /\ versions \in Seq(Obj) /\ versions # <<>>
      /\ RemoteOK(k1s) /\ own \in Obj /\ pc # "idle" /\ own.exists
    BY VersionsType, TypeParts
    DEF VersionsOK, LocalsOK, DeleteInference, DeleteInferenceFails, CheckStatus, Apply,
        ApplyFails, ReadStatus
<1>2. ASSUME NEW k, Honest(versions, pc, own, k), NEW q, q # "idle", Goto(q),
             q \in AppliedSteps => pc \in AppliedSteps \/ Reached(k, manifestOf(own)),
             q \notin DeleteSteps
      PROVE  Honest(versions, pc', own', k)
    BY <1>1, <1>2, HonestRewritten DEF Goto
<1>3. CASE DeleteInference \/ DeleteInferenceFails
  <2>1. pc \in DeleteSteps
      BY <1>3 DEF DeleteInference, DeleteInferenceFails, DeleteSteps
  <2>2. ~Live(Newest(versions))
      BY <1>1, <2>1, HonestDeleting
  <2> QED BY <2>2 DEF Honest
<1>4. ASSUME NEW k, Honest(versions, pc, own, k), NEW ok \in BOOLEAN,
             WriteStatus(own, reconciled(own, ok, FALSE, TRUE), "poll")
      PROVE  Honest(versions, pc', own', k)
  <2>1. /\ reconciled(own, ok, FALSE, TRUE) \in K1sInferenceEndpointStatus
        /\ reconciled(own, ok, FALSE, TRUE).conds["Ready"].status # "True"
      BY <1>1, ComputedStatus, ComputedReady
  <2> QED BY <1>1, <1>4, <2>1, HonestWriteStatus
<1>5. CASE CheckStatus
  <2>1. pc \in AppliedSteps /\ UNCHANGED k1s
      BY <1>5 DEF CheckStatus, AppliedSteps
  <2>2. CASE Goto("apply") \/ Goto("readStatus")
      BY <1>2, <2>1, <2>2 DEF DeleteSteps
  <2>3. CASE k1s[kindOf(own.spec)] # NoManifest /\ applyObservedInferenceStatus
      BY <2>1, <2>3, ObservedServing
  <2> QED BY <1>5, <2>2, <2>3 DEF CheckStatus
<1>6. CASE Apply
  <2>1. k1s' = applied(buildInferenceManifest(own.spec)) /\ Goto("patchHash")
      BY <1>6 DEF Apply
  <2>2. Honest(versions, pc, own, k1s') /\ Reached(k1s', manifestOf(own))
      BY <1>1, <2>1, ApplyServing
  <2> QED BY <1>2, <2>1, <2>2 DEF DeleteSteps
<1>7. CASE ApplyFails
  <2>1. UNCHANGED k1s \/ k1s' = applied(buildInferenceManifest(own.spec))
      BY <1>7 DEF ApplyFails
  <2>2. Honest(versions, pc, own, k1s')
      BY <1>1, <2>1, ApplyServing
  <2>3. WriteStatus(own, reconciled(own, FALSE, FALSE, TRUE), "poll")
      BY <1>7 DEF ApplyFails
  <2> QED BY <1>4, <2>2, <2>3
<1>8. CASE ReadStatus
  <2>1. pc \in AppliedSteps /\ UNCHANGED k1s
      BY <1>8 DEF ReadStatus, AppliedSteps
  <2>2. CASE k1s[kindOf(own.spec)] # NoManifest /\ applyObservedInferenceStatus
      BY <2>1, <2>2, ObservedServing
  <2>3. CASE WriteStatus(own, reconciled(own, TRUE, FALSE, TRUE), "poll")
      BY <1>4, <2>1, <2>3
  <2> QED BY <1>8, <2>2, <2>3 DEF ReadStatus
<1> QED BY <1>3, <1>5, <1>6, <1>7, <1>8

\* The reconciler's patches leave generation, spec and deletion alone.
LEMMA PatchRevises ==
    ASSUME TypeOK, server.exists, own.exists
    PROVE  /\ afterFinalizers.exists => Revised(server, afterFinalizers, pc, own)
           /\ pc = "patchHash" => Revised(server, afterHash(manifestHash(own)), pc, own)
<1>1. server \in Obj
    BY VersionsType
<1>2. afterFinalizers.exists =>
          /\ afterFinalizers.gen = server.gen
          /\ afterFinalizers.spec = server.spec
          /\ afterFinalizers.deleting = server.deleting
          /\ afterFinalizers.hash = server.hash
          /\ afterFinalizers.status = server.status
    BY <1>1, NoObjectType
    DEF afterFinalizers, patchFinalizers, Obj, K1sInferenceEndpointObject,
        K1sInferenceEndpointRecord
<1>3. /\ afterHash(manifestHash(own)).exists
      /\ afterHash(manifestHash(own)).gen = server.gen
      /\ afterHash(manifestHash(own)).spec = server.spec
      /\ afterHash(manifestHash(own)).deleting = server.deleting
      /\ afterHash(manifestHash(own)).hash \in {server.hash, hashBytes(manifestOf(own))}
      /\ afterHash(manifestHash(own)).status = server.status
    BY HashStored DEF manifestHash, manifestOf
<1> QED BY <1>2, <1>3 DEF Revised, ReadyCondition

\* A write, before anything else that its step does.
LEMMA WriteServing ==
    ASSUME ForwardUsers, TypeOK, Honest(versions, pc, own, k1s),
           NEW x \in Obj, Store(x) \/ StoreIfChanged(x),
           x.exists => Revised(server, x, pc, own)
    PROVE  Honest(versions', pc, own, k1s)
<1>1. /\ versions \in Seq(Obj) /\ versions # <<>>
      /\ own \in Obj
      /\ pc # "idle" => own.exists
      /\ server = Newest(versions)
    BY VersionsType, TypeParts DEF VersionsOK, LocalsOK, server, Newest
<1>2. CASE UNCHANGED versions
    BY <1>2
<1>3. CASE versions' = Append(versions, x)
  <2>1. CASE x.exists
      BY <1>1, <1>3, <2>1, HonestStored
  <2>2. CASE ~x.exists
    <3>1. Newest(versions') = x
        BY <1>1, <1>3, Stored DEF Newest
    <3> QED BY <2>2, <3>1 DEF Honest, Live
  <2> QED BY <2>1, <2>2
<1> QED BY <1>2, <1>3 DEF Store, StoreIfChanged

LEMMA StatusServing ==
    ASSUME ForwardUsers, TypeOK, Honest(versions, pc, own, k1s), pc = "patchStatus",
           server.exists, StoreStatus
    PROVE  Honest(versions', pc, own, k1s)
<1>1. server.status \in K1sInferenceEndpointStatus
    BY VersionsType, ObjectType
<1>2. PICK resent \in BOOLEAN, x \in Obj :
          /\ Store(x) \/ StoreIfChanged(x)
          /\ x.exists = server.exists
          /\ x.gen = server.gen
          /\ x.deleting = server.deleting
          /\ x.fin = server.fin
          /\ x.hash = server.hash
          /\ x.spec = server.spec
          /\ x.status = patchStatus(server.status, cached.status, own.status, resent)
    BY StatusStored
<1>3. x.status.conds \in {server.status.conds, own.status.conds}
  <2>1. "conds" \in DOMAIN server.status
      BY <1>1 DEF K1sInferenceEndpointStatus
  <2> QED BY <1>2, <2>1 DEF patchStatus, mergeField
<1>4. Revised(server, x, pc, own)
    BY <1>2, <1>3 DEF Revised, ReadyCondition
<1> QED BY <1>2, <1>4, WriteServing

LEMMA PatchServing ==
    ASSUME ForwardUsers, TypeOK, TypeOK', Honest(versions, pc, own, k1s),
           \/ PatchFinalizers \/ PatchFinalizersFails
           \/ PatchHash \/ PatchHashFails(manifestHash(own))
           \/ PatchStatus \/ PatchStatusFails
    PROVE  Honest(versions', pc', own', k1s')
<1>1. /\ own \in Obj /\ pc # "idle" /\ own.exists
      /\ RemoteOK(k1s)
      /\ UNCHANGED k1s
    BY TypeParts
    DEF LocalsOK, PatchFinalizers, PatchFinalizersFails, PatchHash, PatchHashFails,
        PatchStatus, PatchStatusFails
<1>2. versions' \in Seq(Obj) /\ versions' # <<>>
    BY EndpointBoundAssumption DEF TypeOK, Obj
<1>3. Honest(versions', pc, own, k1s)
  <2>1. CASE UNCHANGED versions
      BY <2>1
  <2>2. CASE /\ patchFinalizersAllowed(server, cached, wantedFinalizers)
             /\ StoreIfChanged(afterFinalizers)
      BY <1>1, <2>2, FinalizersStored, PatchRevises, WriteServing DEF patchFinalizersAllowed
  <2>3. CASE pc = "patchHash" /\ server.exists /\ StoreIfChanged(afterHash(manifestHash(own)))
      BY <1>1, <2>3, HashStored, PatchRevises, WriteServing
  <2>4. CASE pc = "patchStatus" /\ server.exists /\ StoreStatus
      BY <2>4, StatusServing
  <2> QED BY <2>1, <2>2, <2>3, <2>4
          DEF PatchFinalizers, PatchFinalizersFails, PatchHash, PatchHashFails, PatchStatus,
              PatchStatusFails
<1>4. CASE PatchHash
  <2>1. /\ pc \in AppliedSteps /\ pc' = "readStatus" /\ own' = own
        /\ "readStatus" \notin DeleteSteps
      BY <1>4 DEF PatchHash, Goto, AppliedSteps, DeleteSteps
  <2> QED BY <1>1, <1>2, <1>3, <2>1, HonestRewritten
<1>5. CASE pc' = "idle"
    BY <1>1, <1>2, <1>3, <1>5, HonestIdle
<1> QED BY <1>4, <1>5
        DEF PatchFinalizers, PatchFinalizersFails, PatchHashFails, PatchStatus,
            PatchStatusFails, Return

\* Before the creation Reconcile finds nothing to do.
LEMMA UnbornReconcile ==
    ASSUME TypeOK, Unborn(versions, pc, k1s), Reconcile
    PROVE  UNCHANGED <<versions, pc, k1s>>
<1>1. ~cached.exists /\ pc = "idle"
    BY VersionsType, NoObjectType DEF Unborn
<1>2. Start
    BY <1>1 DEF Reconcile, DeleteInference, DeleteInferenceFails, CheckStatus, Apply,
                ApplyFails, ReadStatus, PatchFinalizers, PatchFinalizersFails, PatchHash,
                PatchHashFails, PatchStatus, PatchStatusFails
<1>3. ReturnAtOnce
    BY <1>1, <1>2 DEF Start, MissingCredentials, BeginDelete, BeginAddFinalizer, BeginApply,
                      Enter
<1> QED BY <1>2, <1>3 DEF Start, ReturnAtOnce

LEMMA ReconcileServing ==
    ASSUME ForwardUsers, TypeOK, ServingInvariant, Reconcile, UNCHANGED removed
    PROVE  ServingInvariant'
<1>1. lives' = lives /\ TypeOK'
    BY ReconcileType
    DEF Reconcile, Start, DeleteInference, DeleteInferenceFails, CheckStatus, Apply,
        ApplyFails, ReadStatus, PatchFinalizers, PatchFinalizersFails, PatchHash,
        PatchHashFails, PatchStatus, PatchStatusFails
<1>2. ASSUME Honest(versions, pc, own, k1s)
      PROVE  Honest(versions', pc', own', k1s')
  <2>1. CASE Start
    <3>1. UNCHANGED <<versions, k1s>>
        BY <2>1 DEF Start
    <3> QED BY <1>2, <2>1, <3>1, StartServing
  <2>2. CASE \/ DeleteInference \/ DeleteInferenceFails \/ CheckStatus
             \/ Apply \/ ApplyFails \/ ReadStatus
    <3>1. UNCHANGED versions
        BY <2>2 DEF DeleteInference, DeleteInferenceFails, CheckStatus, Apply, ApplyFails,
                    ReadStatus
    <3> QED BY <1>2, <2>2, <3>1, CallServing
  <2> QED BY <1>1, <1>2, <2>1, <2>2, PatchServing DEF Reconcile
<1> QED BY <1>1, <1>2, UnbornReconcile DEF ServingInvariant

-----------------------------------------------------------------------------
(* The steps around Reconcile, and the theorem.                            *)

\* Users and other controllers write to the object, or create it.
LEMMA EnvironmentHonest ==
    ASSUME ForwardUsers, TypeOK, ServingInvariant, lives <= 1, ~removed,
           NEW x \in Obj, EnvironmentWrite(x), lives' <= 1
    PROVE  Honest(versions', pc, own, k1s)
<1>1. /\ versions \in Seq(Obj) /\ versions # <<>>
      /\ Honest(versions, pc, own, k1s)
      /\ lives \in Nat
    BY VersionsType, TypeParts, EndpointBoundAssumption DEF VersionsOK, ServingInvariant
<1>2. CASE Born(x) /\ lives' = lives + 1
  <2>1. lives = 0
      BY <1>1, <1>2
  <2>2. Unborn(versions, pc, k1s)
      BY <2>1 DEF ServingInvariant
  <2>3. PICK s \in Specs : x = NewObject(s)
      BY <1>2 DEF Born
  <2> QED BY <1>1, <2>2, <2>3, HonestBorn DEF EnvironmentWrite, Store
<1>3. CASE Gone(x)
    BY <1>1, <1>3, NoObjectType, WriteServing DEF Gone, EnvironmentWrite
<1>4. CASE Touched(x)
  <2>1. Revised(server, x, pc, own)
      BY <1>4 DEF Touched, Revised, ReadyCondition
  <2> QED BY <1>1, <2>1, WriteServing DEF EnvironmentWrite
<1> QED BY <1>2, <1>3, <1>4 DEF EnvironmentWrite

\* One more cell comes up.
LEMMA CellStartsHonest ==
    ASSUME TypeOK, Honest(versions, pc, own, k1s), NEW kind \in Kinds, CellStarts(kind)
    PROVE  Honest(versions, pc, own, k1s')
<1>1. /\ versions \in Seq(Obj) /\ versions # <<>> /\ own \in Obj /\ RemoteOK(k1s)
      /\ pc # "idle" => own.exists
    BY VersionsType, TypeParts DEF VersionsOK, LocalsOK
<1>2. /\ k1s[kind] # NoManifest /\ k1s[kind].up < Cells(kind)
      /\ k1s' = [k1s EXCEPT ![kind].up = @ + 1]
    BY DEF CellStarts
<1>3. k1s[kind] \in Deployments /\ Cells(kind) \in Nat
    BY <1>1, <1>2, SpecAssumption DEF RemoteOK, Cells, MaxNumeral
<1>4. k1s[kind].up # Cells(kind)
    BY <1>2, <1>3 DEF Deployments
<1> DEFINE n == k1s[kind].up + 1
<1>5. k1s' = [k1s EXCEPT ![kind] = [k1s[kind] EXCEPT !.up = n]]
    BY <1>2
<1> HIDE DEF n
<1>6. \A other \in Kinds : other # kind => k1s'[other] = k1s[other]
    BY <1>1, <1>5 DEF RemoteOK
<1>7. k1s'[kind].rev = k1s[kind].rev
    BY <1>1, <1>3, <1>5 DEF RemoteOK, Deployments
<1>8. k1s'[kind] # NoManifest
    BY <1>1, <1>2, CellStartsRuns
<1>9. \A other \in Kinds :
          \/ k1s'[other] = k1s[other]
          \/ /\ k1s[other] # NoManifest /\ k1s'[other] # NoManifest
             /\ k1s'[other].rev = k1s[other].rev
             /\ k1s[other].up # Cells(other)
    BY <1>2, <1>4, <1>6, <1>7, <1>8, Zenon
<1> QED BY <1>1, <1>9, HonestGrown, Zenon

LEMMA EnvironmentServing ==
    ASSUME ForwardUsers, TypeOK, ServingInvariant, Environment, UNCHANGED removed
    PROVE  ServingInvariant'
<1>1. UNCHANGED <<pc, own>>
    BY EnvironmentFrame
<1>2. CASE \E kind \in Kinds : CellStarts(kind)
  <2>1. PICK kind \in Kinds : CellStarts(kind)
      BY <1>2
  <2>2. UNCHANGED <<versions, lives>> /\ k1s[kind] # NoManifest
      BY <2>1 DEF CellStarts
  <2>3. lives # 0
      BY <2>2 DEF ServingInvariant, Unborn, NothingRuns
  <2> QED BY <1>1, <2>1, <2>2, <2>3, CellStartsHonest DEF ServingInvariant
<1>3. CASE UNCHANGED <<versions, k1s, lives>>
    BY <1>1, <1>3 DEF ServingInvariant
<1>4. ASSUME NEW x \in Obj, EnvironmentWrite(x), UNCHANGED k1s
      PROVE  ServingInvariant'
  <2>1. lives \in Nat /\ lives' \in Nat /\ lives <= lives'
      BY <1>4, TypeParts, EndpointBoundAssumption DEF EnvironmentWrite
  <2>2. lives' # 0
    <3>1. CASE Born(x) /\ lives' = lives + 1
        BY <2>1, <3>1
    <3>2. CASE server.exists /\ UNCHANGED lives
      <4>1. server = NoObject => ~server.exists
          BY NoObjectType
      <4>2. Len(versions) \in 1 .. Len(versions)
          BY VersionsType
      <4> QED BY <3>2, <4>1, <4>2 DEF ServingInvariant, Unborn, server
    <3> QED BY <1>4, <3>1, <3>2 DEF EnvironmentWrite, Gone, Touched
  <2>3. lives' <= 1 => lives <= 1
      BY <2>1
  <2>4. lives' <= 1 /\ ~removed => Honest(versions', pc, own, k1s)
      BY <1>4, <2>3, EnvironmentHonest
  <2> QED BY <1>1, <1>4, <2>2, <2>4 DEF ServingInvariant
<1>5. CASE UNCHANGED k1s
  <2>1. CASE LoseCredentials \/ RestoreCredentials
      BY <1>3, <2>1 DEF LoseCredentials, RestoreCredentials
  <2>2. CASE UNCHANGED versions /\ ~(LoseCredentials \/ RestoreCredentials)
      <3>1. Len(versions) \in Nat
          BY VersionsType
      <3>2. ~(\E x : Store(x))
          BY <2>2, <3>1, VersionsType DEF Store, VersionsOK
      <3> QED BY <1>2, <2>2, <3>2
              DEF Environment, Create, CreateObject, Edit, EditObject, Delete, AddForeign,
                  RemoveForeign
  <2> QED BY <1>4, <1>5, <2>1, <2>2, EnvironmentWrites
<1> QED BY <1>2, <1>5, EnvironmentFrame

LEMMA ManagerServing ==
    ASSUME ForwardUsers, TypeOK, ServingInvariant, Deliver \/ TimerFires \/ Resync \/ Crash,
           UNCHANGED removed
    PROVE  ServingInvariant'
<1>1. /\ versions \in Seq(Obj) /\ versions # <<>>
      /\ own \in Obj /\ (pc # "idle" => own.exists)
      /\ RemoteOK(k1s)
      /\ server = Newest(versions)
    BY VersionsType, TypeParts DEF VersionsOK, LocalsOK, server, Newest
<1>2. CASE Deliver
  <2>1. /\ UNCHANGED <<k1s, pc, own, lives>>
        /\ \E n \in 2 .. Len(versions) : versions' = SubSeq(versions, n, Len(versions))
      BY <1>2 DEF Deliver
  <2>2. PICK n \in 2 .. Len(versions) : versions' = SubSeq(versions, n, Len(versions))
      BY <2>1
  <2>3. Honest(versions, pc, own, k1s) => Honest(versions', pc, own, k1s)
      BY <1>1, <2>2, HonestDelivered
  <2>4. \A i \in 1 .. Len(versions') :
            i + n - 1 \in 1 .. Len(versions) /\ versions'[i] = versions[i + n - 1]
      BY <1>1, <2>2, DeliveredElements
  <2> QED BY <2>1, <2>3, <2>4 DEF ServingInvariant, Unborn
<1>3. CASE TimerFires \/ Resync
    BY <1>3 DEF TimerFires, Resync, ServingInvariant
<1>4. CASE Crash
  <2>1. /\ versions' = <<Newest(versions)>> /\ pc' = "idle" /\ own' = NoObject
        /\ UNCHANGED <<k1s, lives>>
      BY <1>1, <1>4 DEF Crash
  <2>2. Honest(versions, pc, own, k1s) => Honest(versions', pc', own', k1s)
      BY <1>1, <2>1, HonestRestarted
  <2>3. Unborn(versions, pc, k1s) => Unborn(versions', pc', k1s')
    <3>1. /\ Len(versions') = 1 /\ versions'[1] = Newest(versions)
          /\ Len(versions) \in 1 .. Len(versions)
        BY <1>1, <2>1, Ends
    <3> QED BY <2>1, <3>1 DEF Unborn, Newest
  <2> QED BY <2>1, <2>2, <2>3 DEF ServingInvariant
<1> QED BY <1>2, <1>3, <1>4

\* The invariant holds in every behaviour in which users do not return to a
\* manifest they have left; the kind of the endpoint and its delete policy may change.
THEOREM ServingInvariantHolds ==
    ASSUME ForwardUsers
    PROVE  Spec => []ServingInvariant
<1>1. Init => ServingInvariant
  <2> SUFFICES ASSUME Init PROVE ServingInvariant
      OBVIOUS
  <2>1. /\ versions = <<NoObject>> /\ Len(versions) = 1 /\ versions[1] = NoObject
        /\ pc = "idle" /\ NothingRuns(k1s)
      BY DEF Init, ControllerInit, NothingRuns
  <2> QED BY <2>1, NoObjectType DEF ServingInvariant, Honest, Unborn, Newest, Live
<1>2. TypeOK /\ ServingInvariant /\ [Next]_vars => ServingInvariant'
  <2> SUFFICES ASSUME TypeOK, ServingInvariant, [Next]_vars
               PROVE  ServingInvariant'
      OBVIOUS
  <2>1. CASE UNCHANGED vars
      BY <2>1 DEF vars, ServingInvariant
  <2>2. CASE \E kind \in Kinds : OutOfBandDelete(kind) /\ removed' = TRUE
    <3>1. PICK kind \in Kinds : OutOfBandDelete(kind) /\ removed' = TRUE
        BY <2>2
    <3>2. k1s[kind] # NoManifest /\ UNCHANGED lives
        BY <3>1 DEF OutOfBandDelete
    <3>3. lives # 0
        BY <3>2 DEF ServingInvariant, Unborn, NothingRuns
    <3> QED BY <3>1, <3>2, <3>3 DEF ServingInvariant
  <2> QED BY <2>1, <2>2, ReconcileServing, ManagerServing, EnvironmentServing DEF Next
<1> QED BY <1>1, <1>2, EndpointTypeCorrect, PTL DEF Spec

\* Ready=True for the current generation is the truth: for any number of specs,
\* revisions, cells and edits, any lag of the cache, any form of the answer, and any
\* number of failed calls, lost replies, lost credentials and restarts.
THEOREM ReadyIsServing ==
    ASSUME ForwardUsers
    PROVE  Spec => []ReadyMeansServing
<1>1. TypeOK /\ ServingInvariant => ReadyMeansServing
  <2> SUFFICES ASSUME TypeOK, ServingInvariant, Live(server),
                      ReadyCondition(server).status = "True",
                      ReadyCondition(server).gen = server.gen, ~removed, lives = 1
               PROVE  Serving(server)
      BY DEF ReadyMeansServing, ReadyCondition
  <2>1. /\ versions \in Seq(Obj) /\ versions # <<>>
        /\ server \in Obj /\ server = Newest(versions) /\ server.exists
        /\ server = versions[Len(versions)] /\ Len(versions) \in 1 .. Len(versions)
      BY VersionsType DEF VersionsOK, server, Newest, Live
  <2>2. FloorHolds(versions, pc, own, k1s)
      BY <2>1 DEF ServingInvariant, Honest
  <2>3. Complete(k1s, manifestOf(server))
    <3>1. CASE pc # "idle"
        BY <2>1, <2>2, <3>1 DEF FloorHolds, Grounded, Sound
    <3>2. CASE pc = "idle" /\ Head(versions).exists
        BY <2>1, <2>2, <3>2 DEF FloorHolds, Grounded, Sound
    <3>3. CASE pc = "idle" /\ ~Head(versions).exists
        BY <2>1, <2>2, <3>3 DEF FloorHolds, Untouched, Blank
    <3> QED BY <3>1, <3>2, <3>3
  <2> QED BY <2>3 DEF Complete, Serving, manifestOf, buildInferenceManifest
<1> QED BY <1>1, EndpointTypeCorrect, ServingInvariantHolds, PTL
=============================================================================
