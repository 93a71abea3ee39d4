---------------------------- MODULE K1sAppProofs ----------------------------
(***************************************************************************)
(* Proofs about K1sApp, for every value of its constants.                  *)
(***************************************************************************)
EXTENDS K1sApp, VersionLemmas, TLAPS

-----------------------------------------------------------------------------
(* The versions of the object.                                             *)

\* The sequence of versions has a first and a last element, both of them objects.
LEMMA VersionsType ==
    ASSUME versions \in Seq(K1sAppObject), versions # <<>>
    PROVE  /\ Len(versions) \in Nat \ {0}
           /\ \A i \in 1 .. Len(versions) : versions[i] \in K1sAppObject
           /\ cached = versions[1]
           /\ cached \in K1sAppObject
           /\ server \in K1sAppObject
    BY DEF cached, server

\* Storing an object makes it the last version and keeps the others.
LEMMA StoreVersions ==
    ASSUME versions \in Seq(K1sAppObject), versions # <<>>,
           NEW o \in K1sAppObject, versions' = Append(versions, o)
    PROVE  /\ versions' \in Seq(K1sAppObject)
           /\ versions' # <<>>
           /\ Len(versions') = Len(versions) + 1
           /\ server' = o
           /\ \A i \in 1 .. Len(versions) : versions'[i] = versions[i]
           /\ versions'[Len(versions) + 1] = o
    BY DEF server

\* Delivering a version drops a prefix and keeps the last version.
LEMMA DeliverVersions ==
    ASSUME versions \in Seq(K1sAppObject), versions # <<>>,
           NEW k \in 2 .. Len(versions), versions' = SubSeq(versions, k, Len(versions))
    PROVE  /\ versions' \in Seq(K1sAppObject)
           /\ versions' # <<>>
           /\ Len(versions') = Len(versions) - k + 1
           /\ \A i \in 1 .. Len(versions') : versions'[i] = versions[i + k - 1]
           /\ server' = server
<1>1. /\ Len(versions') = Len(versions) - k + 1
      /\ \A i \in 1 .. Len(versions') : versions'[i] = versions[i + k - 1]
    BY DeliveredElements
<1>2. /\ versions' \in Seq(K1sAppObject)
      /\ versions' # <<>>
      /\ versions'[Len(versions')] = versions[Len(versions)]
    BY Delivered
<1> QED BY <1>1, <1>2 DEF server

\* A restart keeps only the last version.
LEMMA RestartVersions ==
    ASSUME versions \in Seq(K1sAppObject), versions # <<>>, versions' = <<server>>
    PROVE  /\ versions' \in Seq(K1sAppObject)
           /\ versions' # <<>>
           /\ Len(versions') = 1
           /\ server' = server
           /\ versions'[1] = server
    BY VersionsType DEF server

-----------------------------------------------------------------------------
(* The objects and statuses the steps build.                               *)

LEMMA NoObjectType ==
    /\ NoObject \in K1sAppObject
    /\ ~NoObject.exists
    /\ NoObject.fin = {}
    /\ NoObject.status.appName = NoApp
    BY DEF NoObject, K1sAppObject, K1sAppRecord, NoStatus, K1sAppStatus, Hashes,
           NoCondition, ConditionStatus, ConditionTypes, Conditions, Finalizers

LEMMA NewObjectType ==
    ASSUME NEW m \in Manifests, NEW p \in Policies
    PROVE  /\ NewObject(m, p) \in K1sAppObject
           /\ NewObject(m, p).fin = {}
           /\ NewObject(m, p).status.appName = NoApp
    BY NoObjectType DEF NewObject, K1sAppObject, K1sAppRecord

\* The names a status may record, apart from the empty one.
ManifestNames == {AppOf[m] : m \in Manifests}

LEMMA SetConditionType ==
    ASSUME NEW conds \in Conditions, NEW t \in ConditionTypes,
           NEW s \in ConditionStatus, NEW g \in Nat
    PROVE  setCondition(conds, t, s, g) \in Conditions
    BY DEF setCondition, Conditions

LEMMA ConditionStatusType ==
    \A ok \in BOOLEAN : conditionStatus(ok) \in ConditionStatus
    BY DEF conditionStatus, ConditionStatus

\* Giving an object another status changes nothing else about it.
LEMMA WithStatus ==
    ASSUME NEW o \in K1sAppObject, NEW s \in K1sAppStatus
    PROVE  /\ [o EXCEPT !.status = s] \in K1sAppObject
           /\ [o EXCEPT !.status = s].exists = o.exists
           /\ [o EXCEPT !.status = s].deleting = o.deleting
           /\ [o EXCEPT !.status = s].fin = o.fin
           /\ [o EXCEPT !.status = s].status = s
    BY DEF K1sAppObject, K1sAppRecord

\* The four statuses Reconcile computes, and the names they record.
LEMMA ComputedStatus ==
    ASSUME NEW o \in K1sAppObject, o.exists,
           NEW applied \in BOOLEAN, NEW ready \in BOOLEAN
    PROVE  /\ credentialsMissing(o) \in K1sAppStatus
           /\ credentialsMissing(o).appName = o.status.appName
           /\ deleteFailed(o) \in K1sAppStatus
           /\ deleteFailed(o).appName = o.status.appName
           /\ wrongKind(o) \in K1sAppStatus
           /\ wrongKind(o).appName \in ManifestNames
           /\ reconciled(o, applied, ready) \in K1sAppStatus
           /\ reconciled(o, applied, ready).appName \in ManifestNames
<1>1. /\ o.status \in K1sAppStatus
      /\ o.gen \in Nat
      /\ o.manifest \in Manifests
      /\ AppOf[o.manifest] \in Apps
    BY ManifestAssumption DEF K1sAppObject, K1sAppRecord
<1>2. \A conds \in Conditions, t \in ConditionTypes, s \in ConditionStatus :
          setCondition(conds, t, s, o.gen) \in Conditions
    BY <1>1, SetConditionType
<1>3. {"CredentialsValid", "Accepted", "Applied", "AppReady", "Ready"} = ConditionTypes
    BY DEF ConditionTypes
<1>4. "True" \in ConditionStatus /\ "False" \in ConditionStatus
    BY DEF ConditionStatus
<1>5. /\ credentialsMissing(o) \in K1sAppStatus
      /\ credentialsMissing(o).appName = o.status.appName
    BY <1>1, <1>2, <1>3, <1>4 DEF credentialsMissing, K1sAppStatus
<1>6. /\ deleteFailed(o) \in K1sAppStatus
      /\ deleteFailed(o).appName = o.status.appName
    BY <1>1, <1>2, <1>3, <1>4 DEF deleteFailed, K1sAppStatus
<1>7. /\ wrongKind(o) \in K1sAppStatus
      /\ wrongKind(o).appName \in ManifestNames
    BY <1>1, <1>2, <1>3, <1>4 DEF wrongKind, K1sAppStatus, ManifestNames
<1>8. /\ reconciled(o, applied, ready) \in K1sAppStatus
      /\ reconciled(o, applied, ready).appName \in ManifestNames
    BY <1>1, <1>2, <1>3, <1>4, ConditionStatusType DEF reconciled, K1sAppStatus, ManifestNames
<1> QED BY <1>5, <1>6, <1>7, <1>8

\* A status patch mixes the fields of three statuses.
LEMMA PatchStatusType ==
    ASSUME NEW s \in K1sAppStatus, NEW c \in K1sAppStatus, NEW want \in K1sAppStatus,
           NEW resent \in BOOLEAN
    PROVE  /\ patchStatus(s, c, want, resent) \in K1sAppStatus
           /\ patchStatus(s, c, want, resent).appName \in {s.appName, want.appName}
<1> DEFINE p == patchStatus(s, c, want, resent)
<1>1. DOMAIN s = {"observedGeneration", "appName", "ready", "conds"}
    BY DEF K1sAppStatus
<1>2. p = [f \in {"observedGeneration", "appName", "ready", "conds"} |-> p[f]]
    BY <1>1 DEF patchStatus
<1>3. \A f \in DOMAIN s : p[f] \in {s[f], want[f]}
    BY DEF patchStatus, mergeField
<1> HIDE DEF p
<1>4. p.observedGeneration \in Nat /\ p.ready \in BOOLEAN /\ p.conds \in Conditions
    BY <1>1, <1>3 DEF K1sAppStatus
<1>5. p.appName \in Apps \cup {NoApp} /\ p.appName \in {s.appName, want.appName}
    BY <1>1, <1>3 DEF K1sAppStatus
<1>6. p \in K1sAppStatus
    BY <1>2, <1>4, <1>5 DEF K1sAppStatus
<1> QED
    BY <1>5, <1>6 DEF p

-----------------------------------------------------------------------------
(* What each kind of write stores.                                         *)

LEMMA FinalizersStored ==
    ASSUME TypeOK
    PROVE  /\ afterFinalizers \in K1sAppObject
           /\ afterFinalizers.status.appName \in {server.status.appName, NoApp}
<1>1. server \in K1sAppObject /\ cached \in K1sAppObject
    BY VersionsType DEF TypeOK
<1>2. own.fin \in SUBSET Finalizers
    BY DEF TypeOK, K1sAppObject, K1sAppRecord
<1>3. wantedFinalizers \in SUBSET Finalizers
    BY <1>2 DEF wantedFinalizers, Finalizers
<1> QED
    BY <1>1, <1>3, NoObjectType
    DEF afterFinalizers, patchFinalizers, K1sAppObject, K1sAppRecord

LEMMA HashStored ==
    ASSUME TypeOK, own.exists
    PROVE  /\ afterHash(manifestHash) \in K1sAppObject
           /\ afterHash(manifestHash).exists = server.exists
           /\ afterHash(manifestHash).deleting = server.deleting
           /\ afterHash(manifestHash).fin = server.fin
           /\ afterHash(manifestHash).status = server.status
<1>1. server \in K1sAppObject /\ cached \in K1sAppObject
    BY VersionsType DEF TypeOK
<1>2. manifestHash \in Hashes
    BY DEF manifestHash, TypeOK, K1sAppObject, K1sAppRecord, Hashes
<1> QED
    BY <1>1, <1>2 DEF afterHash, manifestHash, patchLastAppliedHash, K1sAppObject, K1sAppRecord

\* The status patch stores the server's object with another status.
LEMMA StatusStored ==
    ASSUME TypeOK, NEW resent \in BOOLEAN
    PROVE  LET merged == patchStatus(server.status, cached.status, own.status, resent)
           IN  /\ merged \in K1sAppStatus
               /\ merged.appName \in {server.status.appName, own.status.appName}
<1>1. server \in K1sAppObject /\ cached \in K1sAppObject
    BY VersionsType DEF TypeOK
<1>2. /\ server.status \in K1sAppStatus
      /\ cached.status \in K1sAppStatus
      /\ own.status \in K1sAppStatus
    BY <1>1 DEF TypeOK, K1sAppObject, K1sAppRecord
<1> QED BY <1>2, PatchStatusType

LEMMA EditStored ==
    ASSUME NEW o \in K1sAppObject, o.exists, NEW m \in Manifests, NEW p \in Policies
    PROVE  LET e == [o EXCEPT !.manifest = m, !.policy = p, !.gen = @ + 1]
           IN  /\ e \in K1sAppObject
               /\ e.exists
               /\ e.fin = o.fin
               /\ e.deleting = o.deleting
               /\ e.status = o.status
<1> DEFINE g == o.gen + 1
<1>1. g \in Nat
    BY DEF K1sAppObject, K1sAppRecord
<1> HIDE DEF g
<1>2. LET e == [o EXCEPT !.manifest = m, !.policy = p, !.gen = g]
      IN  /\ e \in K1sAppObject
          /\ e.exists
          /\ e.fin = o.fin
          /\ e.deleting = o.deleting
          /\ e.status = o.status
    BY <1>1 DEF K1sAppObject, K1sAppRecord
<1> QED BY <1>2, Zenon DEF g

LEMMA DeleteStored ==
    ASSUME NEW o \in K1sAppObject, o.exists
    PROVE  LET d == deleteObject(o, NoObject)
           IN  /\ d \in K1sAppObject
               /\ o.fin = {} => d = NoObject
               /\ o.fin # {} => d.exists /\ d.deleting /\ d.fin = o.fin
               /\ d.status.appName \in {o.status.appName, NoApp}
<1>1. CASE o.fin = {}
    BY <1>1, NoObjectType DEF deleteObject
<1>2. CASE o.fin # {}
  <2> DEFINE g == o.gen + 1
  <2>1. g \in Nat
      BY DEF K1sAppObject, K1sAppRecord
  <2> HIDE DEF g
  <2>2. LET d == [o EXCEPT !.deleting = TRUE, !.gen = g]
        IN  /\ d \in K1sAppObject
            /\ d.exists /\ d.deleting /\ d.fin = o.fin
            /\ d.status = o.status
      BY <2>1 DEF K1sAppObject, K1sAppRecord
  <2>3. LET d == deleteObject(o, NoObject)
        IN  /\ d \in K1sAppObject
            /\ d.exists /\ d.deleting /\ d.fin = o.fin
            /\ d.status = o.status
      BY <1>2, <2>2, Zenon DEF deleteObject, g
  <2> QED BY <1>2, <2>3
<1> QED BY <1>1, <1>2

LEMMA ForeignStored ==
    ASSUME NEW o \in K1sAppObject, o.exists
    PROVE  LET a == [o EXCEPT !.fin = @ \cup {foreignFinalizer}]
               r == releaseForeign(o, NoObject)
           IN  /\ a \in K1sAppObject
               /\ a.exists
               /\ a.deleting = o.deleting
               /\ containsCapability(a) <=> containsCapability(o)
               /\ a.status = o.status
               /\ r \in K1sAppObject
               /\ r.exists => r.deleting = o.deleting
               /\ Guarded(r) <=> Guarded(o)
               /\ r.status.appName \in {o.status.appName, NoApp}
    BY NoObjectType
    DEF releaseForeign, containsCapability, Guarded, capabilityFinalizer,
        foreignFinalizer, Finalizers, K1sAppObject, K1sAppRecord

\* A write keeps the type of the versions.
LEMMA StoreType ==
    ASSUME TypeOK, NEW o \in K1sAppObject, Store(o) \/ StoreIfChanged(o)
    PROVE  versions' \in Seq(K1sAppObject) /\ versions' # <<>>
    BY StoreVersions DEF TypeOK, Store, StoreIfChanged

LEMMA StoreStatusType ==
    ASSUME TypeOK, StoreStatus
    PROVE  versions' \in Seq(K1sAppObject) /\ versions' # <<>>
<1>1. PICK fresh \in BOOLEAN, resent \in BOOLEAN :
          LET merged == patchStatus(server.status, cached.status, own.status, resent)
              o == [server EXCEPT !.status = merged]
          IN  IF fresh THEN Store(o) ELSE StoreIfChanged(o)
    BY DEF StoreStatus
<1> DEFINE merged == patchStatus(server.status, cached.status, own.status, resent)
           o == [server EXCEPT !.status = merged]
<1>2. server \in K1sAppObject
    BY VersionsType DEF TypeOK
<1>3. o \in K1sAppObject
    BY <1>2, StatusStored, WithStatus
<1>4. Store(o) \/ StoreIfChanged(o)
    BY <1>1
<1> QED BY <1>3, <1>4, StoreType

-----------------------------------------------------------------------------
(* Type correctness.                                                       *)

LEMMA InitType == Init => TypeOK
<1> SUFFICES ASSUME Init PROVE TypeOK
    OBVIOUS
<1>1. versions \in Seq(K1sAppObject) /\ versions # <<>>
    BY NoObjectType DEF Init, ControllerInit
<1>2. k1s \in [Apps -> Manifests \cup {NoManifest}]
    BY DEF Init, ControllerInit
<1>3. faults \in 0 .. MaxFaults /\ lives \in 0 .. MaxLives
    BY BoundAssumption DEF Init, ControllerInit
<1>4. pc = "idle" /\ pc \in Steps
    BY DEF Init, ControllerInit, Steps
<1> QED BY <1>1, <1>2, <1>3, <1>4, NoObjectType, Zenon DEF Init, ControllerInit, TypeOK

\* Counting a disturbance stays within the bound.
LEMMA DisturbType ==
    ASSUME TypeOK, NEW kind, Disturb(kind)
    PROVE  faults' \in 0 .. MaxFaults
    BY BoundAssumption DEF TypeOK, Disturb

LEMMA StartType ==
    ASSUME TypeOK, Start
    PROVE  TypeOK'
<1>1. cached \in K1sAppObject
    BY VersionsType DEF TypeOK
<1> USE DEF TypeOK, Steps, Start
<1>2. CASE ReturnAtOnce
    BY <1>2 DEF ReturnAtOnce
<1>3. CASE MissingCredentials
  <2>1. [cached EXCEPT !.status = credentialsMissing(cached)] \in K1sAppObject
      BY <1>1, <1>3, ComputedStatus, WithStatus DEF MissingCredentials
  <2>2. [cached EXCEPT !.status = credentialsMissing(cached)].exists
      BY <1>1, <1>3, ComputedStatus, WithStatus DEF MissingCredentials
  <2> QED BY <1>3, <2>1, <2>2 DEF MissingCredentials, WriteStatus
<1>4. CASE BeginDelete
    BY <1>1, <1>4 DEF BeginDelete, Enter
<1>5. CASE BeginAddFinalizer
    BY <1>1, <1>5 DEF BeginAddFinalizer, Enter
<1>6. CASE RejectKind
  <2>1. [cached EXCEPT !.status = wrongKind(cached)] \in K1sAppObject
      BY <1>1, <1>6, ComputedStatus, WithStatus DEF RejectKind
  <2>2. [cached EXCEPT !.status = wrongKind(cached)].exists
      BY <1>1, <1>6, ComputedStatus, WithStatus DEF RejectKind
  <2> QED BY <1>6, <2>1, <2>2 DEF RejectKind, WriteStatus
<1>7. CASE BeginApply
    BY <1>1, <1>7 DEF BeginApply, Enter
<1> QED BY <1>2, <1>3, <1>4, <1>5, <1>6, <1>7

\* A step that goes on to write a status keeps the type of the locals.
LEMMA WriteStatusType ==
    ASSUME TypeOK, NEW s \in K1sAppStatus, NEW r \in {"done", "poll", "error"},
           own.exists, WriteStatus(own, s, r)
    PROVE  /\ own' \in K1sAppObject
           /\ own'.exists
           /\ pc' = "patchStatus"
           /\ ret' = r
    BY WithStatus DEF WriteStatus, TypeOK

LEMMA ReturnType ==
    ASSUME TypeOK, NEW r, Return(r)
    PROVE  /\ pc' = "idle"
           /\ own' \in K1sAppObject
           /\ ret' = "done"
           /\ queue' \in BOOLEAN
           /\ timer' \in BOOLEAN
    BY NoObjectType DEF Return, TypeOK

LEMMA ReconcileType ==
    ASSUME TypeOK, Reconcile
    PROVE  TypeOK'
<1> USE BoundAssumption
<1>1. CASE Start
    BY <1>1, StartType
<1>2. CASE DeleteApp
    BY <1>2 DEF DeleteApp, Goto, TypeOK, Steps
<1>3. CASE DeleteAppFails
  <2>1. own.exists /\ own \in K1sAppObject
      BY <1>3 DEF DeleteAppFails, TypeOK
  <2>2. own' \in K1sAppObject /\ own'.exists /\ pc' = "patchStatus" /\ ret' = "error"
      BY <1>3, <2>1, ComputedStatus, WriteStatusType DEF DeleteAppFails
  <2> QED BY <1>3, <2>2 DEF DeleteAppFails, Disturb, TypeOK, Steps
<1>4. CASE PatchFinalizers \/ PatchFinalizersFails
  <2>1. versions' \in Seq(K1sAppObject) /\ versions' # <<>>
      BY <1>4, FinalizersStored, StoreType DEF PatchFinalizers, PatchFinalizersFails, TypeOK
  <2>2. pc' = "idle" /\ own' \in K1sAppObject /\ ret' = "done"
        /\ queue' \in BOOLEAN /\ timer' \in BOOLEAN
      BY <1>4, ReturnType DEF PatchFinalizers, PatchFinalizersFails
  <2> QED
      BY <1>4, <2>1, <2>2
      DEF PatchFinalizers, PatchFinalizersFails, Disturb, TypeOK, Steps
<1>5. CASE CheckStatus \/ ReadStatus
  <2>1. own.exists /\ own \in K1sAppObject
      BY <1>5 DEF CheckStatus, ReadStatus, TypeOK
  <2>2. \A ready \in BOOLEAN : reconciled(own, TRUE, ready) \in K1sAppStatus
      BY <2>1, ComputedStatus
  <2>3. \A ready \in BOOLEAN :
            WriteStatus(own, reconciled(own, TRUE, ready), "poll") =>
                own' \in K1sAppObject /\ own'.exists /\ pc' = "patchStatus" /\ ret' = "poll"
      BY <2>1, <2>2, WriteStatusType
  <2>4. \/ own' \in K1sAppObject /\ own'.exists /\ pc' = "patchStatus" /\ ret' = "poll"
        \/ pc' \in {"apply", "readStatus"} /\ UNCHANGED <<own, ret>>
      BY <1>5, <2>3 DEF applyObservedAppStatus, CheckStatus, ReadStatus, Goto
  <2>5. faults' \in 0 .. MaxFaults
      BY <1>5, DisturbType DEF CheckStatus, ReadStatus, TypeOK
  <2>6. UNCHANGED <<versions, k1s, credsOK, queue, timer, lives>>
      BY <1>5 DEF CheckStatus, ReadStatus
  <2> QED BY <2>1, <2>4, <2>5, <2>6 DEF TypeOK, Steps
<1>6. CASE Apply
  <2>1. own.manifest \in Manifests
      BY <1>6 DEF Apply, TypeOK, K1sAppObject, K1sAppRecord
  <2> QED BY <1>6, <2>1 DEF Apply, Goto, TypeOK, Steps
<1>7. CASE ApplyFails
  <2>1. own.exists /\ own \in K1sAppObject
      BY <1>7 DEF ApplyFails, TypeOK
  <2>2. own.manifest \in Manifests
      BY <2>1 DEF K1sAppObject, K1sAppRecord
  <2>3. own' \in K1sAppObject /\ own'.exists /\ pc' = "patchStatus" /\ ret' = "poll"
      BY <1>7, <2>1, ComputedStatus, WriteStatusType DEF ApplyFails
  <2> QED BY <1>7, <2>2, <2>3 DEF ApplyFails, Disturb, TypeOK, Steps
<1>8. CASE PatchHash
  <2>1. versions' \in Seq(K1sAppObject) /\ versions' # <<>>
      BY <1>8, HashStored, StoreType DEF PatchHash, TypeOK
  <2> QED BY <1>8, <2>1 DEF PatchHash, Goto, TypeOK, Steps
<1>9. CASE PatchHashFails(manifestHash)
  <2>1. versions' \in Seq(K1sAppObject) /\ versions' # <<>>
      BY <1>9, HashStored, StoreType DEF PatchHashFails, TypeOK
  <2>2. pc' = "idle" /\ own' \in K1sAppObject /\ ret' = "done"
        /\ queue' \in BOOLEAN /\ timer' \in BOOLEAN
      BY <1>9, ReturnType DEF PatchHashFails
  <2> QED BY <1>9, <2>1, <2>2 DEF PatchHashFails, Disturb, TypeOK, Steps
<1>10. CASE PatchStatus \/ PatchStatusFails
  <2>1. versions' \in Seq(K1sAppObject) /\ versions' # <<>>
      BY <1>10, StoreStatusType DEF PatchStatus, PatchStatusFails, TypeOK
  <2>2. pc' = "idle" /\ own' \in K1sAppObject /\ ret' = "done"
        /\ queue' \in BOOLEAN /\ timer' \in BOOLEAN
      BY <1>10, ReturnType DEF PatchStatus, PatchStatusFails
  <2> QED
      BY <1>10, <2>1, <2>2 DEF PatchStatus, PatchStatusFails, Disturb, TypeOK, Steps
<1> QED
    BY <1>1, <1>2, <1>3, <1>4, <1>5, <1>6, <1>7, <1>8, <1>9, <1>10 DEF Reconcile

LEMMA ManagerType ==
    ASSUME TypeOK, Deliver \/ TimerFires \/ Resync \/ Crash
    PROVE  TypeOK'
<1>1. CASE Deliver
  <2>1. versions' \in Seq(K1sAppObject) /\ versions' # <<>>
      BY <1>1, DeliverVersions DEF Deliver, TypeOK
  <2> QED BY <1>1, <2>1 DEF Deliver, TypeOK
<1>2. CASE TimerFires \/ Resync
    BY <1>2 DEF TimerFires, Resync, TypeOK
<1>3. CASE Crash
  <2>1. versions' \in Seq(K1sAppObject) /\ versions' # <<>>
      BY <1>3, RestartVersions DEF Crash, TypeOK
  <2>2. faults' \in 0 .. MaxFaults
      BY <1>3, DisturbType DEF Crash
  <2> QED BY <1>3, <2>1, <2>2, NoObjectType DEF Crash, TypeOK, Steps
<1> QED BY <1>1, <1>2, <1>3

LEMMA EnvironmentType ==
    ASSUME TypeOK, Environment
    PROVE  TypeOK'
<1>0. server \in K1sAppObject
    BY VersionsType DEF TypeOK
<1>1. ASSUME NEW m \in Manifests, NEW p \in Policies, Create(m, p)
      PROVE  TypeOK'
  <2>1. versions' \in Seq(K1sAppObject) /\ versions' # <<>>
      BY <1>1, NewObjectType, StoreType DEF Create, CreateObject
  <2> QED BY <1>1, <2>1, BoundAssumption DEF Create, CreateObject, TypeOK
<1>2. ASSUME NEW m \in Manifests, NEW p \in Policies, Edit(m, p)
      PROVE  TypeOK'
  <2>1. server.exists /\ Store([server EXCEPT !.manifest = m, !.policy = p, !.gen = @ + 1])
      BY <1>2 DEF Edit, EditObject
  <2>2. [server EXCEPT !.manifest = m, !.policy = p, !.gen = @ + 1] \in K1sAppObject
      BY <1>0, <2>1, EditStored
  <2>3. versions' \in Seq(K1sAppObject) /\ versions' # <<>>
      BY <2>1, <2>2, StoreType
  <2> QED BY <1>2, <2>3 DEF Edit, EditObject, TypeOK
<1>3. CASE Delete
  <2>1. versions' \in Seq(K1sAppObject) /\ versions' # <<>>
      BY <1>0, <1>3, DeleteStored, StoreType DEF Delete
  <2> QED BY <1>3, <2>1 DEF Delete, TypeOK
<1>4. CASE AddForeign \/ RemoveForeign
  <2>1. server.exists
      BY <1>4 DEF AddForeign, RemoveForeign
  <2>2. versions' \in Seq(K1sAppObject) /\ versions' # <<>>
      BY <1>0, <1>4, <2>1, ForeignStored, StoreType DEF AddForeign, RemoveForeign
  <2> QED BY <1>4, <2>2, BoundAssumption DEF AddForeign, RemoveForeign, Disturb, TypeOK
<1>5. CASE LoseCredentials \/ RestoreCredentials
  <2>1. faults' \in 0 .. MaxFaults
      BY <1>5, DisturbType DEF LoseCredentials, RestoreCredentials, TypeOK
  <2>2. credsOK' \in BOOLEAN /\ UNCHANGED <<versions, k1s, queue, timer, pc, own, ret, lives>>
      BY <1>5 DEF LoseCredentials, RestoreCredentials
  <2> QED BY <2>1, <2>2 DEF TypeOK
<1>6. ASSUME NEW a \in Apps, OutOfBandDelete(a)
      PROVE  TypeOK'
    BY <1>6, BoundAssumption DEF OutOfBandDelete, Disturb, TypeOK
<1> QED
    BY <1>1, <1>2, <1>3, <1>4, <1>5, <1>6 DEF Environment

\* Type correctness: in every behaviour every variable keeps its type, and the
\* reconciler never loses the object it works on between two calls.
THEOREM TypeCorrect == Spec => []TypeOK
<1>1. TypeOK /\ [Next]_vars => TypeOK'
  <2> SUFFICES ASSUME TypeOK, [Next]_vars PROVE TypeOK'
      OBVIOUS
  <2>1. CASE UNCHANGED vars
      BY <2>1 DEF vars, TypeOK
  <2> QED
      BY <2>1, ReconcileType, ManagerType, EnvironmentType DEF Next
<1> QED BY InitType, <1>1, PTL DEF Spec

-----------------------------------------------------------------------------
(* The order in which guards come and go along the versions.               *)

LEMMA SameVersions ==
    ASSUME UNCHANGED versions
    PROVE  /\ OnlyGained(versions) => OnlyGained(versions)'
           /\ OnlyLost(versions) => OnlyLost(versions)'
           /\ server' = server
           /\ Guarded(server)' <=> Guarded(server)
    BY DEF OnlyGained, OnlyLost, server, Guarded, GuardedLive, containsCapability

\* A write that keeps the guard, and keeps a guarded deletion one.
LEMMA GainingStored ==
    ASSUME TypeOK, OnlyGained(versions), NEW o \in K1sAppObject,
           Store(o) \/ StoreIfChanged(o),
           Guarded(server) => Guarded(o) /\ (server.deleting => o.deleting)
    PROVE  OnlyGained(versions)'
<1>1. OnlyGained(Append(versions, o))
    BY GainedStored DEF TypeOK, server
<1> QED BY <1>1 DEF Store, StoreIfChanged

\* A write that adds no guard, and leaves no guarded live object.
LEMMA LosingStored ==
    ASSUME TypeOK, OnlyLost(versions), NEW o \in K1sAppObject,
           Store(o) \/ StoreIfChanged(o),
           Guarded(o) => Guarded(server) /\ o.deleting
    PROVE  OnlyLost(versions)'
<1>1. OnlyLost(Append(versions, o))
    BY LostStored DEF TypeOK, server
<1> QED BY <1>1 DEF Store, StoreIfChanged

\* The API server holds what was stored.
LEMMA ServerStored ==
    ASSUME TypeOK, NEW o \in K1sAppObject, Store(o) \/ StoreIfChanged(o)
    PROVE  server' = o
    BY StoreVersions DEF TypeOK, Store, StoreIfChanged, server

\* A write that keeps the guard keeps the order.
LEMMA SameGuardStored ==
    ASSUME TypeOK, NEW o \in K1sAppObject, Store(o) \/ StoreIfChanged(o), SameGuard(server, o)
    PROVE  /\ OnlyGained(versions) => OnlyGained(versions)'
           /\ OnlyLost(versions) => OnlyLost(versions)'
           /\ Guarded(server)' <=> Guarded(server)
<1>1. OnlyGained(versions) => OnlyGained(versions)'
    BY GainingStored DEF SameGuard
<1>2. OnlyLost(versions) => ~GuardedLive(server)
    BY VersionsType DEF TypeOK, OnlyLost, server
<1>3. OnlyLost(versions) => OnlyLost(versions)'
    BY <1>2, LosingStored DEF SameGuard, GuardedLive
<1>4. Guarded(server)' <=> Guarded(server)
    BY ServerStored DEF SameGuard, Guarded, containsCapability
<1> QED BY <1>1, <1>3, <1>4

\* The versions left after a delivery are in the same order.
LEMMA DeliverOrder ==
    ASSUME TypeOK, Deliver
    PROVE  /\ OnlyGained(versions) => OnlyGained(versions)'
           /\ OnlyLost(versions) => OnlyLost(versions)'
           /\ server' = server
<1>1. PICK k \in 2 .. Len(versions) : versions' = SubSeq(versions, k, Len(versions))
    BY DEF Deliver
<1>2. /\ OnlyGained(versions) => OnlyGained(versions')
      /\ OnlyLost(versions) => OnlyLost(versions')
    BY <1>1, OrderDelivered DEF TypeOK
<1>3. server' = server
    BY <1>1, DeliverVersions DEF TypeOK
<1> QED BY <1>2, <1>3

-----------------------------------------------------------------------------
(* GuardOrder is inductive.                                                *)

ApplySteps == {"checkStatus", "apply", "patchHash", "readStatus"}
DeleteSteps == {"deleteApp", "removeFinalizer"}

LEMMA StartOrder ==
    ASSUME TypeOK, GuardOrder, Start
    PROVE  GuardOrder'
<1>1. UNCHANGED versions
    BY DEF Start
<1>2. /\ Len(versions) \in Nat \ {0}
      /\ cached = versions[1]
      /\ cached \in K1sAppObject
    BY VersionsType DEF TypeOK
<1>3. (OnlyGained(versions) \/ OnlyLost(versions))'
    BY <1>1, SameVersions DEF GuardOrder
<1>4. CASE ReturnAtOnce \/ MissingCredentials \/ RejectKind
  <2>1. pc' \notin ApplySteps \cup DeleteSteps \cup {"addFinalizer"}
      BY <1>4 DEF ReturnAtOnce, MissingCredentials, RejectKind, WriteStatus, Start,
                  ApplySteps, DeleteSteps
  <2> QED BY <1>3, <2>1 DEF GuardOrder, ApplySteps, DeleteSteps
<1>5. CASE BeginDelete
  <2>1. Guarded(versions[1]) /\ versions[1].deleting
      BY <1>2, <1>5 DEF BeginDelete, Enter, Guarded
  <2>2. OnlyLost(versions)
      BY <2>1, FirstVersion DEF GuardOrder, TypeOK
  <2>3. pc' \in DeleteSteps
      BY <1>5 DEF BeginDelete, Enter, DeleteSteps
  <2> QED BY <1>1, <1>3, <2>2, <2>3, SameVersions DEF GuardOrder, DeleteSteps
<1>6. CASE BeginAddFinalizer
  <2>1. ~Guarded(versions[1])
      BY <1>2, <1>6 DEF BeginAddFinalizer, Guarded
  <2>2. OnlyGained(versions)
      BY <2>1, FirstVersion DEF GuardOrder, TypeOK
  <2>3. pc' = "addFinalizer"
      BY <1>6 DEF BeginAddFinalizer, Enter
  <2> QED BY <1>1, <1>3, <2>2, <2>3, SameVersions DEF GuardOrder
<1>7. CASE BeginApply
  <2>1. GuardedLive(versions[1])
      BY <1>2, <1>7 DEF BeginApply, Enter, GuardedLive, Guarded
  <2>2. Guarded(server)
      BY <2>1, FirstVersion DEF GuardOrder, TypeOK, server
  <2>3. pc' \in ApplySteps
      BY <1>7 DEF BeginApply, Enter, ApplySteps
  <2> QED BY <1>1, <1>3, <2>2, <2>3, SameVersions DEF GuardOrder, ApplySteps
<1> QED BY <1>4, <1>5, <1>6, <1>7 DEF Start

\* The patch that adds the finalizer keeps every guard there is.
LEMMA AddKeepsGuard ==
    ASSUME TypeOK, pc = "addFinalizer", Guarded(server)
    PROVE  Guarded(afterFinalizers) /\ afterFinalizers.deleting = server.deleting
<1>1. server \in K1sAppObject
    BY VersionsType DEF TypeOK
<1>2. capabilityFinalizer \in wantedFinalizers
    BY DEF wantedFinalizers
<1> QED
    BY <1>1, <1>2
    DEF afterFinalizers, patchFinalizers, Guarded, containsCapability,
        K1sAppObject, K1sAppRecord

\* The patch that removes the finalizer adds no guard.
LEMMA RemoveAddsNoGuard ==
    ASSUME TypeOK, pc = "removeFinalizer", Guarded(afterFinalizers)
    PROVE  afterFinalizers = server
<1>1. server \in K1sAppObject
    BY VersionsType DEF TypeOK
<1>2. capabilityFinalizer \notin wantedFinalizers
    BY DEF wantedFinalizers
<1> QED
    BY <1>1, <1>2, NoObjectType
    DEF afterFinalizers, patchFinalizers, Guarded, containsCapability,
        K1sAppObject, K1sAppRecord

LEMMA PatchFinalizersOrder ==
    ASSUME TypeOK, GuardOrder, PatchFinalizers \/ PatchFinalizersFails
    PROVE  GuardOrder'
<1>1. pc' = "idle"
    BY DEF PatchFinalizers, PatchFinalizersFails, Return
<1>2. UNCHANGED versions \/ StoreIfChanged(afterFinalizers)
    BY DEF PatchFinalizers, PatchFinalizersFails
<1>3. CASE UNCHANGED versions
    BY <1>1, <1>3, SameVersions DEF GuardOrder
<1>4. CASE StoreIfChanged(afterFinalizers) /\ pc = "addFinalizer"
  <2>1. OnlyGained(versions)
      BY <1>4 DEF GuardOrder
  <2>2. OnlyGained(versions)'
      BY <1>4, <2>1, AddKeepsGuard, FinalizersStored, GainingStored
  <2> QED BY <1>1, <2>2 DEF GuardOrder
<1>5. CASE StoreIfChanged(afterFinalizers) /\ pc = "removeFinalizer"
  <2>1. OnlyLost(versions)
      BY <1>5 DEF GuardOrder
  <2>2. ~GuardedLive(server)
      BY <2>1, VersionsType DEF TypeOK, OnlyLost, server
  <2>3. Guarded(afterFinalizers) => Guarded(server) /\ afterFinalizers.deleting
      BY <1>5, <2>2, RemoveAddsNoGuard DEF GuardedLive
  <2>4. OnlyLost(versions)'
      BY <1>5, <2>1, <2>3, FinalizersStored, LosingStored
  <2> QED BY <1>1, <2>4 DEF GuardOrder
<1> QED BY <1>2, <1>3, <1>4, <1>5 DEF PatchFinalizers, PatchFinalizersFails

\* Writes of the hash and of the status do not touch the guard.
LEMMA HashOrder ==
    ASSUME TypeOK, own.exists, StoreIfChanged(afterHash(manifestHash))
    PROVE  /\ OnlyGained(versions) => OnlyGained(versions)'
           /\ OnlyLost(versions) => OnlyLost(versions)'
           /\ Guarded(server)' <=> Guarded(server)
<1>1. SameGuard(server, afterHash(manifestHash))
    BY HashStored DEF SameGuard, Guarded, containsCapability
<1> QED BY <1>1, HashStored, SameGuardStored

LEMMA StatusOrder ==
    ASSUME TypeOK, StoreStatus
    PROVE  /\ OnlyGained(versions) => OnlyGained(versions)'
           /\ OnlyLost(versions) => OnlyLost(versions)'
           /\ Guarded(server)' <=> Guarded(server)
<1>1. PICK fresh \in BOOLEAN, resent \in BOOLEAN :
          LET merged == patchStatus(server.status, cached.status, own.status, resent)
              o == [server EXCEPT !.status = merged]
          IN  IF fresh THEN Store(o) ELSE StoreIfChanged(o)
    BY DEF StoreStatus
<1> DEFINE merged == patchStatus(server.status, cached.status, own.status, resent)
           o == [server EXCEPT !.status = merged]
<1>2. server \in K1sAppObject /\ merged \in K1sAppStatus
    BY VersionsType, StatusStored DEF TypeOK
<1>3. /\ o \in K1sAppObject
      /\ o.exists = server.exists
      /\ o.deleting = server.deleting
      /\ o.fin = server.fin
    BY <1>2, WithStatus
<1>4. SameGuard(server, o)
    BY <1>3 DEF SameGuard, Guarded, containsCapability
<1>5. Store(o) \/ StoreIfChanged(o)
    BY <1>1
<1> QED BY <1>3, <1>4, <1>5, SameGuardStored

LEMMA ReconcileOrder ==
    ASSUME TypeOK, GuardOrder, Reconcile
    PROVE  GuardOrder'
<1>1. CASE Start
    BY <1>1, StartOrder
<1>2. CASE PatchFinalizers \/ PatchFinalizersFails
    BY <1>2, PatchFinalizersOrder
<1>3. CASE DeleteApp
  <2>1. UNCHANGED versions /\ pc' = "removeFinalizer" /\ OnlyLost(versions)
      BY <1>3 DEF DeleteApp, Goto, GuardOrder
  <2> QED BY <2>1, SameVersions DEF GuardOrder
<1>4. CASE DeleteAppFails \/ ApplyFails
  <2>1. UNCHANGED versions /\ pc' = "patchStatus"
      BY <1>4 DEF DeleteAppFails, ApplyFails, WriteStatus
  <2> QED BY <2>1, SameVersions DEF GuardOrder
<1>5. CASE CheckStatus \/ Apply \/ ReadStatus
  <2>1. UNCHANGED versions /\ pc' \in ApplySteps \cup {"patchStatus"} /\ Guarded(server)
      BY <1>5 DEF applyObservedAppStatus, CheckStatus, Apply, ReadStatus,
          Goto, WriteStatus, GuardOrder, ApplySteps
  <2> QED BY <2>1, SameVersions DEF GuardOrder, ApplySteps
<1>6. CASE PatchHash \/ PatchHashFails(manifestHash)
  <2>1. own.exists /\ pc' \in {"readStatus", "idle"} /\ Guarded(server)
      BY <1>6 DEF PatchHash, PatchHashFails, Goto, Return, GuardOrder, TypeOK
  <2>2. CASE UNCHANGED versions
      BY <2>1, <2>2, SameVersions DEF GuardOrder
  <2>3. CASE StoreIfChanged(afterHash(manifestHash))
      BY <2>1, <2>3, HashOrder DEF GuardOrder
  <2> QED BY <1>6, <2>2, <2>3 DEF PatchHash, PatchHashFails
<1>7. CASE PatchStatus \/ PatchStatusFails
  <2>1. pc' = "idle"
      BY <1>7 DEF PatchStatus, PatchStatusFails, Return
  <2>2. CASE UNCHANGED versions
      BY <2>1, <2>2, SameVersions DEF GuardOrder
  <2>3. CASE StoreStatus
      BY <2>1, <2>3, StatusOrder DEF GuardOrder
  <2> QED BY <1>7, <2>2, <2>3 DEF PatchStatus, PatchStatusFails
<1> QED BY <1>1, <1>2, <1>3, <1>4, <1>5, <1>6, <1>7 DEF Reconcile

LEMMA ManagerOrder ==
    ASSUME TypeOK, GuardOrder, Deliver \/ TimerFires \/ Resync \/ Crash
    PROVE  GuardOrder'
<1>1. CASE Deliver
    BY <1>1, DeliverOrder DEF Deliver, GuardOrder, Guarded, containsCapability
<1>2. CASE TimerFires \/ Resync
  <2>1. UNCHANGED <<versions, pc>>
      BY <1>2 DEF TimerFires, Resync
  <2> QED BY <2>1, SameVersions DEF GuardOrder
<1>3. CASE Crash
  <2>1. Len(versions') = 1 /\ pc' = "idle"
      BY <1>3, RestartVersions DEF Crash, TypeOK
  <2> QED BY <2>1 DEF GuardOrder, OnlyGained
<1> QED BY <1>1, <1>2, <1>3

\* Users and other controllers never touch the operator's guard.
LEMMA EnvironmentGuard ==
    ASSUME TypeOK, Environment
    PROVE  /\ OnlyGained(versions) => OnlyGained(versions)'
           /\ OnlyLost(versions) => OnlyLost(versions)'
           /\ Guarded(server)' <=> Guarded(server)
<1>0. server \in K1sAppObject
    BY VersionsType DEF TypeOK
<1> DEFINE Kept == /\ OnlyGained(versions) => OnlyGained(versions)'
                   /\ OnlyLost(versions) => OnlyLost(versions)'
                   /\ Guarded(server)' <=> Guarded(server)
<1>1. ASSUME NEW m \in Manifests, NEW p \in Policies, Create(m, p)
      PROVE  Kept
  <2>1. SameGuard(server, NewObject(m, p)) /\ Store(NewObject(m, p))
      BY <1>1, NewObjectType DEF Create, CreateObject, SameGuard, Guarded, containsCapability
  <2> QED BY <2>1, NewObjectType, SameGuardStored
<1>2. ASSUME NEW m \in Manifests, NEW p \in Policies, Edit(m, p)
      PROVE  Kept
  <2> DEFINE e == [server EXCEPT !.manifest = m, !.policy = p, !.gen = @ + 1]
  <2>1. server.exists /\ Store(e)
      BY <1>2 DEF Edit, EditObject
  <2>2. e \in K1sAppObject /\ e.exists /\ e.fin = server.fin /\ e.deleting = server.deleting
      BY <1>0, <2>1, EditStored
  <2> HIDE DEF e
  <2>3. SameGuard(server, e)
      BY <2>1, <2>2 DEF SameGuard, Guarded, containsCapability
  <2> QED BY <2>1, <2>2, <2>3, SameGuardStored
<1>3. CASE Delete
  <2> DEFINE d == deleteObject(server, NoObject)
  <2>1. server.exists /\ Store(d)
      BY <1>3 DEF Delete
  <2>2. /\ d \in K1sAppObject
        /\ server.fin = {} => d = NoObject
        /\ server.fin # {} => d.exists /\ d.deleting /\ d.fin = server.fin
      BY <1>0, <2>1, DeleteStored
  <2> HIDE DEF d
  <2>3. SameGuard(server, d)
      BY <2>1, <2>2, NoObjectType DEF SameGuard, Guarded, containsCapability
  <2> QED BY <2>1, <2>2, <2>3, SameGuardStored
<1>4. CASE AddForeign
  <2> DEFINE a == [server EXCEPT !.fin = @ \cup {foreignFinalizer}]
  <2>1. server.exists /\ Store(a)
      BY <1>4 DEF AddForeign
  <2>2. /\ a \in K1sAppObject
        /\ a.exists
        /\ a.deleting = server.deleting
        /\ containsCapability(a) <=> containsCapability(server)
      BY <1>0, <2>1, ForeignStored
  <2> HIDE DEF a
  <2>3. SameGuard(server, a)
      BY <2>1, <2>2 DEF SameGuard, Guarded
  <2> QED BY <2>1, <2>2, <2>3, SameGuardStored
<1>5. CASE RemoveForeign
  <2> DEFINE r == releaseForeign(server, NoObject)
  <2>1. server.exists /\ Store(r)
      BY <1>5 DEF RemoveForeign
  <2>2. /\ r \in K1sAppObject
        /\ r.exists => r.deleting = server.deleting
        /\ Guarded(r) <=> Guarded(server)
      BY <1>0, <2>1, ForeignStored
  <2> HIDE DEF r
  <2>3. SameGuard(server, r)
      BY <2>2 DEF SameGuard, Guarded
  <2> QED BY <2>1, <2>2, <2>3, SameGuardStored
<1>6. CASE UNCHANGED versions
    BY <1>6, SameVersions
<1> QED
    BY <1>1, <1>2, <1>3, <1>4, <1>5, <1>6
    DEF Environment, LoseCredentials, RestoreCredentials, OutOfBandDelete

LEMMA EnvironmentOrder ==
    ASSUME TypeOK, GuardOrder, Environment
    PROVE  GuardOrder'
<1>1. UNCHANGED pc
    BY DEF Environment, Create, CreateObject, Edit, EditObject, Delete, AddForeign, RemoveForeign,
           LoseCredentials, RestoreCredentials, OutOfBandDelete
<1> QED BY <1>1, EnvironmentGuard DEF GuardOrder

\* The order of the guards holds in every behaviour, whatever the names and the
\* policies in use: no version the operator has yet to see both lost its
\* finalizer and got it back, so what a stale cache shows is still safe to act on.
THEOREM GuardsStayOrdered == Spec => []GuardOrder
<1>1. Init => GuardOrder
    BY DEF Init, ControllerInit, GuardOrder, OnlyGained
<1>2. TypeOK /\ GuardOrder /\ [Next]_vars => GuardOrder'
  <2> SUFFICES ASSUME TypeOK, GuardOrder, [Next]_vars PROVE GuardOrder'
      OBVIOUS
  <2>1. CASE UNCHANGED vars
    <3>1. UNCHANGED <<versions, pc>>
        BY <2>1 DEF vars
    <3> QED BY <3>1, SameVersions DEF GuardOrder
  <2> QED BY <2>1, ReconcileOrder, ManagerOrder, EnvironmentOrder DEF Next
<1> QED BY <1>1, <1>2, TypeCorrect, PTL DEF Spec

\* The operator never takes down the app of a live, guarded K1sApp: a DeleteApp
\* that takes effect finds no such object on the API server.
THEOREM LiveAppsAreKept == Spec => NeverDeleteLive
<1> DEFINE Kept ==
        \A a \in Apps :
            (pc = "deleteApp" /\ pc' # pc /\ k1s[a] # NoManifest /\ k1s'[a] = NoManifest)
            => ~GuardedLive(server)
<1>1. TypeOK /\ GuardOrder /\ [Next]_vars => [Kept]_vars
  <2> SUFFICES ASSUME TypeOK, GuardOrder, pc = "deleteApp" PROVE ~GuardedLive(server)
      OBVIOUS
  <2>1. OnlyLost(versions)
      BY DEF GuardOrder
  <2> QED BY <2>1, VersionsType DEF TypeOK, OnlyLost, server
<1> QED BY <1>1, TypeCorrect, GuardsStayOrdered, PTL DEF Spec, NeverDeleteLive

-----------------------------------------------------------------------------
(* The finalizers of others.                                               *)

\* The list that a finalizer patch leaves has what the copy and the API server's
\* object both showed.
LEMMA SeenKept ==
    ASSUME TypeOK, pc \in {"addFinalizer", "removeFinalizer"}
    PROVE  (own.fin \cap server.fin) \ {capabilityFinalizer} \subseteq afterFinalizers.fin
<1>1. server \in K1sAppObject
    BY VersionsType DEF TypeOK
<1>2. own.fin \ {capabilityFinalizer} \subseteq wantedFinalizers
    BY DEF wantedFinalizers
<1>3. CASE wantedFinalizers = {}
    BY <1>1, <1>2, <1>3, NoObjectType DEF afterFinalizers, patchFinalizers, K1sAppObject, K1sAppRecord
<1>4. CASE wantedFinalizers # {}
    BY <1>1, <1>2, <1>4 DEF afterFinalizers, patchFinalizers, K1sAppObject, K1sAppRecord
<1> QED BY <1>3, <1>4

\* The patches of the finalizer list, which write it as a whole, keep every
\* finalizer of another controller that is there and that the copy showed, for any
\* lag of the cache and any number of restarts and recreations.
THEOREM SeenFinalizersAreKept == Spec => SeenFinalizersKept
<1> DEFINE Kept ==
        (pc \in {"addFinalizer", "removeFinalizer"} /\ pc' # pc)
        => (own.fin \cap server.fin) \ {capabilityFinalizer} \subseteq server'.fin
<1>1. TypeOK /\ [Next]_vars => [Kept]_vars
  <2> SUFFICES ASSUME TypeOK, Next, pc \in {"addFinalizer", "removeFinalizer"}, pc' # pc
               PROVE  (own.fin \cap server.fin) \ {capabilityFinalizer} \subseteq server'.fin
      BY DEF vars
  <2>1. CASE PatchFinalizers \/ PatchFinalizersFails
    <3>1. server' \in {server, afterFinalizers}
        BY <2>1, FinalizersStored, ServerStored DEF PatchFinalizers, PatchFinalizersFails, server
    <3> QED BY <3>1, SeenKept
  <2>2. CASE Crash
    <3>1. server' = server
        BY <2>2, RestartVersions DEF Crash, TypeOK
    <3> QED BY <3>1
  <2>3. CASE Reconcile /\ ~(PatchFinalizers \/ PatchFinalizersFails)
      BY <2>3 DEF Reconcile, Start, DeleteApp, DeleteAppFails, CheckStatus, Apply, ApplyFails,
                  PatchHash, PatchHashFails, ReadStatus, PatchStatus, PatchStatusFails
  <2>4. CASE Deliver \/ TimerFires \/ Resync \/ Environment
      BY <2>4 DEF Deliver, TimerFires, Resync, Environment, Create, CreateObject, Edit,
                  EditObject, Delete, AddForeign, RemoveForeign, LoseCredentials,
                  RestoreCredentials, OutOfBandDelete
  <2> QED BY <2>1, <2>2, <2>3, <2>4 DEF Next
<1> QED BY <1>1, TypeCorrect, PTL DEF Spec, SeenFinalizersKept

-----------------------------------------------------------------------------
(* Cleanup before the object goes.                                         *)

Names == ManifestNames \cup {NoApp}

\* The part of KnownNames that is about the versions.
VersionNames == \A i \in 1 .. Len(versions) : versions[i].status.appName \in Names

LEMMA KnownNamesParts ==
    KnownNames <=>
        /\ \A a \in Apps : k1s[a] # NoManifest => a \in ManifestNames
        /\ VersionNames
        /\ own.status.appName \in Names
    BY DEF KnownNames, VersionNames, Names, ManifestNames

\* The cached and the stored object have known names.
LEMMA EndNames ==
    ASSUME TypeOK, VersionNames
    PROVE  cached.status.appName \in Names /\ server.status.appName \in Names
    BY VersionsType DEF TypeOK, VersionNames, server

LEMMA NamesStored ==
    ASSUME TypeOK, VersionNames, NEW o \in K1sAppObject, Store(o) \/ StoreIfChanged(o),
           o.status.appName \in Names
    PROVE  VersionNames'
<1>1. CASE UNCHANGED versions
    BY <1>1 DEF VersionNames
<1>2. CASE versions' = Append(versions, o)
  <2> DEFINE n == Len(versions)
  <2>1. /\ n \in Nat \ {0}
        /\ Len(versions') = n + 1
        /\ \A i \in 1 .. n : versions'[i] = versions[i]
        /\ versions'[n + 1] = o
      BY <1>2, VersionsType, StoreVersions DEF TypeOK
  <2> SUFFICES ASSUME NEW i \in 1 .. n + 1 PROVE versions'[i].status.appName \in Names
      BY <2>1 DEF VersionNames
  <2>2. CASE i \in 1 .. n
      BY <2>1, <2>2 DEF VersionNames
  <2>3. CASE i = n + 1
      BY <2>1, <2>3
  <2> QED BY <2>1, <2>2, <2>3
<1> QED BY <1>1, <1>2 DEF Store, StoreIfChanged

\* Statuses computed by Reconcile carry known names, and so does the copy that
\* waits to be written.
LEMMA WriteStatusNames ==
    ASSUME NEW o \in K1sAppObject, NEW s \in K1sAppStatus, NEW r,
           s.appName \in Names, WriteStatus(o, s, r)
    PROVE  own'.status.appName \in Names
    BY WithStatus DEF WriteStatus

LEMMA StatusNames ==
    ASSUME TypeOK, VersionNames, own.status.appName \in Names, StoreStatus
    PROVE  VersionNames'
<1>1. PICK fresh \in BOOLEAN, resent \in BOOLEAN :
          LET merged == patchStatus(server.status, cached.status, own.status, resent)
              o == [server EXCEPT !.status = merged]
          IN  IF fresh THEN Store(o) ELSE StoreIfChanged(o)
    BY DEF StoreStatus
<1> DEFINE merged == patchStatus(server.status, cached.status, own.status, resent)
           o == [server EXCEPT !.status = merged]
<1>2. /\ server \in K1sAppObject
      /\ merged \in K1sAppStatus
      /\ merged.appName \in Names
    BY VersionsType, StatusStored, EndNames DEF TypeOK
<1>3. o \in K1sAppObject /\ o.status = merged
    BY <1>2, WithStatus
<1>4. Store(o) \/ StoreIfChanged(o)
    BY <1>1
<1> QED BY <1>2, <1>3, <1>4, NamesStored

LEMMA ReconcileVersionNames ==
    ASSUME TypeOK, KnownNames, Reconcile
    PROVE  VersionNames'
<1>1. VersionNames /\ own.status.appName \in Names
    BY KnownNamesParts
<1>2. server.status.appName \in Names /\ NoApp \in Names
    BY <1>1, EndNames DEF Names
<1>3. CASE UNCHANGED versions
    BY <1>1, <1>3 DEF VersionNames
<1>4. CASE StoreIfChanged(afterFinalizers)
    BY <1>1, <1>2, <1>4, FinalizersStored, NamesStored
<1>5. CASE own.exists /\ StoreIfChanged(afterHash(manifestHash))
    BY <1>1, <1>2, <1>5, HashStored, NamesStored
<1>6. CASE StoreStatus
    BY <1>1, <1>6, StatusNames
<1>7. pc # "idle" => own.exists
    BY DEF TypeOK
<1> QED
    BY <1>3, <1>4, <1>5, <1>6, <1>7
    DEF Reconcile, Start, DeleteApp, DeleteAppFails, PatchFinalizers, PatchFinalizersFails,
        CheckStatus, Apply, ApplyFails, PatchHash, PatchHashFails, ReadStatus,
        PatchStatus, PatchStatusFails

LEMMA ReconcileAppName ==
    ASSUME TypeOK, KnownNames, Reconcile
    PROVE  own'.status.appName \in Names
<1>1. VersionNames /\ own.status.appName \in Names
    BY KnownNamesParts
<1>2. cached \in K1sAppObject /\ cached.status.appName \in Names
    BY <1>1, EndNames, VersionsType DEF TypeOK
<1>3. own \in K1sAppObject /\ (pc # "idle" => own.exists)
    BY DEF TypeOK
<1>4. CASE Start
  <2>1. CASE ReturnAtOnce
      BY <1>1, <2>1 DEF ReturnAtOnce
  <2>2. CASE MissingCredentials \/ RejectKind
      BY <1>2, <2>2, ComputedStatus, WriteStatusNames DEF MissingCredentials, RejectKind, Names
  <2>3. CASE BeginDelete \/ BeginAddFinalizer \/ BeginApply
      BY <1>2, <2>3 DEF BeginDelete, BeginAddFinalizer, BeginApply, Enter
  <2> QED BY <1>4, <2>1, <2>2, <2>3 DEF Start
<1>5. CASE DeleteAppFails
    BY <1>1, <1>3, <1>5, ComputedStatus, WriteStatusNames DEF DeleteAppFails
<1>6. CASE ApplyFails
    BY <1>3, <1>6, ComputedStatus, WriteStatusNames DEF ApplyFails, Names
<1>7. CASE CheckStatus \/ ReadStatus
  <2>1. own.exists
      BY <1>3, <1>7 DEF CheckStatus, ReadStatus
  <2>2. \A ready \in BOOLEAN :
            WriteStatus(own, reconciled(own, TRUE, ready), "poll") =>
                own'.status.appName \in Names
      BY <1>3, <2>1, ComputedStatus, WriteStatusNames DEF Names
  <2> QED BY <1>1, <1>7, <2>2 DEF applyObservedAppStatus, CheckStatus, ReadStatus, Goto
<1>8. CASE UNCHANGED own
    BY <1>1, <1>8
<1>9. CASE own' = NoObject
    BY <1>9, NoObjectType DEF Names
<1> QED
    BY <1>4, <1>5, <1>6, <1>7, <1>8, <1>9
    DEF Reconcile, DeleteApp, PatchFinalizers, PatchFinalizersFails, Apply, PatchHash,
        PatchHashFails, PatchStatus, PatchStatusFails, Goto, Return

\* k1s changes by an Apply, under the guard, or by a deletion.
LEMMA ReconcileRemote ==
    ASSUME TypeOK, GuardOrder, Reconcile
    PROVE  \/ UNCHANGED k1s
           \/ /\ Guarded(server)
              /\ UNCHANGED versions
              /\ pc = "apply"
              /\ own.manifest \in Manifests
              /\ k1s' = [k1s EXCEPT ![AppOf[own.manifest]] = own.manifest]
           \/ /\ pc = "deleteApp"
              /\ UNCHANGED versions
              /\ k1s' = [k1s EXCEPT ![appDeleteName(own)] = NoManifest]
<1>1. CASE Apply \/ ApplyFails
  <2>1. pc = "apply" /\ UNCHANGED versions
      BY <1>1 DEF Apply, ApplyFails
  <2>2. Guarded(server)
      BY <2>1 DEF GuardOrder
  <2>3. own.manifest \in Manifests
      BY <2>1 DEF TypeOK, K1sAppObject, K1sAppRecord
  <2> QED BY <1>1, <2>1, <2>2, <2>3 DEF Apply, ApplyFails
<1>2. CASE DeleteApp \/ DeleteAppFails
    BY <1>2 DEF DeleteApp, DeleteAppFails
<1>3. CASE UNCHANGED k1s
    BY <1>3
<1> QED
    BY <1>1, <1>2, <1>3
    DEF Reconcile, Start, PatchFinalizers, PatchFinalizersFails, CheckStatus, PatchHash,
        PatchHashFails, ReadStatus, PatchStatus, PatchStatusFails

\* Every name the operator may pass to DeleteApp is an app name, and with stable
\* names it is the name of every manifest.
LEMMA DeleteNameType ==
    ASSUME TypeOK, own.exists, own.status.appName \in Names
    PROVE  appDeleteName(own) \in ManifestNames /\ appDeleteName(own) \in Apps
<1>1. own.manifest \in Manifests
    BY DEF TypeOK, K1sAppObject, K1sAppRecord
<1>2. AppOf[own.manifest] \in ManifestNames
    BY <1>1 DEF ManifestNames
<1>3. ManifestNames \subseteq Apps
    BY ManifestAssumption DEF ManifestNames
<1> QED BY <1>2, <1>3 DEF appDeleteName, Names

LEMMA ReconcileKnownNames ==
    ASSUME TypeOK, GuardOrder, KnownNames, Reconcile
    PROVE  KnownNames'
<1>1. \A a \in Apps : k1s[a] # NoManifest => a \in ManifestNames
    BY KnownNamesParts
<1>2. k1s \in [Apps -> Manifests \cup {NoManifest}]
    BY DEF TypeOK
<1>3. \A a \in Apps : k1s'[a] # NoManifest => a \in ManifestNames
  <2>1. CASE UNCHANGED k1s
      BY <1>1, <2>1
  <2>2. CASE /\ own.manifest \in Manifests
             /\ k1s' = [k1s EXCEPT ![AppOf[own.manifest]] = own.manifest]
      BY <1>1, <1>2, <2>2 DEF ManifestNames
  <2>3. CASE k1s' = [k1s EXCEPT ![appDeleteName(own)] = NoManifest]
      BY <1>1, <1>2, <2>3
  <2> QED BY <2>1, <2>2, <2>3, ReconcileRemote
<1> QED BY <1>3, ReconcileVersionNames, ReconcileAppName, KnownNamesParts
        DEF KnownNames, VersionNames, Names, ManifestNames

LEMMA ReconcileCleanedUp ==
    ASSUME StableNames, TypeOK, KnownNames, Reconcile
    PROVE  CleanedUp'
<1> SUFFICES ASSUME pc' = "removeFinalizer" PROVE \A a \in Apps : k1s'[a] = NoManifest
    BY DEF CleanedUp
<1>1. ~Start
  <2> SUFFICES ASSUME Start PROVE FALSE
      OBVIOUS
  <2>1. cached \in K1sAppObject
      BY VersionsType DEF TypeOK
  <2>2. cached.policy = "Delete"
      BY <2>1 DEF K1sAppObject, K1sAppRecord, StableNames
  <2> QED
      BY <2>2
      DEF Start, ReturnAtOnce, MissingCredentials, BeginDelete, BeginAddFinalizer,
          RejectKind, BeginApply, Enter, WriteStatus
<1>2. DeleteApp
    BY <1>1
    DEF Reconcile, DeleteAppFails, PatchFinalizers, PatchFinalizersFails, CheckStatus,
        applyObservedAppStatus, Apply, ApplyFails, PatchHash, PatchHashFails,
        ReadStatus, PatchStatus, PatchStatusFails, Goto, WriteStatus, Return
<1>3. /\ own.exists
      /\ k1s' = [k1s EXCEPT ![appDeleteName(own)] = NoManifest]
      /\ k1s \in [Apps -> Manifests \cup {NoManifest}]
    BY <1>2 DEF DeleteApp, TypeOK
<1>4. /\ \A a \in Apps : k1s[a] # NoManifest => a \in ManifestNames
      /\ own.status.appName \in Names
    BY KnownNamesParts
<1>5. appDeleteName(own) \in ManifestNames
    BY <1>3, <1>4, DeleteNameType
<1>6. \A a, b \in ManifestNames : a = b
    BY DEF ManifestNames, StableNames
<1> QED BY <1>3, <1>4, <1>5, <1>6

LEMMA ReconcileCleanup ==
    ASSUME StableNames, TypeOK, FinalizerInvariant, Reconcile
    PROVE  CleanupBeforeGone'
<1>1. GuardOrder /\ CleanupBeforeGone /\ CleanedUp
    BY DEF FinalizerInvariant
<1>2. k1s \in [Apps -> Manifests \cup {NoManifest}]
    BY DEF TypeOK
<1> SUFFICES ASSUME NEW a \in Apps, k1s'[a] # NoManifest PROVE Guarded(server)'
    BY DEF CleanupBeforeGone
<1>3. CASE Guarded(server) /\ UNCHANGED versions
    BY <1>3, SameVersions
<1>4. CASE ~(Guarded(server) /\ UNCHANGED versions)
  <2>1. \A b \in Apps : k1s'[b] # NoManifest => k1s[b] # NoManifest
      BY <1>1, <1>2, <1>4, ReconcileRemote
  <2>2. Guarded(server) /\ pc # "removeFinalizer"
      BY <1>1, <2>1 DEF CleanupBeforeGone, CleanedUp
  <2>3. CASE pc = "addFinalizer" /\ StoreIfChanged(afterFinalizers)
      BY <2>2, <2>3, AddKeepsGuard, FinalizersStored, ServerStored
      DEF Guarded, containsCapability
  <2>4. CASE own.exists /\ StoreIfChanged(afterHash(manifestHash))
      BY <2>2, <2>4, HashOrder
  <2>5. CASE StoreStatus
      BY <2>2, <2>5, StatusOrder
  <2>6. CASE UNCHANGED versions
      BY <1>4, <2>2, <2>6
  <2>7. pc # "idle" => own.exists
      BY DEF TypeOK
  <2> QED
      BY <2>2, <2>3, <2>4, <2>5, <2>6, <2>7
      DEF Reconcile, Start, DeleteApp, DeleteAppFails, PatchFinalizers,
          PatchFinalizersFails, CheckStatus, Apply, ApplyFails, PatchHash, PatchHashFails,
          ReadStatus, PatchStatus, PatchStatusFails
<1> QED BY <1>3, <1>4

\* The manager and the environment deploy nothing and leave the guard alone.
LEMMA OtherStepsQuiet ==
    ASSUME TypeOK, Deliver \/ TimerFires \/ Resync \/ Crash \/ Environment
    PROVE  /\ \A a \in Apps : k1s'[a] # NoManifest => k1s[a] # NoManifest
           /\ Guarded(server)' <=> Guarded(server)
           /\ pc' \in {pc, "idle"}
           /\ own' \in {own, NoObject}
<1>1. k1s \in [Apps -> Manifests \cup {NoManifest}]
    BY DEF TypeOK
<1>2. CASE Deliver
    BY <1>2, DeliverOrder DEF Deliver, Guarded, containsCapability
<1>3. CASE TimerFires \/ Resync
    BY <1>3, SameVersions DEF TimerFires, Resync
<1>4. CASE Crash
    BY <1>4, RestartVersions DEF Crash, TypeOK, Guarded, containsCapability
<1>5. CASE Environment
  <2>1. UNCHANGED <<pc, own>>
      BY <1>5 DEF Environment, Create, CreateObject, Edit, EditObject, Delete, AddForeign, RemoveForeign,
                  LoseCredentials, RestoreCredentials, OutOfBandDelete
  <2>2. \A a \in Apps : k1s'[a] # NoManifest => k1s[a] # NoManifest
      BY <1>1, <1>5 DEF Environment, Create, CreateObject, Edit, EditObject, Delete, AddForeign, RemoveForeign,
                  LoseCredentials, RestoreCredentials, OutOfBandDelete
  <2> QED BY <1>5, <2>1, <2>2, EnvironmentGuard
<1> QED BY <1>2, <1>3, <1>4, <1>5

LEMMA OtherVersionNames ==
    ASSUME TypeOK, VersionNames, Deliver \/ TimerFires \/ Resync \/ Crash \/ Environment
    PROVE  VersionNames'
<1>0. /\ server \in K1sAppObject
      /\ server.status.appName \in Names
      /\ NoApp \in Names
    BY VersionsType, EndNames DEF TypeOK, Names
<1>1. CASE Deliver
  <2>1. PICK k \in 2 .. Len(versions) : versions' = SubSeq(versions, k, Len(versions))
      BY <1>1 DEF Deliver
  <2>2. /\ Len(versions) \in Nat \ {0}
        /\ Len(versions') = Len(versions) - k + 1
        /\ \A i \in 1 .. Len(versions') : versions'[i] = versions[i + k - 1]
      BY <2>1, VersionsType, DeliverVersions DEF TypeOK
  <2>3. \A i \in 1 .. Len(versions') : i + k - 1 \in 1 .. Len(versions)
      BY <2>2
  <2> QED BY <2>2, <2>3 DEF VersionNames
<1>2. CASE Crash
    BY <1>0, <1>2, RestartVersions DEF Crash, TypeOK, VersionNames
<1>3. CASE UNCHANGED versions
    BY <1>3 DEF VersionNames
<1>4. ASSUME NEW m \in Manifests, NEW p \in Policies, Create(m, p)
      PROVE  VersionNames'
    BY <1>0, <1>4, NewObjectType, NamesStored DEF Create, CreateObject
<1>5. ASSUME NEW m \in Manifests, NEW p \in Policies, Edit(m, p)
      PROVE  VersionNames'
  <2> DEFINE e == [server EXCEPT !.manifest = m, !.policy = p, !.gen = @ + 1]
  <2>1. server.exists /\ Store(e)
      BY <1>5 DEF Edit, EditObject
  <2>2. e \in K1sAppObject /\ e.status = server.status
      BY <1>0, <2>1, EditStored
  <2> HIDE DEF e
  <2> QED BY <1>0, <2>1, <2>2, NamesStored
<1>6. CASE Delete
    BY <1>0, <1>6, DeleteStored, NamesStored DEF Delete
<1>7. CASE AddForeign \/ RemoveForeign
  <2>1. server.exists
      BY <1>7 DEF AddForeign, RemoveForeign
  <2> QED BY <1>0, <1>7, <2>1, ForeignStored, NamesStored DEF AddForeign, RemoveForeign
<1> QED
    BY <1>1, <1>2, <1>3, <1>4, <1>5, <1>6, <1>7
    DEF TimerFires, Resync, Environment, LoseCredentials, RestoreCredentials,
        OutOfBandDelete

\* With stable names the whole invariant holds in every behaviour.
THEOREM FinalizerInvariantHolds ==
    ASSUME StableNames
    PROVE  Spec => []FinalizerInvariant
<1>1. Init => KnownNames /\ CleanedUp /\ CleanupBeforeGone
    BY NoObjectType DEF Init, ControllerInit, KnownNames, CleanedUp, CleanupBeforeGone
<1>2. TypeOK /\ FinalizerInvariant /\ [Next]_vars =>
          (KnownNames /\ CleanedUp /\ CleanupBeforeGone)'
  <2> SUFFICES ASSUME TypeOK, FinalizerInvariant, [Next]_vars
               PROVE  (KnownNames /\ CleanedUp /\ CleanupBeforeGone)'
      OBVIOUS
  <2>0. GuardOrder /\ KnownNames /\ CleanedUp /\ CleanupBeforeGone
      BY DEF FinalizerInvariant
  <2>1. CASE Reconcile
      BY <2>0, <2>1, ReconcileKnownNames, ReconcileCleanedUp, ReconcileCleanup
  <2>2. CASE Deliver \/ TimerFires \/ Resync \/ Crash \/ Environment
    <3>1. /\ \A a \in Apps : k1s'[a] # NoManifest => k1s[a] # NoManifest
          /\ Guarded(server)' <=> Guarded(server)
          /\ pc' \in {pc, "idle"}
          /\ own' \in {own, NoObject}
        BY <2>2, OtherStepsQuiet
    <3>2. VersionNames'
        BY <2>0, <2>2, KnownNamesParts, OtherVersionNames
    <3>3. KnownNames'
        BY <2>0, <3>1, <3>2, NoObjectType, KnownNamesParts
        DEF KnownNames, VersionNames, Names, ManifestNames
    <3>4. CleanedUp'
        BY <2>0, <3>1 DEF CleanedUp
    <3>5. CleanupBeforeGone'
        BY <2>0, <3>1 DEF CleanupBeforeGone
    <3> QED BY <3>3, <3>4, <3>5
  <2>3. CASE UNCHANGED vars
      BY <2>0, <2>3, SameVersions DEF vars, KnownNames, CleanedUp, CleanupBeforeGone
  <2> QED BY <2>1, <2>2, <2>3 DEF Next
<1> QED
    BY <1>1, <1>2, TypeCorrect, GuardsStayOrdered, PTL DEF Spec, FinalizerInvariant

\* k1s-side resources are deleted before the K1sApp disappears, for every number
\* of manifests, faults, restarts, recreations and undelivered watch events, as
\* long as users keep to one app name and to deletePolicy Delete.
THEOREM CleanupBeforeGoneHolds ==
    ASSUME StableNames
    PROVE  Spec => []CleanupBeforeGone
<1>1. FinalizerInvariant => CleanupBeforeGone
    BY DEF FinalizerInvariant
<1> QED BY <1>1, FinalizerInvariantHolds, PTL

-----------------------------------------------------------------------------
(* K1sApp implements FinalizerContract.                                    *)

\* What k1s runs, as the contract sees it.
Remote == {a \in Apps : k1s[a] # NoManifest}

\* An Apply under the guard deploys, a DeleteApp undeploys.
LEMMA DeployStep ==
    ASSUME TypeOK, NEW m \in Manifests, Guarded(server), UNCHANGED versions,
           k1s' = [k1s EXCEPT ![AppOf[m]] = m]
    PROVE  Contract!Next
<1>1. AppOf[m] \in Apps /\ m # NoManifest
    BY ManifestAssumption
<1>2. Remote' = Remote \cup {AppOf[m]}
    BY <1>1 DEF TypeOK, Remote
<1>3. server' = server
    BY DEF server
<1>4. Contract!Deploy(AppOf[m])
    BY <1>2, <1>3 DEF Contract!Deploy, Remote, Guarded, containsCapability
<1> QED BY <1>1, <1>4 DEF Contract!Next

LEMMA UndeployStep ==
    ASSUME TypeOK, NEW a \in Apps, UNCHANGED versions,
           k1s' = [k1s EXCEPT ![a] = NoManifest]
    PROVE  Contract!Next
<1>1. Remote' = Remote \ {a}
    BY DEF TypeOK, Remote
<1>2. server' = server
    BY DEF server
<1>3. Contract!Undeploy(a)
    BY <1>1, <1>2 DEF Contract!Undeploy, Remote, Guarded, containsCapability
<1> QED BY <1>3 DEF Contract!Next

\* Steps that leave k1s, the guard and the existence of the object as they are.
LEMMA QuietStep ==
    ASSUME UNCHANGED k1s, server'.exists = server.exists,
           Guarded(server') <=> Guarded(server)
    PROVE  UNCHANGED Contract!vars
    BY DEF Contract!vars, Guarded, containsCapability

LEMMA AddStep ==
    ASSUME TypeOK, pc = "addFinalizer", UNCHANGED k1s,
           patchFinalizersAllowed(server, cached, wantedFinalizers),
           StoreIfChanged(afterFinalizers)
    PROVE  [Contract!Next]_Contract!vars
<1>1. server \in K1sAppObject /\ server.exists
    BY VersionsType DEF TypeOK, patchFinalizersAllowed
<1>2. server' = afterFinalizers
    BY FinalizersStored, ServerStored
<1>3. capabilityFinalizer \in wantedFinalizers
    BY DEF wantedFinalizers
<1>4. CASE afterFinalizers = server
    BY <1>2, <1>4, QuietStep
<1>5. CASE afterFinalizers # server
  <2>1. afterFinalizers.exists /\ Guarded(afterFinalizers)
      BY <1>1, <1>3, <1>5
      DEF afterFinalizers, patchFinalizers, Guarded, containsCapability,
          K1sAppObject, K1sAppRecord
  <2>2. Contract!Guard
      BY <1>1, <1>2, <2>1 DEF Contract!Guard, Guarded, containsCapability, K1sAppObject,
                              K1sAppRecord
  <2> QED BY <2>2 DEF Contract!Next
<1> QED BY <1>4, <1>5

LEMMA RemoveStep ==
    ASSUME TypeOK, CleanedUp, pc = "removeFinalizer", UNCHANGED k1s,
           patchFinalizersAllowed(server, cached, wantedFinalizers),
           StoreIfChanged(afterFinalizers)
    PROVE  [Contract!Next]_Contract!vars
<1>1. server \in K1sAppObject /\ server.exists /\ server.exists \in BOOLEAN
    BY VersionsType DEF TypeOK, patchFinalizersAllowed, K1sAppObject, K1sAppRecord
<1>2. server' = afterFinalizers /\ afterFinalizers \in K1sAppObject
    BY FinalizersStored, ServerStored
<1>3. CASE afterFinalizers = server
    BY <1>2, <1>3, QuietStep
<1>4. CASE afterFinalizers # server
  <2>1. ~Guarded(afterFinalizers)
      BY <1>4, RemoveAddsNoGuard
  <2>2. Remote = {} /\ Remote' = {}
      BY DEF CleanedUp, Remote
  <2>3. server'.exists \in BOOLEAN
      BY <1>2 DEF K1sAppObject, K1sAppRecord
  <2>4. CASE Guarded(server)
      BY <1>2, <2>1, <2>2, <2>3, <2>4
      DEF Contract!Release, Contract!Next, Remote, Guarded, containsCapability
  <2>5. CASE ~Guarded(server) /\ server'.exists
      BY <1>1, <1>2, <2>1, <2>3, <2>5, QuietStep
  <2>6. CASE ~Guarded(server) /\ ~server'.exists
      BY <1>1, <1>2, <2>1, <2>2, <2>3, <2>6
      DEF Contract!Remove, Contract!Next, Remote, Guarded, containsCapability
  <2> QED BY <2>4, <2>5, <2>6
<1> QED BY <1>3, <1>4

LEMMA ReconcileImplements ==
    ASSUME TypeOK, FinalizerInvariant, Reconcile
    PROVE  [Contract!Next]_Contract!vars
<1>1. GuardOrder /\ KnownNames /\ CleanedUp
    BY DEF FinalizerInvariant
<1>2. pc # "idle" => own.exists
    BY DEF TypeOK
<1>3. CASE UNCHANGED <<versions, k1s>>
    BY <1>3, QuietStep DEF server
<1>4. CASE /\ Guarded(server)
           /\ UNCHANGED versions
           /\ own.manifest \in Manifests
           /\ k1s' = [k1s EXCEPT ![AppOf[own.manifest]] = own.manifest]
    BY <1>4, DeployStep
<1>5. CASE /\ pc = "deleteApp"
           /\ UNCHANGED versions
           /\ k1s' = [k1s EXCEPT ![appDeleteName(own)] = NoManifest]
    BY <1>1, <1>2, <1>5, KnownNamesParts, DeleteNameType, UndeployStep
<1>6. CASE UNCHANGED k1s /\ ~UNCHANGED versions
  <2>1. CASE PatchFinalizers \/ PatchFinalizersFails
      BY <1>1, <1>6, <2>1, AddStep, RemoveStep DEF PatchFinalizers, PatchFinalizersFails
  <2>2. CASE PatchHash \/ PatchHashFails(manifestHash)
    <3>1. own.exists /\ StoreIfChanged(afterHash(manifestHash))
        BY <1>2, <1>6, <2>2 DEF PatchHash, PatchHashFails
    <3>2. server' = afterHash(manifestHash)
        BY <3>1, HashStored, ServerStored
    <3> QED BY <1>6, <3>1, <3>2, HashStored, QuietStep DEF Guarded, containsCapability
  <2>3. CASE PatchStatus \/ PatchStatusFails
    <3>1. PICK resent \in BOOLEAN :
              LET merged == patchStatus(server.status, cached.status, own.status, resent)
                  o == [server EXCEPT !.status = merged]
              IN  Store(o) \/ StoreIfChanged(o)
        BY <1>6, <2>3 DEF PatchStatus, PatchStatusFails, StoreStatus
    <3> DEFINE merged == patchStatus(server.status, cached.status, own.status, resent)
               o == [server EXCEPT !.status = merged]
    <3>2. server \in K1sAppObject /\ merged \in K1sAppStatus
        BY VersionsType, StatusStored DEF TypeOK
    <3>3. o \in K1sAppObject /\ o.exists = server.exists /\ o.fin = server.fin
        BY <3>2, WithStatus
    <3>4. server' = o
        BY <3>1, <3>3, ServerStored
    <3> QED BY <1>6, <3>3, <3>4, QuietStep DEF Guarded, containsCapability
  <2> QED
      BY <1>6, <2>1, <2>2, <2>3
      DEF Reconcile, Start, DeleteApp, DeleteAppFails, CheckStatus, Apply, ApplyFails,
          ReadStatus
<1> QED BY <1>1, <1>3, <1>4, <1>5, <1>6, ReconcileRemote

LEMMA EnvironmentImplements ==
    ASSUME TypeOK, Environment
    PROVE  [Contract!Next]_Contract!vars
<1>0. server \in K1sAppObject
    BY VersionsType DEF TypeOK
<1>1. ASSUME NEW m \in Manifests, NEW p \in Policies, Create(m, p)
      PROVE  Contract!Next
  <2>1. NewObject(m, p).exists
      BY NoObjectType DEF NewObject, K1sAppObject, K1sAppRecord
  <2>2. server' = NewObject(m, p) /\ ~server.exists /\ UNCHANGED k1s
      BY <1>1, NewObjectType, ServerStored DEF Create, CreateObject
  <2>3. Contract!Create
      BY <2>1, <2>2, NewObjectType DEF Contract!Create, Guarded, containsCapability
  <2> QED BY <2>3 DEF Contract!Next
<1>2. ASSUME NEW m \in Manifests, NEW p \in Policies, Edit(m, p)
      PROVE  UNCHANGED Contract!vars
  <2> DEFINE e == [server EXCEPT !.manifest = m, !.policy = p, !.gen = @ + 1]
  <2>1. server.exists /\ Store(e) /\ UNCHANGED k1s
      BY <1>2 DEF Edit, EditObject
  <2>2. e \in K1sAppObject /\ e.exists /\ e.fin = server.fin
      BY <1>0, <2>1, EditStored
  <2> HIDE DEF e
  <2>3. server' = e
      BY <2>1, <2>2, ServerStored
  <2> QED BY <2>1, <2>2, <2>3, QuietStep DEF Guarded, containsCapability
<1>3. ASSUME NEW o \in K1sAppObject, server.exists, Store(o), UNCHANGED k1s,
             Guarded(o) <=> Guarded(server)
      PROVE  [Contract!Next]_Contract!vars
  <2>1. server' = o
      BY <1>3, ServerStored
  <2>2. CASE o.exists
      BY <1>3, <2>1, <2>2, QuietStep
  <2>3. CASE ~o.exists
    <3>1. Contract!Remove
        BY <1>3, <2>1, <2>3 DEF Contract!Remove, Guarded, containsCapability, K1sAppObject,
                                K1sAppRecord
    <3> QED BY <3>1 DEF Contract!Next
  <2> QED BY <2>2, <2>3
<1>4. CASE Delete
  <2> DEFINE d == deleteObject(server, NoObject)
  <2>1. server.exists /\ Store(d) /\ UNCHANGED k1s
      BY <1>4 DEF Delete
  <2>2. /\ d \in K1sAppObject
        /\ server.fin = {} => d = NoObject
        /\ server.fin # {} => d.exists /\ d.fin = server.fin
      BY <1>0, <2>1, DeleteStored
  <2> HIDE DEF d
  <2>3. Guarded(d) <=> Guarded(server)
      BY <2>1, <2>2, NoObjectType DEF Guarded, containsCapability
  <2> QED BY <1>3, <2>1, <2>2, <2>3
<1>5. CASE AddForeign \/ RemoveForeign
  <2>1. server.exists
      BY <1>5 DEF AddForeign, RemoveForeign
  <2> QED BY <1>0, <1>3, <1>5, <2>1, ForeignStored DEF AddForeign, RemoveForeign, Guarded
<1>6. CASE LoseCredentials \/ RestoreCredentials
    BY <1>6, QuietStep DEF LoseCredentials, RestoreCredentials, server
<1>7. ASSUME NEW a \in Apps, OutOfBandDelete(a)
      PROVE  Contract!Next
    BY <1>7, UndeployStep DEF OutOfBandDelete
<1> QED
    BY <1>1, <1>2, <1>4, <1>5, <1>6, <1>7 DEF Environment

\* With stable names the reconciler, its cache and its environment together
\* implement the finalizer contract.
THEOREM ContractImplemented ==
    ASSUME StableNames
    PROVE  Spec => ImplementsContract
<1>1. Init => Contract!Init
    BY NoObjectType DEF Init, ControllerInit, Contract!Init, server, Guarded
<1>2. TypeOK /\ FinalizerInvariant /\ [Next]_vars => [Contract!Next]_Contract!vars
  <2> SUFFICES ASSUME TypeOK, FinalizerInvariant, [Next]_vars
               PROVE  [Contract!Next]_Contract!vars
      OBVIOUS
  <2>1. CASE Reconcile
      BY <2>1, ReconcileImplements
  <2>2. CASE Environment
      BY <2>2, EnvironmentImplements
  <2>3. CASE Deliver
      BY <2>3, DeliverOrder, QuietStep DEF Deliver
  <2>4. CASE Crash
      BY <2>4, RestartVersions, QuietStep DEF Crash, TypeOK
  <2>5. CASE TimerFires \/ Resync \/ UNCHANGED vars
      BY <2>5, QuietStep DEF TimerFires, Resync, vars, server
  <2> QED BY <2>1, <2>2, <2>3, <2>4, <2>5 DEF Next
<1> QED
    BY <1>1, <1>2, TypeCorrect, FinalizerInvariantHolds, PTL
    DEF Spec, ImplementsContract, Contract!Spec

-----------------------------------------------------------------------------
(* What Applied=True says.                                                 *)
(*                                                                         *)
(* The reconciler takes a hash that equals that of its copy's manifest for *)
(* "applied already". The copy may be stale, and so may the hash. All that *)
(* is recorded, published or deployed stems from copies that were read     *)
(* before; so if users only go forward, nothing of it is ahead of the copy *)
(* at hand, the floor, and a claim about the newest manifest can only be   *)
(* the claim of a reconcile that nobody has overtaken since.               *)

\* Users never go back to a manifest they have left.
Forward(rank) ==
    /\ rank \in [Manifests -> Nat]
    /\ \A m, n \in Manifests : rank[m] = rank[n] => m = n
    /\ \A m, n \in Manifests : <<m, n>> \in Edits => rank[m] <= rank[n]

Rank == CHOOSE rank : Forward(rank)

\* Nor is the object created anew: its successor might get its status.
ForwardUsers == (\E rank : Forward(rank)) /\ MaxLives = 1

\* b is the object a at the same time or later.
Before(a, b) ==
    (a.exists /\ b.exists) =>
        /\ a.gen <= b.gen
        /\ a.gen = b.gen => a.manifest = b.manifest
        /\ Rank[a.manifest] <= Rank[b.manifest]

Later == {pair \in K1sAppObject \X K1sAppObject : Before(pair[1], pair[2])}

Newest(vs) == vs[Len(vs)]

AppliedCondition(o) == o.status.conds["Applied"]

\* k1s runs nothing older than m under the name of m.
Reached(k, m) == k[AppOf[m]] = NoManifest \/ Rank[m] <= Rank[k[AppOf[m]]]

\* What copy c says is no news for the floor f, and true: k1s got the manifest of
\* its hash, and that of the newest object s if it is s that c calls applied.
Sound(c, f, s, k) ==
    /\ \A m \in Manifests : c.hash = hashBytes(m) =>
           Rank[m] <= Rank[f.manifest] /\ Reached(k, m)
    /\ AppliedCondition(c).status = "True" =>
           /\ AppliedCondition(c).gen <= f.gen
           /\ AppliedCondition(c).gen = s.gen => Reached(k, s.manifest)

\* Every version is as old as the floor or newer, says nothing that is news for it,
\* and nothing newer than the floor was applied.
Grounded(vs, f, k) ==
    /\ \A i \in 1 .. Len(vs) :
          vs[i].exists /\ Before(f, vs[i]) /\ Sound(vs[i], f, Newest(vs), k)
    /\ \A a \in Apps : k[a] # NoManifest => Rank[k[a]] <= Rank[f.manifest]

\* No reconcile has begun.
Blank(c) == c.hash = NoHash /\ AppliedCondition(c).status # "True"

Untouched(vs, k) ==
    /\ \A i \in 1 .. Len(vs) : Blank(vs[i])
    /\ \A a \in Apps : k[a] = NoManifest

\* The steps at which the manifest of the copy has been applied.
AppliedSteps == {"checkStatus", "patchHash", "readStatus"}

\* The copy that is reconciled is the floor; between reconciles it is the cached one.
FloorHolds(vs, p, o, k) ==
    IF p # "idle"
    THEN /\ Grounded(vs, o, k)
         /\ Sound(o, o, Newest(vs), k)
         /\ p \in AppliedSteps => Reached(k, o.manifest)
    ELSE IF Head(vs).exists THEN Grounded(vs, Head(vs), k) ELSE Untouched(vs, k)

Honest(vs, p, o, k) ==
    Newest(vs).exists => Ordered(vs, Later) /\ Unbroken(vs) /\ FloorHolds(vs, p, o, k)

\* Before the creation there is nothing.
Unborn(vs, p, k) ==
    /\ p = "idle"
    /\ \A i \in 1 .. Len(vs) : vs[i] = NoObject
    /\ \A a \in Apps : k[a] = NoManifest

AppliedInvariant ==
    Honest(versions, pc, own, k1s) /\ (lives = 0 => Unborn(versions, pc, k1s))

-----------------------------------------------------------------------------
(* The order of versions, and what a raised floor leaves true.             *)

LEMMA RankType ==
    ASSUME ForwardUsers
    PROVE  /\ \A m \in Manifests : Rank[m] \in Nat
           /\ \A m, n \in Manifests : Rank[m] = Rank[n] => m = n
           /\ \A m, n \in Manifests : <<m, n>> \in Edits => Rank[m] <= Rank[n]
<1>1. Forward(Rank)
    BY Zenon DEF ForwardUsers, Rank
<1> QED BY <1>1 DEF Forward

LEMMA ObjectType ==
    ASSUME NEW o \in K1sAppObject
    PROVE  /\ o.gen \in Nat
           /\ o.exists => o.manifest \in Manifests
           /\ o.status \in K1sAppStatus
           /\ AppliedCondition(o).gen \in Nat
<1>1. /\ o.gen \in Nat
      /\ o.exists => o.manifest \in Manifests
      /\ o.status \in K1sAppStatus
    BY DEF K1sAppObject, K1sAppRecord
<1>2. o.status.conds["Applied"] \in [status : ConditionStatus, gen : Nat]
    BY <1>1 DEF K1sAppStatus, Conditions, ConditionTypes
<1> QED BY <1>1, <1>2 DEF AppliedCondition

LEMMA HashFacts ==
    /\ \A m, n : hashBytes(m) = hashBytes(n) => m = n
    /\ \A m : hashBytes(m) # NoHash
    BY DEF hashBytes, NoHash

LEMMA BeforeSelf ==
    ASSUME ForwardUsers, NEW o \in K1sAppObject
    PROVE  Before(o, o)
    BY ObjectType, RankType DEF Before

LEMMA BeforeChain ==
    ASSUME ForwardUsers, NEW a \in K1sAppObject, NEW b \in K1sAppObject,
           NEW c \in K1sAppObject, b.exists, Before(a, b), Before(b, c)
    PROVE  Before(a, c)
<1> SUFFICES ASSUME a.exists, c.exists
             PROVE  /\ a.gen <= c.gen
                    /\ a.gen = c.gen => a.manifest = c.manifest
                    /\ Rank[a.manifest] <= Rank[c.manifest]
    BY DEF Before
<1>1. /\ a.gen \in Nat /\ b.gen \in Nat /\ c.gen \in Nat
      /\ a.gen <= b.gen /\ b.gen <= c.gen
      /\ a.gen = b.gen => a.manifest = b.manifest
      /\ b.gen = c.gen => b.manifest = c.manifest
    BY ObjectType DEF Before
<1>2. /\ Rank[a.manifest] \in Nat /\ Rank[b.manifest] \in Nat /\ Rank[c.manifest] \in Nat
      /\ Rank[a.manifest] <= Rank[b.manifest] /\ Rank[b.manifest] <= Rank[c.manifest]
    BY ObjectType, RankType DEF Before
<1>3. Rank[a.manifest] <= Rank[c.manifest]
    BY <1>2
<1>4. a.gen = c.gen => a.gen = b.gen /\ b.gen = c.gen
    BY <1>1
<1> QED BY <1>1, <1>3, <1>4

\* The cached version comes before all others, and all before the newest.
LEMMA EndsBefore ==
    ASSUME ForwardUsers, NEW vs \in Seq(K1sAppObject), vs # <<>>, Ordered(vs, Later),
           NEW i \in 1 .. Len(vs)
    PROVE  Before(Head(vs), vs[i]) /\ Before(vs[i], Newest(vs))
<1>1. /\ Len(vs) \in Nat \ {0}
      /\ Head(vs) = vs[1]
      /\ \A j \in 1 .. Len(vs) : vs[j] \in K1sAppObject
    BY Ends
<1>2. ASSUME NEW j \in 1 .. Len(vs), NEW n \in 1 .. Len(vs), j <= n
      PROVE  Before(vs[j], vs[n])
  <2>1. CASE j = n
      BY <1>1, <2>1, BeforeSelf
  <2>2. CASE j < n
    <3>1. <<vs[j], vs[n]>> \in Later
        BY <2>2 DEF Ordered
    <3> QED BY <3>1 DEF Later
  <2> QED BY <1>1, <1>2, <2>1, <2>2
<1>3. 1 \in 1 .. Len(vs) /\ Len(vs) \in 1 .. Len(vs) /\ 1 <= i /\ i <= Len(vs)
    BY <1>1
<1> QED BY <1>1, <1>2, <1>3 DEF Newest

\* If the object exists now and the cache has it, it exists in between.
LEMMA AllExist ==
    ASSUME NEW vs \in Seq(K1sAppObject), vs # <<>>, Unbroken(vs), Head(vs).exists,
           Newest(vs).exists, NEW i \in 1 .. Len(vs)
    PROVE  vs[i].exists
<1>1. Len(vs) \in Nat \ {0} /\ Head(vs) = vs[1]
    BY Ends
<1>2. CASE i = 1 \/ i = Len(vs)
    BY <1>1, <1>2 DEF Newest
<1>3. CASE 1 < i /\ i < Len(vs)
  <2>1. 1 \in 1 .. Len(vs) /\ Len(vs) \in 1 .. Len(vs)
      BY <1>1
  <2> QED BY <1>1, <1>3, <2>1 DEF Unbroken, Newest
<1>4. (i = 1 \/ i = Len(vs)) \/ (1 < i /\ i < Len(vs))
    BY <1>1
<1> QED BY <1>2, <1>3, <1>4

LEMMA BlankIsSound ==
    ASSUME NEW c, Blank(c)
    PROVE  \A f, s, k : Sound(c, f, s, k)
    BY HashFacts DEF Blank, Sound

\* A newer floor does for what an older one did.
LEMMA SoundRaised ==
    ASSUME ForwardUsers, NEW c \in K1sAppObject, NEW f \in K1sAppObject,
           NEW g \in K1sAppObject, f.exists, g.exists, Before(f, g), NEW s, NEW k,
           Sound(c, f, s, k)
    PROVE  Sound(c, g, s, k)
<1>1. /\ f.gen \in Nat /\ g.gen \in Nat /\ f.gen <= g.gen
      /\ Rank[f.manifest] \in Nat /\ Rank[g.manifest] \in Nat
      /\ Rank[f.manifest] <= Rank[g.manifest]
      /\ AppliedCondition(c).gen \in Nat
    BY ObjectType, RankType DEF Before
<1>2. ASSUME NEW m \in Manifests, c.hash = hashBytes(m)
      PROVE  Rank[m] <= Rank[g.manifest] /\ Reached(k, m)
  <2>1. Rank[m] <= Rank[f.manifest] /\ Reached(k, m) /\ Rank[m] \in Nat
      BY <1>2, RankType DEF Sound
  <2> QED BY <1>1, <2>1
<1>3. AppliedCondition(c).status = "True" => AppliedCondition(c).gen <= g.gen
    BY <1>1 DEF Sound
<1> QED BY <1>2, <1>3 DEF Sound

LEMMA GroundedRaised ==
    ASSUME ForwardUsers, NEW vs \in Seq(K1sAppObject), vs # <<>>, Ordered(vs, Later),
           NEW f \in K1sAppObject, f.exists, NEW k \in [Apps -> Manifests \cup {NoManifest}],
           Grounded(vs, f, k)
    PROVE  Grounded(vs, Head(vs), k)
<1>1. /\ Head(vs) \in K1sAppObject
      /\ \A i \in 1 .. Len(vs) : vs[i] \in K1sAppObject
      /\ Head(vs) = vs[1] /\ 1 \in 1 .. Len(vs)
    BY Ends
<1>2. Head(vs).exists /\ Before(f, Head(vs))
    BY <1>1 DEF Grounded
<1>3. \A i \in 1 .. Len(vs) : Sound(vs[i], Head(vs), Newest(vs), k)
    BY <1>1, <1>2, SoundRaised DEF Grounded
<1>4. \A i \in 1 .. Len(vs) : Before(Head(vs), vs[i])
    BY EndsBefore
<1>5. ASSUME NEW a \in Apps, k[a] # NoManifest
      PROVE  Rank[k[a]] <= Rank[Head(vs).manifest]
  <2>1. /\ Rank[k[a]] \in Nat /\ Rank[f.manifest] \in Nat /\ Rank[Head(vs).manifest] \in Nat
        /\ Rank[f.manifest] <= Rank[Head(vs).manifest]
      BY <1>1, <1>2, <1>5, ObjectType, RankType DEF Before
  <2>2. Rank[k[a]] <= Rank[f.manifest]
      BY <1>5 DEF Grounded
  <2> QED BY <2>1, <2>2
<1> QED BY <1>3, <1>4, <1>5 DEF Grounded

-----------------------------------------------------------------------------
(* The effects of a step: on the versions, on the copy, on k1s.            *)

\* x is s after a write of the environment or of a reconciler at step p with copy o.
Revised(s, x, p, o) ==
    /\ s.exists
    /\ x.exists
    /\ \/ x.gen = s.gen /\ x.manifest = s.manifest
       \/ x.gen = s.gen + 1 /\ (x.manifest = s.manifest \/ <<s.manifest, x.manifest>> \in Edits)
    /\ \/ x.hash = s.hash
       \/ p = "patchHash" /\ x.hash = hashBytes(o.manifest)
    /\ \/ AppliedCondition(x) = AppliedCondition(s)
       \/ p = "patchStatus" /\ AppliedCondition(x) = AppliedCondition(o)

LEMMA RevisedBefore ==
    ASSUME ForwardUsers, NEW s \in K1sAppObject, NEW x \in K1sAppObject, NEW p, NEW o,
           Revised(s, x, p, o)
    PROVE  Before(s, x)
<1>1. s.gen \in Nat /\ s.manifest \in Manifests /\ x.manifest \in Manifests
    BY ObjectType DEF Revised
<1>2. Rank[s.manifest] <= Rank[x.manifest]
    BY <1>1, RankType DEF Revised
<1> QED BY <1>1, <1>2 DEF Revised, Before

\* A claim about the newest version says nothing about one that was edited since.
LEMMA SoundLater ==
    ASSUME NEW c \in K1sAppObject, NEW f \in K1sAppObject, NEW s \in K1sAppObject,
           NEW x \in K1sAppObject, f.exists, s.exists, x.exists, Before(f, s), Before(s, x),
           NEW k, Sound(c, f, s, k)
    PROVE  Sound(c, f, x, k)
<1>1. /\ f.gen \in Nat /\ s.gen \in Nat /\ x.gen \in Nat /\ AppliedCondition(c).gen \in Nat
      /\ f.gen <= s.gen /\ s.gen <= x.gen
      /\ s.gen = x.gen => s.manifest = x.manifest
    BY ObjectType DEF Before
<1>2. ASSUME AppliedCondition(c).status = "True", AppliedCondition(c).gen = x.gen
      PROVE  Reached(k, x.manifest)
  <2>1. AppliedCondition(c).gen <= f.gen
      BY <1>2 DEF Sound
  <2>2. AppliedCondition(c).gen = s.gen /\ s.gen = x.gen
      BY <1>1, <1>2, <2>1
  <2> QED BY <1>1, <1>2, <2>2 DEF Sound
<1> QED BY <1>2 DEF Sound

LEMMA GroundedStored ==
    ASSUME ForwardUsers, NEW vs \in Seq(K1sAppObject), vs # <<>>, NEW x \in K1sAppObject,
           x.exists, NEW f \in K1sAppObject, f.exists, NEW k, Grounded(vs, f, k),
           Before(Newest(vs), x), Sound(x, f, x, k), NEW ws, ws = Append(vs, x)
    PROVE  Grounded(ws, f, k)
<1>1. /\ Len(ws) = Len(vs) + 1 /\ Len(vs) \in Nat \ {0}
      /\ \A i \in 1 .. Len(vs) : ws[i] = vs[i] /\ vs[i] \in K1sAppObject
      /\ ws[Len(ws)] = x
      /\ Newest(ws) = x
    BY Ends, Stored DEF Newest
<1>2. /\ Newest(vs) \in K1sAppObject /\ Newest(vs).exists /\ Before(f, Newest(vs))
    BY <1>1 DEF Grounded, Newest
<1>3. Before(f, x)
    BY <1>2, BeforeChain
<1>4. ASSUME NEW i \in 1 .. Len(ws)
      PROVE  ws[i].exists /\ Before(f, ws[i]) /\ Sound(ws[i], f, Newest(ws), k)
  <2>1. CASE i \in 1 .. Len(vs)
    <3>1. vs[i].exists /\ Before(f, vs[i]) /\ Sound(vs[i], f, Newest(vs), k)
        BY <2>1 DEF Grounded
    <3>2. Sound(vs[i], f, x, k)
        BY <1>1, <1>2, <2>1, <3>1, SoundLater
    <3> QED BY <1>1, <2>1, <3>1, <3>2
  <2>2. CASE i = Len(ws)
      BY <1>1, <1>3, <2>2
  <2>3. i \in 1 .. Len(vs) \/ i = Len(ws)
      BY <1>1
  <2> QED BY <2>1, <2>2, <2>3
<1> QED BY <1>4 DEF Grounded

\* What a reconcile writes is what its copy says.
LEMMA RevisedSound ==
    ASSUME ForwardUsers, NEW s \in K1sAppObject, NEW x \in K1sAppObject, NEW p,
           NEW o \in K1sAppObject, p # "idle" => o.exists, Revised(s, x, p, o),
           NEW f \in K1sAppObject, f.exists, Before(f, s), NEW k, Sound(s, f, s, k),
           p # "idle" => f = o /\ Sound(o, o, s, k),
           p \in AppliedSteps => Reached(k, o.manifest)
    PROVE  Sound(x, f, x, k)
<1>1. Before(s, x) /\ s.exists /\ x.exists
    BY RevisedBefore DEF Revised
<1>2. Sound(s, f, x, k) /\ (p # "idle" => Sound(o, f, x, k))
    BY <1>1, SoundLater
<1>3. ASSUME NEW m \in Manifests, x.hash = hashBytes(m)
      PROVE  Rank[m] <= Rank[f.manifest] /\ Reached(k, m)
  <2>1. CASE x.hash = s.hash
      BY <1>2, <1>3, <2>1 DEF Sound
  <2>2. CASE p = "patchHash" /\ x.hash = hashBytes(o.manifest)
    <3>1. m = o.manifest /\ f = o /\ Reached(k, o.manifest)
        BY <1>3, <2>2, HashFacts DEF AppliedSteps
    <3>2. Rank[m] \in Nat
        BY RankType
    <3> QED BY <3>1, <3>2
  <2> QED BY <2>1, <2>2 DEF Revised
<1>4. \/ AppliedCondition(x) = AppliedCondition(s)
      \/ p # "idle" /\ AppliedCondition(x) = AppliedCondition(o)
    BY DEF Revised
<1> QED BY <1>2, <1>3, <1>4 DEF Sound

LEMMA HonestStored ==
    ASSUME ForwardUsers, NEW vs \in Seq(K1sAppObject), vs # <<>>, NEW x \in K1sAppObject,
           NEW p, NEW o \in K1sAppObject, p # "idle" => o.exists,
           NEW k, Honest(vs, p, o, k),
           Revised(Newest(vs), x, p, o), NEW ws, ws = Append(vs, x)
    PROVE  Honest(ws, p, o, k)
<1> DEFINE s == Newest(vs)
<1>1. /\ Len(ws) = Len(vs) + 1 /\ Len(vs) \in Nat \ {0}
      /\ \A i \in 1 .. Len(vs) : ws[i] = vs[i] /\ vs[i] \in K1sAppObject
      /\ ws[Len(ws)] = x
      /\ Newest(ws) = x
      /\ Head(ws) = Head(vs) /\ Head(vs) = vs[1]
      /\ s \in K1sAppObject
      /\ s = vs[Len(vs)] /\ 1 \in 1 .. Len(vs) /\ Len(vs) \in 1 .. Len(vs)
    BY Ends, Stored DEF Newest
<1>2. s.exists /\ x.exists /\ Before(s, x)
    BY <1>1, RevisedBefore DEF Revised
<1>3. Ordered(vs, Later) /\ Unbroken(vs) /\ FloorHolds(vs, p, o, k)
    BY <1>2 DEF Honest
<1>4. Ordered(ws, Later)
  <2>1. \A i \in 1 .. Len(vs) : Before(vs[i], x)
      BY <1>1, <1>2, <1>3, EndsBefore, BeforeChain
  <2>2. \A i \in 1 .. Len(vs) : <<vs[i], x>> \in Later
      BY <1>1, <2>1 DEF Later
  <2> QED BY <1>3, <2>2, OrderedStored
<1>5. Unbroken(ws)
    BY <1>1, <1>2, <1>3, UnbrokenStored
<1>6. FloorHolds(ws, p, o, k)
  <2>1. CASE p # "idle"
    <3>1. /\ Grounded(vs, o, k) /\ Sound(o, o, s, k)
          /\ p \in AppliedSteps => Reached(k, o.manifest)
        BY <1>3, <2>1 DEF FloorHolds
    <3>2. Before(o, s) /\ Sound(s, o, s, k)
        BY <1>1, <3>1 DEF Grounded
    <3>3. Sound(x, o, x, k)
        BY <1>1, <2>1, <3>1, <3>2, RevisedSound
    <3>4. Grounded(ws, o, k)
        BY <1>1, <1>2, <2>1, <3>1, <3>3, GroundedStored
    <3>5. Sound(o, o, x, k)
        BY <1>1, <1>2, <2>1, <3>1, <3>2, SoundLater
    <3> QED BY <1>1, <2>1, <3>1, <3>4, <3>5 DEF FloorHolds
  <2>2. CASE p = "idle" /\ Head(vs).exists
    <3>1. Grounded(vs, Head(vs), k)
        BY <1>3, <2>2 DEF FloorHolds
    <3>2. Before(Head(vs), s) /\ Sound(s, Head(vs), s, k)
        BY <1>1, <3>1 DEF Grounded
    <3>3. Sound(x, Head(vs), x, k)
        BY <1>1, <2>2, <3>2, RevisedSound DEF AppliedSteps
    <3>4. Grounded(ws, Head(vs), k)
        BY <1>1, <1>2, <2>2, <3>1, <3>3, GroundedStored
    <3> QED BY <1>1, <2>2, <3>4 DEF FloorHolds
  <2>3. CASE p = "idle" /\ ~Head(vs).exists
    <3>1. Untouched(vs, k)
        BY <1>3, <2>3 DEF FloorHolds
    <3>2. Blank(x)
        BY <1>1, <2>3, <3>1 DEF Untouched, Blank, Revised
    <3>3. \A i \in 1 .. Len(ws) : i \in 1 .. Len(vs) \/ i = Len(ws)
        BY <1>1
    <3>4. Untouched(ws, k)
        BY <1>1, <3>1, <3>2, <3>3 DEF Untouched
    <3> QED BY <1>1, <2>3, <3>4 DEF FloorHolds
  <2> QED BY <2>1, <2>2, <2>3
<1> QED BY <1>4, <1>5, <1>6 DEF Honest

\* The object is created.
LEMMA HonestBorn ==
    ASSUME NEW vs \in Seq(K1sAppObject), vs # <<>>, NEW p, NEW o, NEW k, Unborn(vs, p, k),
           NEW m \in Manifests, NEW policy \in Policies,
           NEW ws, ws = Append(vs, NewObject(m, policy))
    PROVE  Honest(ws, p, o, k)
<1> DEFINE x == NewObject(m, policy)
<1>0. /\ x \in K1sAppObject
      /\ Blank(x) /\ Blank(NoObject)
      /\ ~NoObject.exists
  <2>1. NoStatus.conds["Applied"].status # "True"
      BY DEF NoStatus, ConditionTypes, NoCondition
  <2> QED BY <2>1, NoObjectType, NewObjectType
          DEF NewObject, NoObject, Blank, AppliedCondition
<1> HIDE DEF x
<1>1. /\ Len(ws) = Len(vs) + 1 /\ Len(vs) \in Nat \ {0}
      /\ \A i \in 1 .. Len(vs) : ws[i] = vs[i] /\ vs[i] \in K1sAppObject
      /\ ws[Len(ws)] = x
      /\ Head(ws) = Head(vs) /\ Head(vs) = vs[1]
    BY <1>0, Ends, Stored DEF x
<1>2. \A i \in 1 .. Len(vs) : vs[i] = NoObject
    BY DEF Unborn
<1>3. \A i \in 1 .. Len(ws) : i \in 1 .. Len(vs) \/ i = Len(ws)
    BY <1>1
<1>4. Untouched(ws, k)
    BY <1>0, <1>1, <1>2, <1>3 DEF Untouched, Unborn
<1>5. Ordered(ws, Later)
  <2>1. \A i \in 1 .. Len(vs) : <<vs[i], x>> \in Later
      BY <1>0, <1>1, <1>2 DEF Later, Before
  <2>2. Ordered(vs, Later)
      BY <1>0, <1>1, <1>2 DEF Ordered, Later, Before
  <2> QED BY <1>0, <2>1, <2>2, OrderedStored DEF x
<1>6. Unbroken(ws)
  <2>1. Unbroken(vs) /\ \A i \in 1 .. Len(vs) : ~vs[i].exists
      BY <1>0, <1>2 DEF Unbroken
  <2> QED BY <1>0, <2>1, UnbrokenStored DEF x
<1>7. p = "idle" /\ ~Head(ws).exists
    BY <1>0, <1>1, <1>2 DEF Unborn
<1> QED BY <1>4, <1>5, <1>6, <1>7 DEF Honest, FloorHolds

\* Fewer versions with the same newest one.
LEMMA GroundedDelivered ==
    ASSUME NEW vs \in Seq(K1sAppObject), NEW n \in 2 .. Len(vs),
           NEW ws, ws = SubSeq(vs, n, Len(vs)), NEW k
    PROVE  /\ \A f : Grounded(vs, f, k) => Grounded(ws, f, k)
           /\ Untouched(vs, k) => Untouched(ws, k)
<1>1. \A i \in 1 .. Len(ws) : i + n - 1 \in 1 .. Len(vs) /\ ws[i] = vs[i + n - 1]
    BY DeliveredElements
<1>2. Newest(ws) = Newest(vs)
    BY Delivered DEF Newest
<1> QED BY <1>1, <1>2 DEF Grounded, Untouched

\* The cache catches up, by one version or by several.
LEMMA HonestDelivered ==
    ASSUME ForwardUsers, NEW vs \in Seq(K1sAppObject), vs # <<>>, NEW p, NEW o,
           NEW k \in [Apps -> Manifests \cup {NoManifest}], Honest(vs, p, o, k),
           NEW n \in 2 .. Len(vs), NEW ws, ws = SubSeq(vs, n, Len(vs))
    PROVE  Honest(ws, p, o, k)
<1>1. /\ ws \in Seq(K1sAppObject) /\ ws # <<>>
      /\ Newest(ws) = Newest(vs)
    BY Delivered DEF Newest
<1> SUFFICES ASSUME Newest(vs).exists
             PROVE  Ordered(ws, Later) /\ Unbroken(ws) /\ FloorHolds(ws, p, o, k)
    BY <1>1 DEF Honest
<1>2. Ordered(vs, Later) /\ Unbroken(vs) /\ FloorHolds(vs, p, o, k)
    BY DEF Honest
<1>3. Ordered(ws, Later) /\ Unbroken(ws)
    BY <1>2, RelationsDelivered
<1>4. /\ Head(vs) \in K1sAppObject
      /\ \A i \in 1 .. Len(ws) : ws[i] \in K1sAppObject
      /\ Head(ws) = ws[1] /\ 1 \in 1 .. Len(ws)
    BY <1>1, Ends
<1>5. CASE p # "idle"
  <2>1. Grounded(ws, o, k)
      BY <1>2, <1>5, GroundedDelivered DEF FloorHolds
  <2> QED BY <1>1, <1>2, <1>3, <1>5, <2>1 DEF FloorHolds
<1>6. CASE p = "idle" /\ Head(vs).exists
  <2>1. Grounded(ws, Head(vs), k)
      BY <1>2, <1>6, GroundedDelivered DEF FloorHolds
  <2>2. Grounded(ws, Head(ws), k)
      BY <1>1, <1>3, <1>4, <1>6, <2>1, GroundedRaised
  <2>3. Head(ws).exists
      BY <1>4, <2>1 DEF Grounded
  <2> QED BY <1>3, <1>6, <2>2, <2>3 DEF FloorHolds
<1>7. CASE p = "idle" /\ ~Head(vs).exists
  <2>1. Untouched(ws, k)
      BY <1>2, <1>7, GroundedDelivered DEF FloorHolds
  <2>2. ASSUME Head(ws).exists
        PROVE  Grounded(ws, Head(ws), k)
    <3>1. \A i \in 1 .. Len(ws) : ws[i].exists /\ Before(Head(ws), ws[i])
        BY <1>1, <1>3, <2>2, AllExist, EndsBefore
    <3>2. \A i \in 1 .. Len(ws) : Sound(ws[i], Head(ws), Newest(ws), k)
        BY <2>1, BlankIsSound DEF Untouched
    <3> QED BY <2>1, <3>1, <3>2 DEF Grounded, Untouched
  <2> QED BY <1>3, <1>7, <2>1, <2>2 DEF FloorHolds
<1> QED BY <1>5, <1>6, <1>7

\* Reconcile returns.
LEMMA HonestIdle ==
    ASSUME ForwardUsers, NEW vs \in Seq(K1sAppObject), vs # <<>>, NEW p,
           NEW o \in K1sAppObject, p # "idle" => o.exists,
           NEW k \in [Apps -> Manifests \cup {NoManifest}], Honest(vs, p, o, k), NEW q
    PROVE  Honest(vs, "idle", q, k)
<1> SUFFICES ASSUME Newest(vs).exists, p # "idle"
             PROVE  FloorHolds(vs, "idle", q, k)
    BY DEF Honest, FloorHolds
<1>1. Grounded(vs, o, k) /\ Ordered(vs, Later)
    BY DEF Honest, FloorHolds
<1>2. Grounded(vs, Head(vs), k)
    BY <1>1, GroundedRaised
<1>3. Head(vs).exists
    BY <1>1, Ends DEF Grounded
<1> QED BY <1>2, <1>3 DEF FloorHolds

\* The manager restarts.
LEMMA HonestRestarted ==
    ASSUME ForwardUsers, NEW vs \in Seq(K1sAppObject), vs # <<>>, NEW p,
           NEW o \in K1sAppObject, p # "idle" => o.exists,
           NEW k \in [Apps -> Manifests \cup {NoManifest}], Honest(vs, p, o, k),
           NEW q, NEW ws, ws = <<Newest(vs)>>
    PROVE  Honest(ws, "idle", q, k)
<1>1. Honest(vs, "idle", q, k)
    BY HonestIdle
<1>2. CASE Len(vs) = 1
  <2>1. ws = vs
      BY <1>2 DEF Newest
  <2> QED BY <1>1, <2>1
<1>3. CASE Len(vs) \in 2 .. Len(vs)
  <2>1. ws = SubSeq(vs, Len(vs), Len(vs))
      BY <1>3 DEF Newest
  <2> QED BY <1>1, <1>3, <2>1, HonestDelivered
<1> QED BY <1>2, <1>3, Ends

\* Reconcile begins with the cached object.
LEMMA HonestEntered ==
    ASSUME NEW vs \in Seq(K1sAppObject), vs # <<>>, NEW o, NEW k, Honest(vs, "idle", o, k),
           Head(vs).exists, NEW p,
           p \in AppliedSteps =>
               Head(vs).manifest \in Manifests /\ Head(vs).hash = hashBytes(Head(vs).manifest)
    PROVE  Honest(vs, p, Head(vs), k)
<1> SUFFICES ASSUME Newest(vs).exists, p # "idle"
             PROVE  FloorHolds(vs, p, Head(vs), k)
    BY DEF Honest, FloorHolds
<1>1. Grounded(vs, Head(vs), k)
    BY DEF Honest, FloorHolds
<1>2. Sound(Head(vs), Head(vs), Newest(vs), k)
    BY <1>1, Ends DEF Grounded
<1>3. p \in AppliedSteps => Reached(k, Head(vs).manifest)
    BY <1>2 DEF Sound
<1> QED BY <1>1, <1>2, <1>3 DEF FloorHolds

\* Reconcile goes on with its copy, or with one of another status: with the same
\* Applied condition, with one that is not True, or with a true one.
LEMMA HonestRewritten ==
    ASSUME NEW vs \in Seq(K1sAppObject), vs # <<>>, NEW p, NEW o \in K1sAppObject, NEW k,
           Honest(vs, p, o, k), p # "idle", o.exists, NEW q, q # "idle",
           NEW w \in K1sAppObject, w.exists, w.gen = o.gen, w.manifest = o.manifest,
           w.hash = o.hash,
           q \in AppliedSteps => p \in AppliedSteps \/ Reached(k, o.manifest),
           \/ AppliedCondition(w) = AppliedCondition(o)
           \/ AppliedCondition(w).status # "True"
           \/ p \in AppliedSteps /\ AppliedCondition(w).gen = o.gen
    PROVE  Honest(vs, q, w, k)
<1> SUFFICES ASSUME Newest(vs).exists
             PROVE  FloorHolds(vs, q, w, k)
    BY DEF Honest
<1>1. /\ Grounded(vs, o, k) /\ Sound(o, o, Newest(vs), k)
      /\ p \in AppliedSteps => Reached(k, o.manifest)
    BY DEF Honest, FloorHolds
<1>2. Before(o, Newest(vs))
    BY <1>1, Ends DEF Grounded, Newest
<1>3. Grounded(vs, w, k)
  <2>1. \A v : Before(o, v) => Before(w, v)
      BY DEF Before
  <2>2. \A c, s : Sound(c, o, s, k) => Sound(c, w, s, k)
      BY DEF Sound
  <2> QED BY <1>1, <2>1, <2>2 DEF Grounded
<1>4. Sound(w, w, Newest(vs), k)
  <2>1. \A m \in Manifests : w.hash = hashBytes(m) =>
            Rank[m] <= Rank[w.manifest] /\ Reached(k, m)
      BY <1>1 DEF Sound
  <2>2. CASE AppliedCondition(w) = AppliedCondition(o)
      BY <1>1, <2>1, <2>2 DEF Sound
  <2>3. CASE AppliedCondition(w).status # "True"
      BY <2>1, <2>3 DEF Sound
  <2>4. CASE p \in AppliedSteps /\ AppliedCondition(w).gen = o.gen
    <3>1. w.gen <= w.gen
        BY ObjectType
    <3>2. Newest(vs).gen = o.gen => Newest(vs).manifest = o.manifest
        BY <1>2 DEF Before
    <3> QED BY <1>1, <2>1, <2>4, <3>1, <3>2 DEF Sound
  <2> QED BY <2>2, <2>3, <2>4
<1> QED BY <1>1, <1>3, <1>4 DEF FloorHolds

\* Somebody removes an app from k1s.
LEMMA HonestRemoved ==
    ASSUME NEW vs, NEW p, NEW o, NEW k \in [Apps -> Manifests \cup {NoManifest}],
           Honest(vs, p, o, k), NEW a, NEW l, l = [k EXCEPT ![a] = NoManifest]
    PROVE  Honest(vs, p, o, l)
<1>1. \A b : l[b] = k[b] \/ l[b] = NoManifest
  <2> TAKE b
  <2>1. CASE b \in Apps
      BY <2>1
  <2>2. CASE b \notin Apps
      BY <2>2
  <2> QED BY <2>1, <2>2
<1>2. \A m : Reached(k, m) => Reached(l, m)
    BY <1>1 DEF Reached
<1>3. \A c, f, s : Sound(c, f, s, k) => Sound(c, f, s, l)
    BY <1>2 DEF Sound
<1>4. /\ \A f : Grounded(vs, f, k) => Grounded(vs, f, l)
      /\ Untouched(vs, k) => Untouched(vs, l)
    BY <1>1, <1>3 DEF Grounded, Untouched
<1> QED BY <1>2, <1>3, <1>4 DEF Honest, FloorHolds

\* Reconcile applies the manifest of its copy.
LEMMA HonestApplied ==
    ASSUME ForwardUsers, NEW vs \in Seq(K1sAppObject), vs # <<>>, NEW p,
           NEW o \in K1sAppObject, p # "idle", o.exists,
           NEW k \in [Apps -> Manifests \cup {NoManifest}], Honest(vs, p, o, k),
           NEW l, l = [k EXCEPT ![AppOf[o.manifest]] = o.manifest]
    PROVE  Honest(vs, p, o, l) /\ Reached(l, o.manifest)
<1>1. o.manifest \in Manifests /\ AppOf[o.manifest] \in Apps /\ Rank[o.manifest] \in Nat
    BY ObjectType, RankType, ManifestAssumption
<1>2. l[AppOf[o.manifest]] = o.manifest /\ \A b \in Apps : l[b] \in {k[b], o.manifest}
    BY <1>1
<1>3. ASSUME NEW m \in Manifests, Rank[m] <= Rank[o.manifest], Reached(k, m)
      PROVE  Reached(l, m)
  <2>1. AppOf[m] \in Apps
      BY ManifestAssumption
  <2> QED BY <1>2, <1>3, <2>1 DEF Reached
<1>4. Reached(l, o.manifest)
    BY <1>1, <1>2 DEF Reached
<1>5. ASSUME Newest(vs).exists
      PROVE  FloorHolds(vs, p, o, l)
  <2>1. Grounded(vs, o, k) /\ Sound(o, o, Newest(vs), k)
      BY <1>5 DEF Honest, FloorHolds
  <2>2. /\ \A i \in 1 .. Len(vs) : vs[i] \in K1sAppObject
        /\ Newest(vs) \in K1sAppObject /\ Before(o, Newest(vs))
      BY <2>1, Ends DEF Grounded, Newest
  <2>3. ASSUME NEW c \in K1sAppObject, Sound(c, o, Newest(vs), k)
        PROVE  Sound(c, o, Newest(vs), l)
    <3>1. ASSUME AppliedCondition(c).status = "True",
                 AppliedCondition(c).gen = Newest(vs).gen
          PROVE  Reached(l, Newest(vs).manifest)
      <4>1. /\ Newest(vs).gen <= o.gen /\ o.gen <= Newest(vs).gen
            /\ o.gen \in Nat /\ Newest(vs).gen \in Nat
          BY <1>5, <2>2, <2>3, <3>1, ObjectType DEF Sound, Before
      <4>2. o.gen = Newest(vs).gen
          BY <4>1
      <4>3. Newest(vs).manifest = o.manifest
          BY <1>5, <2>2, <4>2 DEF Before
      <4> QED BY <1>4, <4>3
    <3> QED BY <1>3, <2>3, <3>1 DEF Sound
  <2>4. \A a \in Apps : l[a] # NoManifest => Rank[l[a]] <= Rank[o.manifest]
    <3>1. Rank[o.manifest] <= Rank[o.manifest]
        BY <1>1
    <3> QED BY <1>2, <2>1, <3>1 DEF Grounded
  <2>5. Grounded(vs, o, l)
      BY <2>1, <2>2, <2>3, <2>4 DEF Grounded
  <2> QED BY <1>4, <2>1, <2>3, <2>5 DEF FloorHolds
<1> QED BY <1>4, <1>5 DEF Honest

-----------------------------------------------------------------------------
(* The steps of Reconcile.                                                 *)

\* The Applied condition of the statuses that Reconcile computes.
LEMMA ComputedApplied ==
    ASSUME NEW o \in K1sAppObject, NEW ready
    PROVE  /\ credentialsMissing(o).conds["Applied"] = AppliedCondition(o)
           /\ deleteFailed(o).conds["Applied"].status # "True"
           /\ wrongKind(o).conds["Applied"] = AppliedCondition(o)
           /\ reconciled(o, TRUE, ready).conds["Applied"].gen = o.gen
           /\ reconciled(o, FALSE, ready).conds["Applied"].status # "True"
<1>1. o.status \in K1sAppStatus /\ o.status.conds \in Conditions
    BY ObjectType DEF K1sAppStatus
<1>2. /\ credentialsMissing(o).conds["Applied"] = AppliedCondition(o)
      /\ deleteFailed(o).conds["Applied"].status # "True"
    BY <1>1 DEF credentialsMissing, deleteFailed, setCondition, AppliedCondition, Conditions,
                ConditionTypes, K1sAppStatus
<1>3. wrongKind(o).conds["Applied"] = AppliedCondition(o)
    BY <1>1 DEF wrongKind, setCondition, AppliedCondition, Conditions, ConditionTypes,
                K1sAppStatus
<1>4. reconciled(o, TRUE, ready).conds["Applied"].gen = o.gen
    BY <1>1 DEF reconciled, setCondition, Conditions, ConditionTypes, K1sAppStatus
<1>5. reconciled(o, FALSE, ready).conds["Applied"].status = conditionStatus(FALSE)
    BY <1>1 DEF reconciled, setCondition, Conditions, ConditionTypes, K1sAppStatus
<1>6. conditionStatus(FALSE) # "True"
    BY DEF conditionStatus
<1> QED BY <1>2, <1>3, <1>4, <1>5, <1>6

\* Reconcile turns to its last patch.
LEMMA HonestWriteStatus ==
    ASSUME NEW vs \in Seq(K1sAppObject), vs # <<>>, NEW p, NEW o \in K1sAppObject, NEW k,
           Honest(vs, p, o, k), p # "idle", o.exists, NEW s \in K1sAppStatus, NEW r,
           WriteStatus(o, s, r),
           \/ s.conds["Applied"] = AppliedCondition(o)
           \/ s.conds["Applied"].status # "True"
           \/ p \in AppliedSteps /\ s.conds["Applied"].gen = o.gen
    PROVE  Honest(vs, pc', own', k)
<1> DEFINE w == [o EXCEPT !.status = s]
<1>1. /\ w \in K1sAppObject
      /\ w.exists /\ w.gen = o.gen /\ w.manifest = o.manifest /\ w.hash = o.hash
      /\ AppliedCondition(w) = s.conds["Applied"]
    BY WithStatus DEF K1sAppObject, K1sAppRecord, AppliedCondition
<1>2. pc' = "patchStatus" /\ own' = w
    BY DEF WriteStatus
<1>3. "patchStatus" \notin AppliedSteps
    BY DEF AppliedSteps
<1> HIDE DEF w
<1>4. Honest(vs, "patchStatus", w, k)
    BY <1>1, <1>3, HonestRewritten
<1> QED BY <1>2, <1>4

LEMMA StartApplied ==
    ASSUME ForwardUsers, TypeOK, Honest(versions, pc, own, k1s), Start
    PROVE  Honest(versions, pc', own', k1s)
<1>1. /\ versions \in Seq(K1sAppObject) /\ versions # <<>>
      /\ cached = Head(versions) /\ cached \in K1sAppObject
      /\ pc = "idle" /\ Honest(versions, "idle", own, k1s)
    BY VersionsType DEF TypeOK, cached, Start
<1>2. ASSUME cached.exists,
             NEW q, q \in AppliedSteps => cached.hash = hashBytes(cached.manifest)
      PROVE  Honest(versions, q, cached, k1s)
  <2>1. cached.manifest \in Manifests
      BY <1>1, <1>2, ObjectType
  <2> QED BY <1>1, <1>2, <2>1, HonestEntered
<1>3. CASE ReturnAtOnce
    BY <1>1, <1>3 DEF ReturnAtOnce
<1>4. ASSUME cached.exists, NEW s \in K1sAppStatus, NEW r, WriteStatus(cached, s, r),
             s.conds["Applied"] = AppliedCondition(cached)
      PROVE  Honest(versions, pc', own', k1s)
  <2>1. Honest(versions, "patchStatus", cached, k1s)
      BY <1>2, <1>4 DEF AppliedSteps
  <2> QED BY <1>1, <1>4, <2>1, HonestWriteStatus
<1>5. CASE MissingCredentials
    BY <1>1, <1>4, <1>5, ComputedStatus, ComputedApplied DEF MissingCredentials
<1>6. CASE RejectKind
    BY <1>1, <1>4, <1>6, ComputedStatus, ComputedApplied DEF RejectKind
<1>7. ASSUME NEW q, Enter(q), q \in AppliedSteps => cached.hash = hashBytes(cached.manifest)
      PROVE  Honest(versions, pc', own', k1s)
    BY <1>2, <1>7 DEF Enter
<1>8. CASE BeginDelete
    BY <1>7, <1>8 DEF BeginDelete, AppliedSteps
<1>9. CASE BeginAddFinalizer
    BY <1>7, <1>9 DEF BeginAddFinalizer, AppliedSteps
<1>10. CASE BeginApply
    BY <1>7, <1>10 DEF BeginApply, AppliedSteps
<1> QED BY <1>3, <1>5, <1>6, <1>8, <1>9, <1>10 DEF Start

\* A call to k1s, with what Reconcile makes of the answer.
LEMMA CallApplied ==
    ASSUME ForwardUsers, TypeOK, Honest(versions, pc, own, k1s),
           DeleteApp \/ DeleteAppFails \/ CheckStatus \/ Apply \/ ApplyFails \/ ReadStatus
    PROVE  Honest(versions, pc', own', k1s')
<1>1. /\ versions \in Seq(K1sAppObject) /\ versions # <<>>
      /\ own \in K1sAppObject
      /\ k1s \in [Apps -> Manifests \cup {NoManifest}]
      /\ pc # "idle" /\ own.exists
    BY DEF TypeOK, DeleteApp, DeleteAppFails, CheckStatus, Apply, ApplyFails, ReadStatus
<1>2. ASSUME NEW k, Honest(versions, pc, own, k), NEW q, q # "idle", Goto(q),
             q \in AppliedSteps => pc \in AppliedSteps \/ Reached(k, own.manifest)
      PROVE  Honest(versions, pc', own', k)
    BY <1>1, <1>2, HonestRewritten DEF Goto
<1>3. ASSUME pc \in AppliedSteps, NEW ready \in BOOLEAN, NEW r,
             WriteStatus(own, reconciled(own, TRUE, ready), r)
      PROVE  Honest(versions, pc', own', k1s)
  <2>1. /\ reconciled(own, TRUE, ready) \in K1sAppStatus
        /\ reconciled(own, TRUE, ready).conds["Applied"].gen = own.gen
      BY <1>1, ComputedStatus, ComputedApplied
  <2> QED BY <1>1, <1>3, <2>1, HonestWriteStatus
<1>4. CASE DeleteApp \/ DeleteAppFails
  <2>1. Honest(versions, pc, own, k1s')
      BY <1>1, <1>4, HonestRemoved DEF DeleteApp, DeleteAppFails
  <2>2. CASE DeleteApp
      BY <1>2, <2>1, <2>2 DEF DeleteApp, AppliedSteps
  <2>3. CASE DeleteAppFails
    <3>1. /\ deleteFailed(own) \in K1sAppStatus
          /\ deleteFailed(own).conds["Applied"].status # "True"
        BY <1>1, ComputedStatus, ComputedApplied
    <3> QED BY <1>1, <2>1, <2>3, <3>1, HonestWriteStatus DEF DeleteAppFails
  <2> QED BY <1>4, <2>2, <2>3
<1>5. CASE CheckStatus
  <2>1. pc \in AppliedSteps /\ UNCHANGED k1s
      BY <1>5 DEF CheckStatus, AppliedSteps
  <2>2. CASE Goto("apply") \/ Goto("readStatus")
      BY <1>2, <2>1, <2>2
  <2>3. CASE applyObservedAppStatus
      BY <1>3, <2>1, <2>3 DEF applyObservedAppStatus
  <2> QED BY <1>5, <2>2, <2>3 DEF CheckStatus
<1>6. CASE Apply \/ ApplyFails
  <2>1. UNCHANGED k1s \/ k1s' = [k1s EXCEPT ![AppOf[own.manifest]] = own.manifest]
      BY <1>6 DEF Apply, ApplyFails
  <2>2. Honest(versions, pc, own, k1s')
      BY <1>1, <2>1, HonestApplied
  <2>3. CASE Apply
    <3>1. Reached(k1s', own.manifest)
        BY <1>1, <2>3, HonestApplied DEF Apply
    <3> QED BY <1>2, <2>2, <2>3, <3>1 DEF Apply
  <2>4. CASE ApplyFails
    <3>1. /\ reconciled(own, FALSE, FALSE) \in K1sAppStatus
          /\ reconciled(own, FALSE, FALSE).conds["Applied"].status # "True"
        BY <1>1, ComputedStatus, ComputedApplied
    <3> QED BY <1>1, <2>2, <2>4, <3>1, HonestWriteStatus DEF ApplyFails
  <2> QED BY <1>6, <2>3, <2>4
<1>7. CASE ReadStatus
  <2>1. pc \in AppliedSteps /\ UNCHANGED k1s
      BY <1>7 DEF ReadStatus, AppliedSteps
  <2> QED BY <1>3, <1>7, <2>1 DEF ReadStatus, applyObservedAppStatus
<1> QED BY <1>4, <1>5, <1>6, <1>7

\* The reconciler's patches leave generation and manifest alone.
LEMMA PatchRevises ==
    ASSUME TypeOK, server.exists, own.exists
    PROVE  /\ afterFinalizers.exists => Revised(server, afterFinalizers, pc, own)
           /\ pc = "patchHash" => Revised(server, afterHash(manifestHash), pc, own)
<1>1. server \in K1sAppObject
    BY VersionsType DEF TypeOK
<1>2. afterFinalizers.exists => Revised(server, afterFinalizers, pc, own)
    BY <1>1, NoObjectType
    DEF afterFinalizers, patchFinalizers, Revised, AppliedCondition, K1sAppObject, K1sAppRecord
<1>3. /\ afterHash(manifestHash).exists
      /\ afterHash(manifestHash).gen = server.gen
      /\ afterHash(manifestHash).manifest = server.manifest
      /\ afterHash(manifestHash).hash \in {server.hash, hashBytes(own.manifest)}
      /\ afterHash(manifestHash).status = server.status
    BY <1>1 DEF afterHash, patchLastAppliedHash, manifestHash, K1sAppObject, K1sAppRecord
<1> QED BY <1>2, <1>3 DEF Revised, AppliedCondition

\* A write, before anything else that its step does.
LEMMA WriteApplied ==
    ASSUME ForwardUsers, TypeOK, Honest(versions, pc, own, k1s),
           NEW x \in K1sAppObject, Store(x) \/ StoreIfChanged(x),
           x.exists => Revised(server, x, pc, own)
    PROVE  Honest(versions', pc, own, k1s)
<1>1. /\ versions \in Seq(K1sAppObject) /\ versions # <<>>
      /\ own \in K1sAppObject
      /\ pc # "idle" => own.exists
      /\ server = Newest(versions)
    BY DEF TypeOK, server, Newest
<1>2. CASE UNCHANGED versions
    BY <1>2
<1>3. CASE versions' = Append(versions, x)
  <2>1. CASE x.exists
      BY <1>1, <1>3, <2>1, HonestStored
  <2>2. CASE ~x.exists
    <3>1. Newest(versions') = x
        BY <1>1, <1>3, Stored DEF Newest
    <3> QED BY <2>2, <3>1 DEF Honest
  <2> QED BY <2>1, <2>2
<1> QED BY <1>2, <1>3 DEF Store, StoreIfChanged

LEMMA StatusApplied ==
    ASSUME ForwardUsers, TypeOK, Honest(versions, pc, own, k1s), pc = "patchStatus",
           server.exists, StoreStatus
    PROVE  Honest(versions', pc, own, k1s)
<1>1. server \in K1sAppObject /\ server.status \in K1sAppStatus
    BY VersionsType, ObjectType DEF TypeOK
<1>2. PICK resent \in BOOLEAN :
          LET merged == patchStatus(server.status, cached.status, own.status, resent)
              o == [server EXCEPT !.status = merged]
          IN  Store(o) \/ StoreIfChanged(o)
    BY DEF StoreStatus
<1> DEFINE merged == patchStatus(server.status, cached.status, own.status, resent)
           x == [server EXCEPT !.status = merged]
<1>3. merged \in K1sAppStatus
    BY StatusStored
<1>4. merged.conds \in {server.status.conds, own.status.conds}
  <2>1. "conds" \in DOMAIN server.status
      BY <1>1 DEF K1sAppStatus
  <2> QED BY <2>1 DEF patchStatus, mergeField
<1>5. Store(x) \/ StoreIfChanged(x)
    BY <1>2
<1> HIDE DEF merged
<1>6. /\ x \in K1sAppObject
      /\ x.exists = server.exists
      /\ x.gen = server.gen
      /\ x.manifest = server.manifest
      /\ x.hash = server.hash
      /\ x.status = merged
    BY <1>1, <1>3, WithStatus DEF K1sAppObject, K1sAppRecord
<1> HIDE DEF x
<1>7. Revised(server, x, pc, own)
    BY <1>4, <1>6 DEF Revised, AppliedCondition
<1> QED BY <1>5, <1>6, <1>7, WriteApplied

LEMMA PatchApplied ==
    ASSUME ForwardUsers, TypeOK, TypeOK', Honest(versions, pc, own, k1s),
           \/ PatchFinalizers \/ PatchFinalizersFails
           \/ PatchHash \/ PatchHashFails(manifestHash)
           \/ PatchStatus \/ PatchStatusFails
    PROVE  Honest(versions', pc', own', k1s')
<1>1. /\ own \in K1sAppObject /\ pc # "idle" /\ own.exists
      /\ versions' \in Seq(K1sAppObject) /\ versions' # <<>>
      /\ k1s \in [Apps -> Manifests \cup {NoManifest}]
      /\ UNCHANGED k1s
    BY DEF TypeOK, PatchFinalizers, PatchFinalizersFails, PatchHash, PatchHashFails,
           PatchStatus, PatchStatusFails
<1>2. Honest(versions', pc, own, k1s)
  <2>1. CASE UNCHANGED versions
      BY <2>1
  <2>2. CASE /\ patchFinalizersAllowed(server, cached, wantedFinalizers)
             /\ StoreIfChanged(afterFinalizers)
      BY <1>1, <2>2, FinalizersStored, PatchRevises, WriteApplied DEF patchFinalizersAllowed
  <2>3. CASE pc = "patchHash" /\ server.exists /\ StoreIfChanged(afterHash(manifestHash))
      BY <1>1, <2>3, HashStored, PatchRevises, WriteApplied
  <2>4. CASE pc = "patchStatus" /\ server.exists /\ StoreStatus
      BY <2>4, StatusApplied
  <2> QED BY <2>1, <2>2, <2>3, <2>4
          DEF PatchFinalizers, PatchFinalizersFails, PatchHash, PatchHashFails, PatchStatus,
              PatchStatusFails
<1>3. CASE PatchHash
  <2>1. pc \in AppliedSteps /\ pc' = "readStatus" /\ own' = own
      BY <1>3 DEF PatchHash, Goto, AppliedSteps
  <2> QED BY <1>1, <1>2, <2>1, HonestRewritten
<1>4. CASE pc' = "idle"
    BY <1>1, <1>2, <1>4, HonestIdle
<1> QED BY <1>3, <1>4
        DEF PatchFinalizers, PatchFinalizersFails, PatchHashFails, PatchStatus,
            PatchStatusFails, Return

\* Before the creation Reconcile finds nothing to do.
LEMMA UnbornReconcile ==
    ASSUME TypeOK, Unborn(versions, pc, k1s), Reconcile
    PROVE  UNCHANGED <<versions, pc, k1s>>
<1>1. ~cached.exists /\ pc = "idle"
    BY VersionsType, NoObjectType DEF TypeOK, Unborn
<1>2. Start
    BY <1>1 DEF Reconcile, DeleteApp, DeleteAppFails, CheckStatus, Apply, ApplyFails,
                ReadStatus, PatchFinalizers, PatchFinalizersFails, PatchHash, PatchHashFails,
                PatchStatus, PatchStatusFails
<1>3. ReturnAtOnce
    BY <1>1, <1>2 DEF Start, MissingCredentials, BeginDelete, BeginAddFinalizer, RejectKind,
                      BeginApply, Enter
<1> QED BY <1>2, <1>3 DEF Start, ReturnAtOnce

LEMMA ReconcileApplied ==
    ASSUME ForwardUsers, TypeOK, AppliedInvariant, Reconcile
    PROVE  AppliedInvariant'
<1>1. TypeOK' /\ Honest(versions, pc, own, k1s)
    BY ReconcileType DEF AppliedInvariant
<1>2. Honest(versions', pc', own', k1s')
  <2>1. CASE Start
    <3>1. UNCHANGED <<versions, k1s>>
        BY <2>1 DEF Start
    <3> QED BY <1>1, <2>1, <3>1, StartApplied
  <2>2. CASE DeleteApp \/ DeleteAppFails \/ CheckStatus \/ Apply \/ ApplyFails \/ ReadStatus
    <3>1. UNCHANGED versions
        BY <2>2 DEF DeleteApp, DeleteAppFails, CheckStatus, Apply, ApplyFails, ReadStatus
    <3> QED BY <1>1, <2>2, <3>1, CallApplied
  <2> QED BY <1>1, <2>1, <2>2, PatchApplied DEF Reconcile
<1>3. lives' = lives
    BY DEF Reconcile, Start, DeleteApp, DeleteAppFails, CheckStatus, Apply, ApplyFails,
           ReadStatus, PatchFinalizers, PatchFinalizersFails, PatchHash, PatchHashFails,
           PatchStatus, PatchStatusFails
<1> QED BY <1>2, <1>3, UnbornReconcile DEF AppliedInvariant

-----------------------------------------------------------------------------
(* The steps around Reconcile, and the theorem.                            *)

\* What users and other controllers write.
LEMMA EnvironmentRevises ==
    ASSUME TypeOK, server.exists
    PROVE  /\ \A m \in Manifests, p \in Policies :
                 (m = server.manifest \/ <<server.manifest, m>> \in Edits) =>
                 Revised(server, [server EXCEPT !.manifest = m, !.policy = p, !.gen = @ + 1],
                         pc, own)
           /\ LET d == deleteObject(server, NoObject)
              IN  d.exists => Revised(server, d, pc, own)
           /\ Revised(server, [server EXCEPT !.fin = @ \cup {foreignFinalizer}], pc, own)
           /\ LET r == releaseForeign(server, NoObject)
              IN  r.exists => Revised(server, r, pc, own)
<1>1. server \in K1sAppObject /\ ~NoObject.exists
    BY VersionsType, NoObjectType DEF TypeOK
<1>2. ASSUME NEW m \in Manifests, NEW p \in Policies,
             m = server.manifest \/ <<server.manifest, m>> \in Edits
      PROVE  Revised(server, [server EXCEPT !.manifest = m, !.policy = p, !.gen = @ + 1],
                     pc, own)
    BY <1>1, <1>2 DEF Revised, AppliedCondition, K1sAppObject, K1sAppRecord
<1>3. LET d == deleteObject(server, NoObject)
      IN  d.exists => Revised(server, d, pc, own)
    BY <1>1 DEF deleteObject, Revised, AppliedCondition, K1sAppObject, K1sAppRecord
<1>4. Revised(server, [server EXCEPT !.fin = @ \cup {foreignFinalizer}], pc, own)
    BY <1>1 DEF Revised, AppliedCondition, K1sAppObject, K1sAppRecord
<1>5. LET r == releaseForeign(server, NoObject)
      IN  r.exists => Revised(server, r, pc, own)
    BY <1>1 DEF releaseForeign, Revised, AppliedCondition, K1sAppObject, K1sAppRecord
<1> QED BY <1>2, <1>3, <1>4, <1>5

LEMMA EnvironmentApplied ==
    ASSUME ForwardUsers, TypeOK, AppliedInvariant, Environment
    PROVE  AppliedInvariant'
<1>1. /\ versions \in Seq(K1sAppObject) /\ versions # <<>>
      /\ server \in K1sAppObject /\ server = Newest(versions)
      /\ k1s \in [Apps -> Manifests \cup {NoManifest}]
      /\ Honest(versions, pc, own, k1s)
      /\ lives \in Nat /\ lives <= 1
    BY VersionsType, BoundAssumption
    DEF TypeOK, AppliedInvariant, ForwardUsers, server, Newest
<1>2. server.exists => lives # 0
  <2>1. Len(versions) \in 1 .. Len(versions)
      BY <1>1, Ends
  <2> QED BY <2>1, NoObjectType DEF AppliedInvariant, Unborn, server
<1>3. CASE \E m \in Manifests, p \in Policies : Create(m, p)
  <2>1. PICK m \in Manifests, p \in Policies : Create(m, p)
      BY <1>3
  <2>2. /\ lives < MaxLives /\ lives' = lives + 1
        /\ versions' = Append(versions, NewObject(m, p))
        /\ UNCHANGED <<k1s, pc, own>>
      BY <2>1 DEF Create, CreateObject, Store
  <2>3. lives = 0 /\ lives' # 0
      BY <1>1, <2>2 DEF ForwardUsers
  <2>4. Honest(versions', pc, own, k1s)
      BY <1>1, <2>2, <2>3, HonestBorn DEF AppliedInvariant
  <2> QED BY <2>2, <2>3, <2>4 DEF AppliedInvariant
<1>4. ASSUME UNCHANGED <<k1s, pc, own, lives>>, server.exists,
             NEW x \in K1sAppObject, Store(x), x.exists => Revised(server, x, pc, own)
      PROVE  AppliedInvariant'
  <2>1. Honest(versions', pc, own, k1s)
      BY <1>1, <1>4, WriteApplied
  <2> QED BY <1>2, <1>4, <2>1 DEF AppliedInvariant
<1>5. CASE \E m \in Manifests, p \in Policies : Edit(m, p)
  <2>1. PICK m \in Manifests, p \in Policies : Edit(m, p)
      BY <1>5
  <2> DEFINE e == [server EXCEPT !.manifest = m, !.policy = p, !.gen = @ + 1]
  <2>2. /\ server.exists /\ Store(e) /\ UNCHANGED <<k1s, pc, own, lives>>
        /\ m = server.manifest \/ <<server.manifest, m>> \in Edits
      BY <2>1 DEF Edit, EditObject
  <2>3. e \in K1sAppObject /\ Revised(server, e, pc, own)
      BY <1>1, <2>2, EditStored, EnvironmentRevises
  <2> HIDE DEF e
  <2> QED BY <1>4, <2>2, <2>3
<1>6. CASE Delete
    BY <1>1, <1>4, <1>6, DeleteStored, EnvironmentRevises DEF Delete
<1>7. CASE AddForeign
    BY <1>1, <1>4, <1>7, ForeignStored, EnvironmentRevises DEF AddForeign
<1>8. CASE RemoveForeign
    BY <1>1, <1>4, <1>8, ForeignStored, EnvironmentRevises DEF RemoveForeign
<1>9. CASE LoseCredentials \/ RestoreCredentials
    BY <1>9 DEF LoseCredentials, RestoreCredentials, AppliedInvariant
<1>10. CASE \E a \in Apps : OutOfBandDelete(a)
  <2>1. PICK a \in Apps : OutOfBandDelete(a)
      BY <1>10
  <2>2. /\ k1s' = [k1s EXCEPT ![a] = NoManifest] /\ k1s[a] # NoManifest
        /\ UNCHANGED <<versions, pc, own, lives>>
      BY <2>1 DEF OutOfBandDelete
  <2>3. Honest(versions, pc, own, k1s')
      BY <1>1, <2>2, HonestRemoved
  <2> QED BY <2>2, <2>3 DEF AppliedInvariant, Unborn
<1> QED BY <1>3, <1>5, <1>6, <1>7, <1>8, <1>9, <1>10 DEF Environment

LEMMA ManagerApplied ==
    ASSUME ForwardUsers, TypeOK, AppliedInvariant, Deliver \/ TimerFires \/ Resync \/ Crash
    PROVE  AppliedInvariant'
<1>1. /\ versions \in Seq(K1sAppObject) /\ versions # <<>>
      /\ own \in K1sAppObject /\ (pc # "idle" => own.exists)
      /\ server = Newest(versions)
      /\ k1s \in [Apps -> Manifests \cup {NoManifest}]
      /\ Honest(versions, pc, own, k1s)
    BY DEF TypeOK, AppliedInvariant, server, Newest
<1>2. CASE Deliver
  <2>1. /\ UNCHANGED <<k1s, pc, own, lives>>
        /\ \E n \in 2 .. Len(versions) : versions' = SubSeq(versions, n, Len(versions))
      BY <1>2 DEF Deliver
  <2>2. PICK n \in 2 .. Len(versions) : versions' = SubSeq(versions, n, Len(versions))
      BY <2>1
  <2>3. Honest(versions', pc, own, k1s)
      BY <1>1, <2>2, HonestDelivered
  <2>4. \A i \in 1 .. Len(versions') :
            i + n - 1 \in 1 .. Len(versions) /\ versions'[i] = versions[i + n - 1]
      BY <1>1, <2>2, DeliveredElements
  <2> QED BY <2>1, <2>3, <2>4 DEF AppliedInvariant, Unborn
<1>3. CASE TimerFires \/ Resync
    BY <1>3 DEF TimerFires, Resync, AppliedInvariant
<1>4. CASE Crash
  <2>1. /\ versions' = <<Newest(versions)>> /\ pc' = "idle" /\ own' = NoObject
        /\ UNCHANGED <<k1s, lives>>
      BY <1>1, <1>4 DEF Crash
  <2>2. Honest(versions', pc', own', k1s)
      BY <1>1, <2>1, HonestRestarted
  <2>3. Unborn(versions, pc, k1s) => Unborn(versions', pc', k1s')
    <3>1. /\ Len(versions') = 1 /\ versions'[1] = Newest(versions)
          /\ Len(versions) \in 1 .. Len(versions)
        BY <1>1, <2>1, Ends
    <3> QED BY <2>1, <3>1 DEF Unborn, Newest
  <2> QED BY <2>1, <2>2, <2>3 DEF AppliedInvariant
<1> QED BY <1>2, <1>3, <1>4

\* The invariant holds in every behaviour in which the object is created once and
\* users do not return to a manifest they have left.
THEOREM AppliedInvariantHolds ==
    ASSUME ForwardUsers
    PROVE  Spec => []AppliedInvariant
<1>1. Init => AppliedInvariant
  <2> SUFFICES ASSUME Init PROVE AppliedInvariant
      OBVIOUS
  <2>1. /\ versions = <<NoObject>> /\ Len(versions) = 1 /\ versions[1] = NoObject
        /\ pc = "idle" /\ \A a \in Apps : k1s[a] = NoManifest
      BY DEF Init, ControllerInit
  <2> QED BY <2>1, NoObjectType DEF AppliedInvariant, Honest, Unborn, Newest
<1>2. TypeOK /\ AppliedInvariant /\ [Next]_vars => AppliedInvariant'
  <2> SUFFICES ASSUME TypeOK, AppliedInvariant, [Next]_vars
               PROVE  AppliedInvariant'
      OBVIOUS
  <2>1. CASE UNCHANGED vars
      BY <2>1 DEF vars, AppliedInvariant
  <2>2. CASE Next
      BY <2>2, ReconcileApplied, ManagerApplied, EnvironmentApplied DEF Next
  <2> QED BY <2>1, <2>2
<1> QED BY <1>1, <1>2, TypeCorrect, PTL DEF Spec

\* Applied=True for the current generation is the truth: for any number of
\* manifests, app names and edits, any lag of the cache, and any number of failed
\* calls, lost replies, removals from k1s, lost credentials and restarts.
THEOREM AppliedIsCurrent ==
    ASSUME ForwardUsers
    PROVE  Spec => []AppliedMeansCurrent
<1>1. TypeOK /\ AppliedInvariant => AppliedMeansCurrent
  <2> SUFFICES ASSUME TypeOK, AppliedInvariant, server.exists,
                      AppliedCondition(server).status = "True",
                      AppliedCondition(server).gen = server.gen
               PROVE  k1s[AppOf[server.manifest]] \in {server.manifest, NoManifest}
      BY DEF AppliedMeansCurrent, LiveDeployment, AppliedCondition
  <2>1. /\ versions \in Seq(K1sAppObject) /\ versions # <<>>
        /\ server \in K1sAppObject /\ server = Newest(versions)
        /\ Head(versions) \in K1sAppObject
        /\ own \in K1sAppObject /\ (pc # "idle" => own.exists)
        /\ server = versions[Len(versions)] /\ Len(versions) \in 1 .. Len(versions)
      BY Ends DEF TypeOK, server, Newest
  <2>2. server.manifest \in Manifests /\ AppOf[server.manifest] \in Apps
      BY <2>1, ObjectType, ManifestAssumption
  <2>3. FloorHolds(versions, pc, own, k1s)
      BY <2>1 DEF AppliedInvariant, Honest
  <2>4. PICK f \in K1sAppObject : f.exists /\ Grounded(versions, f, k1s)
    <3>1. CASE pc # "idle"
        BY <2>1, <2>3, <3>1 DEF FloorHolds
    <3>2. CASE pc = "idle" /\ Head(versions).exists
        BY <2>1, <2>3, <3>2 DEF FloorHolds
    <3>3. CASE pc = "idle" /\ ~Head(versions).exists
        BY <2>1, <2>3, <3>3 DEF FloorHolds, Untouched, Blank
    <3> QED BY <3>1, <3>2, <3>3
  <2>5. Reached(k1s, server.manifest) /\ Before(f, server)
      BY <2>1, <2>4 DEF Grounded, Sound
  <2>6. CASE k1s[AppOf[server.manifest]] # NoManifest
    <3> DEFINE m == k1s[AppOf[server.manifest]]
    <3>1. m \in Manifests /\ f.manifest \in Manifests
        BY <2>2, <2>4, <2>6, ObjectType DEF TypeOK
    <3>2. /\ Rank[m] \in Nat /\ Rank[f.manifest] \in Nat /\ Rank[server.manifest] \in Nat
        BY <2>2, <3>1, RankType
    <3>3. /\ Rank[m] <= Rank[f.manifest]
          /\ Rank[f.manifest] <= Rank[server.manifest]
          /\ Rank[server.manifest] <= Rank[m]
        BY <2>2, <2>4, <2>5, <2>6 DEF Grounded, Before, Reached
    <3>4. Rank[m] = Rank[server.manifest]
        BY <3>2, <3>3
    <3> QED BY <2>2, <3>1, <3>4, RankType
  <2> QED BY <2>6
<1> QED BY <1>1, TypeCorrect, AppliedInvariantHolds, PTL
=============================================================================
