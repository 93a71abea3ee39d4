------------------------ MODULE K1sResourceSetProofs ------------------------
(***************************************************************************)
(* Proofs about K1sResourceSet, for every value of its constants.          *)
(***************************************************************************)
EXTENDS K1sResourceSet, VersionLemmas, WellFoundedInduction, TLAPS

Obj == K1sResourceSetObject

-----------------------------------------------------------------------------
(* The objects and statuses the steps build.                               *)

\* Every spec is well formed.
LEMMA SpecType ==
    ASSUME NEW o \in Obj, o.exists
    PROVE  /\ o.spec \in Specs
           /\ o.spec \in K1sResourceSetSpec
           /\ o.spec.manifests \in Seq(Manifests)
    BY ResourceAssumption DEF Obj, K1sResourceSetObject, K1sResourceSetSpec

\* The fields of an object.
LEMMA ObjType ==
    ASSUME NEW o \in Obj
    PROVE  /\ o.exists \in BOOLEAN
           /\ o.deleting \in BOOLEAN
           /\ o.gen \in Nat
           /\ o.fin \in SUBSET Finalizers
           /\ o.status \in K1sResourceSetStatus
           /\ o.status.managed \in Seq(Manifests)
    BY DEF Obj, K1sResourceSetObject, K1sResourceSetRecord, K1sResourceSetStatus

LEMMA NoObjectType ==
    /\ NoObject \in Obj
    /\ ~NoObject.exists
    /\ NoObject.fin = {}
    BY DEF NoObject, Obj, K1sResourceSetObject, K1sResourceSetRecord, NoStatus,
           K1sResourceSetStatus, Hashes, NoCondition, ConditionStatus, Conditions, Finalizers

LEMMA NewObjectType ==
    ASSUME NEW s \in Specs
    PROVE  NewObject(s) \in Obj /\ NewObject(s).fin = {}
    BY NoObjectType DEF NewObject, Obj, K1sResourceSetObject, K1sResourceSetRecord

\* Giving an object another status changes nothing else about it.
LEMMA WithStatus ==
    ASSUME NEW o \in Obj, NEW s \in K1sResourceSetStatus
    PROVE  /\ [o EXCEPT !.status = s] \in Obj
           /\ [o EXCEPT !.status = s].exists = o.exists
           /\ [o EXCEPT !.status = s].gen = o.gen
           /\ [o EXCEPT !.status = s].hash = o.hash
           /\ [o EXCEPT !.status = s].deleting = o.deleting
           /\ [o EXCEPT !.status = s].fin = o.fin
           /\ [o EXCEPT !.status = s].spec = o.spec
           /\ [o EXCEPT !.status = s].status = s
    BY DEF Obj, K1sResourceSetObject, K1sResourceSetRecord

LEMMA SetConditionType ==
    ASSUME NEW conds \in Conditions, NEW t \in SetConditions,
           NEW s \in ConditionStatus, NEW g \in Nat
    PROVE  setCondition(conds, t, s, g) \in Conditions
    BY DEF setCondition, Conditions

\* The conditions that a reconcile which came past writeClient writes: all but
\* CredentialsValid get the same status.
LEMMA VerdictType ==
    ASSUME NEW conds \in Conditions, NEW s \in ConditionStatus, NEW g \in Nat
    PROVE  [t \in SetConditions |->
               IF t = "CredentialsValid" THEN conds[t] ELSE [status |-> s, gen |-> g]]
           \in Conditions
    BY DEF Conditions

\* The statuses Reconcile computes.
LEMMA ComputedStatus ==
    ASSUME NEW o \in Obj, o.exists
    PROVE  /\ credentialsMissing(o) \in K1sResourceSetStatus
           /\ deleteFailed(o) \in K1sResourceSetStatus
           /\ policyDeniedStatus(o) \in K1sResourceSetStatus
           /\ \A n \in Nat, ok \in BOOLEAN : reconciled(o, n, ok) \in K1sResourceSetStatus
<1>1. /\ o.status \in K1sResourceSetStatus
      /\ o.status.conds \in Conditions
      /\ o.gen \in Nat
      /\ o.spec.manifests \in Seq(Manifests)
    BY ObjType, SpecType DEF K1sResourceSetStatus
<1>2. {"CredentialsValid", "Applied"} \subseteq SetConditions /\ "False" \in ConditionStatus
    BY DEF SetConditions, ConditionStatus
<1>3. credentialsMissing(o) \in K1sResourceSetStatus /\ deleteFailed(o) \in K1sResourceSetStatus
    BY <1>1, <1>2, SetConditionType DEF credentialsMissing, deleteFailed, K1sResourceSetStatus
<1>4. policyDeniedStatus(o) \in K1sResourceSetStatus
    BY <1>1, <1>2, VerdictType DEF policyDeniedStatus, K1sResourceSetStatus
<1>5. ASSUME NEW n \in Nat, NEW ok \in BOOLEAN
      PROVE  reconciled(o, n, ok) \in K1sResourceSetStatus
  <2>1. conditionStatus(ok) \in ConditionStatus
      BY DEF conditionStatus, ConditionStatus
  <2> QED BY <1>1, <2>1, VerdictType DEF reconciled, K1sResourceSetStatus
<1> QED BY <1>3, <1>4, <1>5

\* A status patch mixes the fields of three statuses.
LEMMA PatchStatusType ==
    ASSUME NEW s \in K1sResourceSetStatus, NEW c \in K1sResourceSetStatus,
           NEW want \in K1sResourceSetStatus, NEW resent \in BOOLEAN
    PROVE  patchStatus(s, c, want, resent) \in K1sResourceSetStatus
<1> DEFINE p == patchStatus(s, c, want, resent)
           Fields == {"observedGeneration", "applied", "ready", "managed", "conds"}
<1>1. DOMAIN s = Fields
    BY DEF K1sResourceSetStatus
<1>2. p = [f \in Fields |-> p[f]]
    BY <1>1 DEF patchStatus
<1>3. \A f \in Fields : p[f] \in {s[f], want[f]}
    BY <1>1 DEF patchStatus, mergeField
<1> HIDE DEF p
<1>4. /\ p.observedGeneration \in Nat
      /\ p.applied \in Nat
      /\ p.ready \in BOOLEAN
      /\ p.managed \in Seq(Manifests)
      /\ p.conds \in Conditions
    BY <1>3 DEF K1sResourceSetStatus
<1>5. p \in K1sResourceSetStatus
    BY <1>2, <1>4 DEF K1sResourceSetStatus
<1> QED BY <1>5 DEF p

-----------------------------------------------------------------------------
(* The versions, and what each kind of write stores.                       *)

VersionsOK == versions \in Seq(Obj) /\ Len(versions) \in 1 .. MaxLag + 1

LEMMA VersionsType ==
    ASSUME TypeOK
    PROVE  /\ VersionsOK
           /\ versions # <<>>
           /\ Len(versions) \in Nat \ {0}
           /\ cached = versions[1]
           /\ cached \in Obj
           /\ server \in Obj
           /\ \A i \in 1 .. Len(versions) : versions[i] \in Obj
<1>1. VersionsOK
    BY DEF TypeOK, VersionsOK, Obj
<1>2. Len(versions) \in Nat \ {0} /\ versions # <<>>
    BY <1>1, SetBoundAssumption DEF VersionsOK
<1> QED BY <1>1, <1>2, Ends DEF VersionsOK, cached, server

\* A write makes o the object the API server holds.
LEMMA StoreType ==
    ASSUME TypeOK, NEW o \in Obj, Store(o) \/ StoreIfChanged(o)
    PROVE  VersionsOK' /\ server' = o
<1>1. CASE UNCHANGED versions /\ o = server
    BY <1>1, VersionsType DEF VersionsOK, server
<1>2. CASE Store(o)
  <2>1. /\ versions \in Seq(Obj) /\ versions # <<>>
        /\ versions' = Append(versions, o) /\ Len(versions) <= MaxLag
      BY <1>2, VersionsType DEF VersionsOK, Store
  <2>2. /\ versions' \in Seq(Obj)
        /\ Len(versions') = Len(versions) + 1
        /\ versions'[Len(versions')] = o
      BY <2>1, Stored
  <2> QED BY <2>1, <2>2, SetBoundAssumption DEF VersionsOK, server
<1> QED BY <1>1, <1>2 DEF StoreIfChanged

LEMMA DeliverType ==
    ASSUME TypeOK, Deliver
    PROVE  VersionsOK' /\ server' = server
<1>1. PICK k \in 2 .. Len(versions) : versions' = SubSeq(versions, k, Len(versions))
    BY DEF Deliver
<1>2. versions \in Seq(Obj) /\ versions # <<>> /\ Len(versions) \in 1 .. MaxLag + 1
    BY VersionsType DEF VersionsOK
<1>3. /\ versions' \in Seq(Obj)
      /\ versions' # <<>>
      /\ Len(versions') < Len(versions)
      /\ versions'[Len(versions')] = versions[Len(versions)]
    BY <1>1, <1>2, Delivered
<1>4. Len(versions') \in 1 .. MaxLag + 1
    BY <1>2, <1>3, Ends, SetBoundAssumption
<1> QED BY <1>3, <1>4 DEF VersionsOK, server

LEMMA RestartType ==
    ASSUME TypeOK, Crash
    PROVE  VersionsOK' /\ server' = server /\ Len(versions') = 1
<1>0. /\ versions \in Seq(Obj)
      /\ versions # <<>>
      /\ versions' = <<versions[Len(versions)]>>
    BY VersionsType DEF VersionsOK, Crash, server
<1>1. /\ versions' \in Seq(Obj)
      /\ Len(versions') = 1
      /\ versions'[Len(versions')] = server
    BY <1>0, Restarted DEF server
<1> QED BY <1>1, SetBoundAssumption DEF VersionsOK, server

LEMMA FinalizersStored ==
    ASSUME TypeOK
    PROVE  afterFinalizers \in Obj
<1>1. server \in Obj /\ cached \in Obj /\ own.fin \in SUBSET Finalizers
    BY VersionsType DEF TypeOK, K1sResourceSetObject, K1sResourceSetRecord
<1>2. wantedFinalizers \in SUBSET Finalizers
    BY <1>1 DEF wantedFinalizers, Finalizers
<1> QED
    BY <1>1, <1>2, NoObjectType
    DEF afterFinalizers, patchFinalizers, Obj, K1sResourceSetObject, K1sResourceSetRecord

LEMMA HashStored ==
    ASSUME TypeOK, own.exists
    PROVE  LET h == afterHash(manifestHash)
           IN  /\ h \in Obj
               /\ h.exists = server.exists
               /\ h.gen = server.gen
               /\ h.deleting = server.deleting
               /\ h.fin = server.fin
               /\ h.spec = server.spec
               /\ h.status = server.status
               /\ h.hash = IF cached.hash = manifestHash THEN server.hash ELSE manifestHash
<1>1. server \in Obj /\ own.spec \in Specs
    BY VersionsType, SpecType DEF TypeOK, Obj
<1>2. manifestHash \in Hashes
    BY <1>1 DEF manifestHash, Hashes
<1> HIDE DEF manifestHash
<1> QED
    BY <1>1, <1>2
    DEF afterHash, patchLastAppliedHash, Obj, K1sResourceSetObject, K1sResourceSetRecord

\* The status patch stores the server's object with another status.
LEMMA StatusStored ==
    ASSUME TypeOK, StoreStatus
    PROVE  \E resent \in BOOLEAN, o \in Obj :
               /\ Store(o) \/ StoreIfChanged(o)
               /\ o.exists = server.exists
               /\ o.gen = server.gen
               /\ o.deleting = server.deleting
               /\ o.fin = server.fin
               /\ o.hash = server.hash
               /\ o.spec = server.spec
               /\ o.status = patchStatus(server.status, cached.status, own.status, resent)
<1>1. PICK fresh \in BOOLEAN, resent \in BOOLEAN :
          LET merged == patchStatus(server.status, cached.status, own.status, resent)
              o == [server EXCEPT !.status = merged]
          IN  IF fresh THEN Store(o) ELSE StoreIfChanged(o)
    BY DEF StoreStatus
<1> DEFINE merged == patchStatus(server.status, cached.status, own.status, resent)
           o == [server EXCEPT !.status = merged]
<1>2. /\ server \in Obj
      /\ server.status \in K1sResourceSetStatus
      /\ cached.status \in K1sResourceSetStatus
      /\ own.status \in K1sResourceSetStatus
    BY VersionsType, ObjType DEF TypeOK, Obj
<1>3. merged \in K1sResourceSetStatus
    BY <1>2, PatchStatusType
<1>4. Store(o) \/ StoreIfChanged(o)
    BY <1>1
<1> HIDE DEF merged
<1>5. /\ o \in Obj
      /\ o.exists = server.exists
      /\ o.gen = server.gen
      /\ o.deleting = server.deleting
      /\ o.fin = server.fin
      /\ o.hash = server.hash
      /\ o.spec = server.spec
      /\ o.status = merged
    BY <1>2, <1>3, WithStatus
<1> QED BY <1>4, <1>5 DEF merged

LEMMA EditStored ==
    ASSUME NEW o \in Obj, o.exists, NEW s \in Specs
    PROVE  LET e == [o EXCEPT !.spec = s, !.gen = @ + 1]
           IN  /\ e \in Obj
               /\ e.exists
               /\ e.gen = o.gen + 1
               /\ e.fin = o.fin
               /\ e.deleting = o.deleting
               /\ e.hash = o.hash
               /\ e.spec = s
               /\ e.status = o.status
<1> DEFINE g == o.gen + 1
<1>1. g \in Nat
    BY ObjType
<1> HIDE DEF g
<1>2. LET e == [o EXCEPT !.spec = s, !.gen = g]
      IN  /\ e \in Obj
          /\ e.exists
          /\ e.gen = g
          /\ e.fin = o.fin
          /\ e.deleting = o.deleting
          /\ e.hash = o.hash
          /\ e.spec = s
          /\ e.status = o.status
    BY <1>1 DEF Obj, K1sResourceSetObject, K1sResourceSetRecord
<1> QED BY <1>2, Zenon DEF g

LEMMA DeleteStored ==
    ASSUME NEW o \in Obj, o.exists
    PROVE  LET d == deleteObject(o, NoObject)
           IN  /\ d \in Obj
               /\ o.fin = {} => d = NoObject
               /\ o.fin # {} => /\ d.exists
                                /\ d.gen = o.gen + 1
                                /\ d.deleting
                                /\ d.fin = o.fin
                                /\ d.hash = o.hash
                                /\ d.spec = o.spec
                                /\ d.status = o.status
<1>1. CASE o.fin = {}
    BY <1>1, NoObjectType DEF deleteObject
<1>2. CASE o.fin # {}
  <2> DEFINE g == o.gen + 1
  <2>1. g \in Nat
      BY ObjType
  <2> HIDE DEF g
  <2>2. LET d == [o EXCEPT !.deleting = TRUE, !.gen = g]
        IN  /\ d \in Obj
            /\ d.exists
            /\ d.gen = g
            /\ d.deleting
            /\ d.fin = o.fin
            /\ d.hash = o.hash
            /\ d.spec = o.spec
            /\ d.status = o.status
      BY <2>1 DEF Obj, K1sResourceSetObject, K1sResourceSetRecord
  <2> QED BY <1>2, <2>2, Zenon DEF deleteObject, g
<1> QED BY <1>1, <1>2

LEMMA ForeignStored ==
    ASSUME NEW o \in Obj, o.exists
    PROVE  LET a == [o EXCEPT !.fin = @ \cup {foreignFinalizer}]
           IN  /\ a \in Obj
               /\ a.exists
               /\ a.gen = o.gen
               /\ a.deleting = o.deleting
               /\ a.hash = o.hash
               /\ a.spec = o.spec
               /\ a.status = o.status
               /\ containsCapability(a) <=> containsCapability(o)
    BY DEF containsCapability, capabilityFinalizer, foreignFinalizer, Finalizers, Obj,
           K1sResourceSetObject, K1sResourceSetRecord

LEMMA ReleaseStored ==
    ASSUME NEW o \in Obj, o.exists
    PROVE  LET r == releaseForeign(o, NoObject)
           IN  /\ r \in Obj
               /\ Guarded(r) <=> Guarded(o)
               /\ r.exists => /\ r.gen = o.gen
                              /\ r.deleting = o.deleting
                              /\ r.hash = o.hash
                              /\ r.spec = o.spec
                              /\ r.status = o.status
    BY NoObjectType
    DEF releaseForeign, containsCapability, Guarded, capabilityFinalizer,
        foreignFinalizer, Finalizers, Obj, K1sResourceSetObject, K1sResourceSetRecord

-----------------------------------------------------------------------------
(* The lists the loops go through.                                         *)

LEMMA SmallestElement ==
    ASSUME NEW T, T \subseteq Nat, T # {}
    PROVE  \E n \in T : \A m \in T : n <= m
<1> DEFINE R == OpToRel(<, Nat)
<1>1. IsWellFoundedOn(R, Nat)
    BY NatLessThanWellFounded
<1> HIDE DEF R
<1>2. PICK n \in T : \A m \in T : ~(<<m, n>> \in R)
    BY <1>1, WFMin
<1>3. \A m \in T : m < n => <<m, n>> \in R
    BY DEF R, OpToRel
<1>4. ASSUME NEW m \in T PROVE n <= m
  <2>1. ~(m < n)
      BY <1>2, <1>3
  <2>2. m \in Nat /\ n \in Nat
      OBVIOUS
  <2> QED BY <2>1, <2>2
<1> QED BY <1>4

\* A step of a loop takes the first element.
LEMMA LoopStep ==
    ASSUME NEW list \in Seq(Manifests), list # <<>>
    PROVE  /\ Head(list) \in Manifests
           /\ Tail(list) \in Seq(Manifests)
           /\ Len(list) \in Nat \ {0}
           /\ Len(Tail(list)) = Len(list) - 1
           /\ Elements(list) = {Head(list)} \cup Elements(Tail(list))
<1>1. /\ Head(list) \in Manifests
      /\ Head(list) = list[1]
      /\ Tail(list) \in Seq(Manifests)
      /\ Len(list) \in Nat \ {0}
      /\ Len(Tail(list)) = Len(list) - 1
      /\ \A i \in 1 .. Len(list) - 1 : Tail(list)[i] = list[i + 1]
    OBVIOUS
<1>2. DOMAIN list = 1 .. Len(list) /\ DOMAIN Tail(list) = 1 .. Len(list) - 1
    BY <1>1
<1>3. ASSUME NEW m \in Elements(list)
      PROVE  m = Head(list) \/ m \in Elements(Tail(list))
  <2>1. PICK i \in 1 .. Len(list) : m = list[i]
      BY <1>2, <1>3 DEF Elements
  <2>2. CASE i = 1
      BY <1>1, <2>1, <2>2
  <2>3. CASE i # 1
    <3>1. i - 1 \in 1 .. Len(list) - 1 /\ (i - 1) + 1 = i
        BY <1>1, <2>1, <2>3
    <3>2. m = Tail(list)[i - 1]
        BY <1>1, <2>1, <3>1
    <3> QED BY <1>2, <3>1, <3>2 DEF Elements
  <2> QED BY <2>2, <2>3
<1>4. ASSUME NEW m \in Elements(Tail(list))
      PROVE  m \in Elements(list)
  <2>1. PICK i \in 1 .. Len(list) - 1 : m = Tail(list)[i]
      BY <1>2, <1>4 DEF Elements
  <2>2. i + 1 \in 1 .. Len(list) /\ m = list[i + 1]
      BY <1>1, <2>1
  <2> QED BY <1>2, <2>2 DEF Elements
<1>5. Head(list) \in Elements(list)
    BY <1>1, <1>2 DEF Elements
<1> QED BY <1>1, <1>3, <1>4, <1>5

\* The inventory is cut at an entry that the spec no longer lists.
LEMMA SkipDesired ==
    ASSUME NEW s, NEW list \in Seq(Manifests)
    PROVE  LET rest == skipDesired(s, list)
           IN  /\ rest \in Seq(Manifests)
               /\ rest # <<>> => RefOf[Head(rest)] \notin desiredKeys(s)
<1> DEFINE left == {i \in DOMAIN list : RefOf[list[i]] \notin desiredKeys(s)}
           k == CHOOSE i \in left : \A j \in left : i <= j
<1>1. CASE left = {}
    BY <1>1 DEF skipDesired
<1>2. CASE left # {}
  <2>1. left \subseteq Nat
      OBVIOUS
  <2>2. \E i \in left : \A j \in left : i <= j
      BY <1>2, <2>1, SmallestElement
  <2>3. k \in left
      BY <2>2
  <2>4. k \in 1 .. Len(list) /\ RefOf[list[k]] \notin desiredKeys(s) /\ Len(list) \in Nat
      BY <2>3
  <2> HIDE DEF k
  <2>5. SubSeq(list, k, Len(list)) \in Seq(Manifests)
      BY <2>4
  <2>6. Head(SubSeq(list, k, Len(list))) = list[k]
      BY <2>4
  <2>7. skipDesired(s, list) = SubSeq(list, k, Len(list))
      BY <1>2 DEF skipDesired, k
  <2> QED BY <2>4, <2>5, <2>6, <2>7
<1> QED BY <1>1, <1>2

-----------------------------------------------------------------------------
(* Type correctness.                                                       *)

\* The part of TypeOK that is about what Reconcile keeps between its calls.
LocalsOK ==
    /\ pc \in Steps
    /\ own \in Obj
    /\ pc # "idle" => own.exists
    /\ todo \in Seq(Manifests)
    /\ pc \in {"deleteResources", "prune", "apply"} => todo # <<>>
    /\ pc = "apply" => Len(todo) <= Len(own.spec.manifests)
    /\ ret \in {"done", "poll", "error"}

LEMMA TypeParts ==
    TypeOK <=> /\ VersionsOK
               /\ LocalsOK
               /\ k1s \in [Refs -> Manifests \cup {NoManifest}]
               /\ credsOK \in BOOLEAN
               /\ queue \in BOOLEAN
               /\ timer \in BOOLEAN
               /\ faults \in 0 .. MaxFaults
               /\ lives \in 0 .. MaxLives
    BY DEF TypeOK, VersionsOK, LocalsOK, Obj

LEMMA TypePartsAfter ==
    ASSUME VersionsOK', LocalsOK', k1s' \in [Refs -> Manifests \cup {NoManifest}],
           credsOK' \in BOOLEAN, queue' \in BOOLEAN, timer' \in BOOLEAN,
           faults' \in 0 .. MaxFaults, lives' \in 0 .. MaxLives
    PROVE  TypeOK'
    BY DEF TypeOK, VersionsOK, LocalsOK, Obj

LEMMA InitType == Init => TypeOK
<1> SUFFICES ASSUME Init PROVE TypeOK
    OBVIOUS
<1>1. versions = <<NoObject>> /\ NoObject \in Obj
    BY NoObjectType DEF Init, ControllerInit
<1>2. VersionsOK
    BY <1>1, SetBoundAssumption DEF VersionsOK
<1>3. LocalsOK
    BY NoObjectType DEF Init, ControllerInit, LocalsOK, Steps
<1>4. faults \in 0 .. MaxFaults /\ lives \in 0 .. MaxLives
    BY SetBoundAssumption DEF Init, ControllerInit
<1>5. /\ k1s \in [Refs -> Manifests \cup {NoManifest}]
      /\ credsOK \in BOOLEAN
      /\ queue \in BOOLEAN
      /\ timer \in BOOLEAN
    BY DEF Init, ControllerInit
<1> QED BY <1>2, <1>3, <1>4, <1>5, TypeParts

\* Counting a disturbance stays within the bound.
LEMMA DisturbType ==
    ASSUME TypeOK, NEW kind, Disturb(kind)
    PROVE  faults' \in 0 .. MaxFaults
    BY SetBoundAssumption DEF TypeOK, Disturb

\* A step that goes on to write a status.
LEMMA WriteStatusType ==
    ASSUME NEW o \in Obj, o.exists, NEW s \in K1sResourceSetStatus,
           NEW r \in {"done", "poll", "error"}, WriteStatus(o, s, r),
           todo' \in Seq(Manifests)
    PROVE  LocalsOK'
<1>1. own' \in Obj /\ own'.exists /\ pc' = "patchStatus" /\ ret' = r
    BY WithStatus DEF WriteStatus
<1> QED BY <1>1 DEF LocalsOK, Steps

LEMMA ReturnType ==
    ASSUME TypeOK, NEW r, Return(r), todo' \in Seq(Manifests)
    PROVE  LocalsOK' /\ queue' \in BOOLEAN /\ timer' \in BOOLEAN
    BY NoObjectType DEF Return, TypeOK, LocalsOK, Steps

\* Reconcile enters the apply loop, or has nothing to apply.
LEMMA ApplyNextType ==
    ASSUME TypeOK, NEW o \in Obj, o.exists, ApplyNext(o)
    PROVE  LocalsOK'
<1>1. o.spec.manifests \in Seq(Manifests) /\ Len(o.spec.manifests) \in Nat
    BY SpecType
<1>2. CASE ~shouldApply(o)
  <2>1. /\ WriteStatus(o, reconciled(o, Len(o.spec.manifests), TRUE), "poll")
        /\ todo' = <<>>
      BY <1>2 DEF ApplyNext
  <2>2. todo' \in Seq(Manifests)
      BY <2>1
  <2>3. reconciled(o, Len(o.spec.manifests), TRUE) \in K1sResourceSetStatus
      BY <1>1, ComputedStatus
  <2> QED BY <2>1, <2>2, <2>3, WriteStatusType
<1>3. CASE shouldApply(o)
  <2>1. /\ pc' = IF o.spec.manifests = <<>> THEN "patchHash" ELSE "apply"
        /\ own' = o
        /\ ret' = ret
        /\ todo' = o.spec.manifests
      BY <1>3 DEF ApplyNext
  <2> QED BY <1>1, <2>1 DEF LocalsOK, TypeOK, Steps
<1> QED BY <1>2, <1>3

LEMMA StartType ==
    ASSUME TypeOK, Start
    PROVE  LocalsOK'
<1>1. cached \in Obj /\ todo \in Seq(Manifests) /\ LocalsOK /\ pc = "idle"
    BY VersionsType, TypeParts DEF TypeOK, Start
<1>2. cached.status.managed \in Seq(Manifests)
    BY <1>1, ObjType
<1>3. CASE ReturnAtOnce /\ UNCHANGED todo
    BY <1>1, <1>3 DEF ReturnAtOnce, LocalsOK
<1>4. CASE MissingCredentials /\ UNCHANGED todo
    BY <1>1, <1>4, ComputedStatus, WriteStatusType DEF MissingCredentials
<1>5. CASE BeginDelete
    BY <1>1, <1>2, <1>5 DEF BeginDelete, Enter, deletionStep, LocalsOK, Steps
<1>6. CASE BeginAddFinalizer /\ UNCHANGED todo
    BY <1>1, <1>6 DEF BeginAddFinalizer, Enter, LocalsOK, Steps
<1>7. CASE DenyPolicy
    BY <1>1, <1>7, ComputedStatus, WriteStatusType DEF DenyPolicy, Reconcilable
<1>8. CASE RejectManifest
    BY <1>1, <1>8, ComputedStatus, WriteStatusType DEF RejectManifest, Reconcilable
<1>9. CASE BeginReconcile
  <2>1. cached.exists
      BY <1>9 DEF BeginReconcile, Reconcilable
  <2>2. CASE ApplyNext(cached)
      BY <1>1, <2>1, <2>2, ApplyNextType
  <2>3. CASE toPrune(cached) # <<>> /\ Enter("prune") /\ todo' = toPrune(cached)
    <3>1. toPrune(cached) \in Seq(Manifests)
        BY <1>2, SkipDesired DEF toPrune
    <3> QED BY <1>1, <2>3, <3>1 DEF Enter, LocalsOK, Steps
  <2> QED BY <1>9, <2>2, <2>3 DEF BeginReconcile
<1> QED BY <1>3, <1>4, <1>5, <1>6, <1>7, <1>8, <1>9 DEF Start

\* The steps of the loops keep the type of k1s.
LEMMA RemoteType ==
    ASSUME TypeOK, NEW m \in Manifests, Remove(m) \/ Deploy(m) \/ UNCHANGED k1s
    PROVE  k1s' \in [Refs -> Manifests \cup {NoManifest}]
    BY DEF TypeOK, Remove, Deploy

\* Steps that leave the versions and the manager alone.
LEMMA SameTypes ==
    ASSUME TypeOK, LocalsOK', k1s' \in [Refs -> Manifests \cup {NoManifest}],
           faults' \in 0 .. MaxFaults, UNCHANGED <<versions, credsOK, queue, timer, lives>>
    PROVE  TypeOK'
<1>1. VersionsOK'
    BY VersionsType DEF VersionsOK
<1> QED BY <1>1, TypePartsAfter, TypeParts

LEMMA LoopType ==
    ASSUME TypeOK,
           \/ DeleteResource \/ DeleteResourceFails \/ Prune \/ PruneFails
           \/ Apply \/ ApplyFails
    PROVE  TypeOK'
<1>1. /\ own \in Obj
      /\ own.exists
      /\ todo \in Seq(Manifests)
      /\ todo # <<>>
      /\ LocalsOK
    BY TypeParts
    DEF LocalsOK, DeleteResource, DeleteResourceFails, Prune, PruneFails, Apply, ApplyFails
<1>2. /\ Head(todo) \in Manifests
      /\ Tail(todo) \in Seq(Manifests)
      /\ Len(todo) \in Nat
      /\ Len(Tail(todo)) = Len(todo) - 1
    BY <1>1, LoopStep
<1>3. own.spec.manifests \in Seq(Manifests) /\ Len(own.spec.manifests) \in Nat
    BY <1>1, SpecType
<1>4. <<>> \in Seq(Manifests)
    OBVIOUS
<1>5. k1s' \in [Refs -> Manifests \cup {NoManifest}]
  <2>1. Remove(Head(todo)) \/ Deploy(Head(todo)) \/ UNCHANGED k1s
      BY DEF DeleteResource, DeleteResourceFails, Prune, PruneFails, Apply, ApplyFails
  <2> QED BY <1>2, <2>1, RemoteType
<1>6. faults' \in 0 .. MaxFaults
    BY DisturbType
    DEF DeleteResource, DeleteResourceFails, Prune, PruneFails, Apply, ApplyFails, TypeOK
<1>7. UNCHANGED <<versions, credsOK, queue, timer, lives>>
    BY DEF DeleteResource, DeleteResourceFails, Prune, PruneFails, Apply, ApplyFails
<1>8. CASE DeleteResource \/ Apply
  <2>1. /\ todo' = Tail(todo) /\ UNCHANGED <<own, ret>>
        /\ \/ todo' = <<>> /\ pc' \in {"removeFinalizer", "patchHash"}
           \/ todo' # <<>> /\ pc' = pc /\ pc \in {"deleteResources", "apply"}
      BY <1>8 DEF DeleteResource, Apply, Goto
  <2>2. LocalsOK'
    <3>1. pc' \in Steps
        BY <2>1 DEF Steps
    <3>2. pc' = "apply" => Len(todo') <= Len(own'.spec.manifests)
        BY <1>1, <1>2, <1>3, <2>1 DEF LocalsOK
    <3> QED BY <1>1, <1>2, <2>1, <3>1, <3>2 DEF LocalsOK
  <2> QED BY <1>5, <1>6, <1>7, <2>2, SameTypes
<1>9. CASE DeleteResourceFails
  <2>1. LocalsOK'
      BY <1>1, <1>4, <1>9, ComputedStatus, WriteStatusType DEF DeleteResourceFails
  <2> QED BY <1>5, <1>6, <1>7, <2>1, SameTypes
<1>10. CASE PruneFails
  <2>1. LocalsOK'
      BY <1>1, <1>4, <1>10, ComputedStatus, WriteStatusType DEF PruneFails
  <2> QED BY <1>5, <1>6, <1>7, <2>1, SameTypes
<1>11. CASE ApplyFails
  <2>1. Len(own.spec.manifests) - Len(todo) \in Nat
      BY <1>1, <1>2, <1>3, <1>11 DEF ApplyFails, LocalsOK
  <2>2. LocalsOK'
      BY <1>1, <1>4, <1>11, <2>1, ComputedStatus, WriteStatusType DEF ApplyFails
  <2> QED BY <1>5, <1>6, <1>7, <2>2, SameTypes
<1>12. CASE Prune
  <2> DEFINE rest == skipDesired(own.spec, Tail(todo))
  <2>1. rest \in Seq(Manifests)
      BY <1>2, SkipDesired
  <2>2. \/ ApplyNext(own)
        \/ rest # <<>> /\ pc = "prune" /\ todo' = rest /\ UNCHANGED <<pc, own, ret>>
      BY <1>12 DEF Prune
  <2> HIDE DEF rest
  <2>3. LocalsOK'
      BY <1>1, <2>1, <2>2, ApplyNextType DEF LocalsOK
  <2> QED BY <1>5, <1>6, <1>7, <2>3, SameTypes
<1> QED BY <1>8, <1>9, <1>10, <1>11, <1>12

LEMMA PatchType ==
    ASSUME TypeOK,
           \/ (PatchFinalizers \/ PatchFinalizersFails) /\ todo' = <<>>
           \/ PatchHash
           \/ (PatchHashFails(manifestHash) \/ PatchStatus \/ PatchStatusFails)
              /\ UNCHANGED todo
    PROVE  TypeOK'
<1>0. own \in Obj /\ todo \in Seq(Manifests)
    BY TypeParts DEF LocalsOK
<1>1. own \in Obj /\ todo' \in Seq(Manifests)
  <2>1. todo' = <<>> \/ todo' = todo
      BY DEF PatchHash
  <2>2. <<>> \in Seq(Manifests)
      OBVIOUS
  <2> QED BY <1>0, <2>1, <2>2, Zenon
<1>2. own.exists
    BY TypeParts
    DEF LocalsOK, PatchFinalizers, PatchFinalizersFails, PatchHash, PatchHashFails,
        PatchStatus, PatchStatusFails
<1>3. VersionsOK'
  <2>1. CASE UNCHANGED versions
      BY <2>1, VersionsType DEF VersionsOK
  <2>2. CASE StoreIfChanged(afterFinalizers)
      BY <2>2, FinalizersStored, StoreType
  <2>3. CASE StoreIfChanged(afterHash(manifestHash))
      BY <1>2, <2>3, HashStored, StoreType
  <2>4. CASE StoreStatus
      BY <2>4, StatusStored, StoreType
  <2> QED
      BY <2>1, <2>2, <2>3, <2>4
      DEF PatchFinalizers, PatchFinalizersFails, PatchHash, PatchHashFails, PatchStatus,
          PatchStatusFails
<1>4. faults' \in 0 .. MaxFaults
    BY DisturbType
    DEF PatchFinalizers, PatchFinalizersFails, PatchHash, PatchHashFails, PatchStatus,
        PatchStatusFails, TypeOK
<1>5. UNCHANGED <<k1s, credsOK, lives>>
    BY DEF PatchFinalizers, PatchFinalizersFails, PatchHash, PatchHashFails, PatchStatus,
           PatchStatusFails
<1>6. CASE PatchHash
  <2>1. Len(own.spec.manifests) \in Nat
      BY <1>1, <1>2, SpecType
  <2>2. LocalsOK'
      BY <1>1, <1>2, <1>6, <2>1, ComputedStatus, WriteStatusType DEF PatchHash
  <2>3. UNCHANGED <<queue, timer>>
      BY <1>6 DEF PatchHash
  <2> QED BY <1>3, <1>4, <1>5, <2>2, <2>3, TypeParts, TypePartsAfter
<1>7. CASE ~PatchHash
  <2>1. \/ Return("requeue") \/ Return("done") \/ Return("error") \/ Return(ret)
      BY <1>7 DEF PatchFinalizers, PatchFinalizersFails, PatchHashFails, PatchStatus,
                  PatchStatusFails
  <2>2. LocalsOK' /\ queue' \in BOOLEAN /\ timer' \in BOOLEAN
      BY <1>1, <2>1, ReturnType
  <2> QED BY <1>3, <1>4, <1>5, <2>2, TypeParts, TypePartsAfter
<1> QED BY <1>6, <1>7

LEMMA ReconcileType ==
    ASSUME TypeOK, Reconcile
    PROVE  TypeOK'
<1>1. CASE Start
  <2>1. LocalsOK'
      BY <1>1, StartType
  <2>2. UNCHANGED <<versions, k1s, credsOK, timer, faults, lives>> /\ queue' = FALSE
      BY <1>1 DEF Start
  <2>3. VersionsOK'
      BY <2>2, VersionsType DEF VersionsOK
  <2> QED BY <2>1, <2>2, <2>3, TypeParts, TypePartsAfter
<1> QED BY <1>1, LoopType, PatchType DEF Reconcile

LEMMA ManagerType ==
    ASSUME TypeOK, \/ (Deliver \/ TimerFires \/ Resync) /\ UNCHANGED todo
                   \/ Crash /\ todo' = <<>>
    PROVE  TypeOK'
<1>1. CASE Deliver /\ UNCHANGED todo
  <2>1. VersionsOK'
      BY <1>1, DeliverType
  <2>2. LocalsOK'
      BY <1>1, TypeParts DEF Deliver, LocalsOK
  <2> QED BY <1>1, <2>1, <2>2, TypeParts, TypePartsAfter DEF Deliver
<1>2. CASE (TimerFires \/ Resync) /\ UNCHANGED todo
    BY <1>2 DEF TimerFires, Resync, TypeOK
<1>3. CASE Crash /\ todo' = <<>>
  <2>1. VersionsOK'
      BY <1>3, RestartType
  <2>2. faults' \in 0 .. MaxFaults
      BY <1>3, DisturbType DEF Crash
  <2>3. LocalsOK'
      BY <1>3, NoObjectType DEF Crash, LocalsOK, Steps
  <2> QED BY <1>3, <2>1, <2>2, <2>3, TypeParts, TypePartsAfter DEF Crash
<1> QED BY <1>1, <1>2, <1>3

LEMMA EnvironmentType ==
    ASSUME TypeOK, Environment, UNCHANGED todo
    PROVE  TypeOK'
<1>0. server \in Obj
    BY VersionsType
<1>1. LocalsOK' /\ UNCHANGED <<queue, timer>>
  <2>1. UNCHANGED <<pc, own, ret, todo, queue, timer>>
      BY DEF Environment, Create, CreateObject, Edit, EditObject, Delete, AddForeign,
             RemoveForeign, LoseCredentials, RestoreCredentials, OutOfBandDelete
  <2> QED BY <2>1, TypeParts DEF LocalsOK
<1>2. VersionsOK'
  <2>1. ASSUME NEW s \in Specs, Create(s) PROVE VersionsOK'
      BY <2>1, NewObjectType, StoreType DEF Create, CreateObject
  <2>2. ASSUME NEW s \in Specs, Edit(s) PROVE VersionsOK'
      BY <1>0, <2>2, EditStored, StoreType DEF Edit, EditObject
  <2>3. CASE Delete
      BY <1>0, <2>3, DeleteStored, StoreType DEF Delete
  <2>4. CASE AddForeign
      BY <1>0, <2>4, ForeignStored, StoreType DEF AddForeign
  <2>5. CASE RemoveForeign
      BY <1>0, <2>5, ReleaseStored, StoreType DEF RemoveForeign
  <2>6. CASE UNCHANGED versions
      BY <2>6, VersionsType DEF VersionsOK
  <2> QED
      BY <2>1, <2>2, <2>3, <2>4, <2>5, <2>6
      DEF Environment, LoseCredentials, RestoreCredentials, OutOfBandDelete
<1>3. faults' \in 0 .. MaxFaults
    BY DisturbType
    DEF Environment, Create, CreateObject, Edit, EditObject, Delete, AddForeign,
        RemoveForeign, LoseCredentials, RestoreCredentials, OutOfBandDelete, TypeOK
<1>4. lives' \in 0 .. MaxLives
  <2>1. lives' = lives \/ (lives' = lives + 1 /\ lives < MaxLives)
      BY DEF Environment, Create, CreateObject, Edit, EditObject, Delete, AddForeign,
             RemoveForeign, LoseCredentials, RestoreCredentials, OutOfBandDelete
  <2> QED BY <2>1, SetBoundAssumption DEF TypeOK
<1>5. credsOK' \in BOOLEAN
    BY DEF Environment, Create, CreateObject, Edit, EditObject, Delete, AddForeign,
           RemoveForeign, LoseCredentials, RestoreCredentials, OutOfBandDelete, TypeOK
<1>6. k1s' \in [Refs -> Manifests \cup {NoManifest}]
    BY DEF Environment, Create, CreateObject, Edit, EditObject, Delete, AddForeign,
           RemoveForeign, LoseCredentials, RestoreCredentials, OutOfBandDelete, TypeOK
<1> QED BY <1>1, <1>2, <1>3, <1>4, <1>5, <1>6, TypeParts, TypePartsAfter

\* Type correctness: in every behaviour every variable keeps its type, no loop is
\* entered with nothing to do, and appliedResources never counts below zero.
THEOREM SetTypeCorrect == Spec => []TypeOK
<1>1. TypeOK /\ [Next]_vars => TypeOK'
  <2> SUFFICES ASSUME TypeOK, [Next]_vars PROVE TypeOK'
      OBVIOUS
  <2>1. CASE UNCHANGED vars
      BY <2>1 DEF vars, TypeOK
  <2> QED BY <2>1, ReconcileType, ManagerType, EnvironmentType DEF Next, Manager
<1> QED BY InitType, <1>1, PTL DEF Spec

-----------------------------------------------------------------------------
(* What the cap, the clean-up and the order of the guards rest on.         *)

\* The steps of a deletion.
DeleteSteps == {"deleteResources", "removeFinalizer"}

\* The steps of a reconcile that may deploy.
DeploySteps == {"prune", "apply", "patchHash"}

\* What is left of the apply loop is within the cap, and the spec whose pruning
\* precedes the loop has passed the policy.
LoopWithinCap ==
    /\ pc = "prune" => ~policyDenied(own.spec) /\ manifestsAccepted(own.spec)
    /\ pc = "apply" => \A m \in Elements(todo) :
                          RefOf[m] \in Refs /\ KindOf[RefOf[m]] \in kindCap

CapInvariant == CapRespected /\ LoopWithinCap

\* Every entry of the inventory is still to be deleted or runs no longer.
CleanupInvariant ==
    (pc \in DeleteSteps /\ own.spec.policy # "Orphan")
    => \A m \in Elements(own.status.managed) :
          \/ pc = "deleteResources" /\ m \in Elements(todo)
          \/ RefOf[m] \notin Running

\* As for K1sApp: the versions yet to be seen only gain the guard or only lose it,
\* and Reconcile deletes or deploys on the side that fits.
SetGuardOrder ==
    /\ OnlyGained(versions) \/ OnlyLost(versions)
    /\ pc \in DeleteSteps => OnlyLost(versions)
    /\ pc = "addFinalizer" => OnlyGained(versions)
    /\ pc \in DeploySteps => Guarded(server)

-----------------------------------------------------------------------------
(* What a step writes.                                                     *)

\* The two kinds of write that take the object away or bring it.
Born(o) == ~server.exists /\ \E s \in Specs : o = NewObject(s)

Gone(o) == server.exists /\ o = NoObject

\* Users and other controllers never touch the operator's finalizer, the hash or
\* the status; they move the generation with the spec or the deletion.
Touched(o) ==
    /\ server.exists
    /\ o.exists
    /\ containsCapability(o) <=> containsCapability(server)
    /\ o.hash = server.hash
    /\ o.status = server.status
    /\ \/ /\ o.gen = server.gen
          /\ o.deleting = server.deleting
          /\ o.spec = server.spec
       \/ /\ o.gen = server.gen + 1
          /\ o.deleting = server.deleting
          /\ <<server.spec, o.spec>> \in Edits
       \/ /\ o.gen = server.gen + 1
          /\ o.deleting
          /\ o.spec = server.spec

EnvironmentWrite(o) ==
    /\ Store(o)
    /\ \/ Born(o) /\ lives < MaxLives /\ lives' = lives + 1
       \/ Gone(o) /\ ~containsCapability(server) /\ UNCHANGED lives
       \/ Touched(o) /\ UNCHANGED lives

LEMMA EnvironmentWrites ==
    ASSUME TypeOK, Environment
    PROVE  \/ UNCHANGED versions
           \/ \E o \in Obj : EnvironmentWrite(o)
<1>0. server \in Obj
    BY VersionsType
<1>1. ASSUME NEW s \in Specs, Create(s) PROVE \E o \in Obj : EnvironmentWrite(o)
  <2>1. NewObject(s) \in Obj /\ EnvironmentWrite(NewObject(s))
      BY <1>1, NewObjectType DEF Create, CreateObject, Born, EnvironmentWrite
  <2> QED BY <2>1
<1>2. ASSUME NEW s \in Specs, Edit(s) PROVE \E o \in Obj : EnvironmentWrite(o)
  <2> DEFINE e == [server EXCEPT !.spec = s, !.gen = @ + 1]
  <2>1. /\ server.exists
        /\ Store(e)
        /\ <<server.spec, s>> \in Edits
        /\ UNCHANGED lives
      BY <1>2 DEF Edit, EditObject
  <2>2. /\ e \in Obj
        /\ e.exists
        /\ e.gen = server.gen + 1
        /\ e.fin = server.fin
        /\ e.deleting = server.deleting
        /\ e.hash = server.hash
        /\ e.spec = s
        /\ e.status = server.status
      BY <1>0, <2>1, EditStored
  <2> HIDE DEF e
  <2>3. Touched(e)
      BY <2>1, <2>2 DEF Touched, containsCapability
  <2> QED BY <2>1, <2>2, <2>3 DEF EnvironmentWrite
<1>3. CASE Delete
  <2> DEFINE d == deleteObject(server, NoObject)
  <2>1. server.exists /\ Store(d) /\ UNCHANGED lives
      BY <1>3 DEF Delete
  <2>2. /\ d \in Obj
        /\ server.fin = {} => d = NoObject
        /\ server.fin # {} => /\ d.exists
                              /\ d.gen = server.gen + 1
                              /\ d.deleting
                              /\ d.fin = server.fin
                              /\ d.hash = server.hash
                              /\ d.spec = server.spec
                              /\ d.status = server.status
      BY <1>0, <2>1, DeleteStored
  <2> HIDE DEF d
  <2>3. CASE server.fin = {}
      BY <2>1, <2>2, <2>3 DEF EnvironmentWrite, Gone, containsCapability
  <2>4. CASE server.fin # {}
      BY <2>1, <2>2, <2>4 DEF EnvironmentWrite, Touched, containsCapability
  <2> QED BY <2>3, <2>4
<1>4. CASE AddForeign
  <2> DEFINE a == [server EXCEPT !.fin = @ \cup {foreignFinalizer}]
  <2>1. server.exists /\ Store(a) /\ UNCHANGED lives
      BY <1>4 DEF AddForeign
  <2>2. a \in Obj /\ Touched(a)
      BY <1>0, <2>1, ForeignStored DEF Touched
  <2> QED BY <2>1, <2>2 DEF EnvironmentWrite
<1>5. CASE RemoveForeign
  <2> DEFINE r == releaseForeign(server, NoObject)
  <2>1. server.exists /\ Store(r) /\ UNCHANGED lives
      BY <1>5 DEF RemoveForeign
  <2>2. /\ r \in Obj
        /\ Guarded(r) <=> Guarded(server)
        /\ r.exists => /\ r.gen = server.gen
                       /\ r.deleting = server.deleting
                       /\ r.hash = server.hash
                       /\ r.spec = server.spec
                       /\ r.status = server.status
      BY <1>0, <2>1, ReleaseStored
  <2>3. r = NoObject \/ r.exists
      BY <1>0, <2>1 DEF releaseForeign, Obj, K1sResourceSetObject, K1sResourceSetRecord
  <2> HIDE DEF r
  <2>4. CASE r = NoObject
    <3>1. ~containsCapability(server)
        BY <2>1, <2>2, <2>4, NoObjectType DEF Guarded
    <3> QED BY <2>1, <2>2, <2>4, <3>1 DEF EnvironmentWrite, Gone
  <2>5. CASE r.exists
    <3>1. Touched(r)
        BY <2>1, <2>2, <2>5 DEF Touched, Guarded
    <3> QED BY <2>1, <2>2, <3>1 DEF EnvironmentWrite
  <2> QED BY <2>3, <2>4, <2>5
<1>6. CASE UNCHANGED versions
    BY <1>6
<1> QED
    BY <1>1, <1>2, <1>3, <1>4, <1>5, <1>6
    DEF Environment, LoseCredentials, RestoreCredentials, OutOfBandDelete

\* Everything else the environment may change.
LEMMA EnvironmentFrame ==
    ASSUME TypeOK, Environment
    PROVE  /\ UNCHANGED <<pc, own, ret>>
           /\ \/ UNCHANGED k1s
              \/ "outOfBand" \in Faults
                 /\ \E r \in Refs : k1s' = [k1s EXCEPT ![r] = NoManifest]
    BY DEF Environment, Create, CreateObject, Edit, EditObject, Delete, AddForeign,
           RemoveForeign, LoseCredentials, RestoreCredentials, OutOfBandDelete, Disturb

\* Reconcile writes three things: the finalizers, the hash and the status.
LEMMA ReconcileWrites ==
    ASSUME TypeOK, Reconcile
    PROVE  \/ UNCHANGED versions
           \/ /\ pc \in {"addFinalizer", "removeFinalizer"}
              /\ patchFinalizersAllowed(server, cached, wantedFinalizers)
              /\ StoreIfChanged(afterFinalizers)
           \/ /\ pc = "patchHash"
              /\ cached.exists /\ server.exists
              /\ StoreIfChanged(afterHash(manifestHash))
           \/ /\ pc = "patchStatus"
              /\ cached.exists /\ server.exists
              /\ StoreStatus
<1>1. CASE Start
    BY <1>1 DEF Start
<1>2. CASE DeleteResource \/ DeleteResourceFails \/ Prune \/ PruneFails \/ Apply \/ ApplyFails
    BY <1>2 DEF DeleteResource, DeleteResourceFails, Prune, PruneFails, Apply, ApplyFails
<1>3. CASE PatchFinalizers \/ PatchFinalizersFails
    BY <1>3 DEF PatchFinalizers, PatchFinalizersFails
<1>4. CASE PatchHash \/ PatchHashFails(manifestHash)
    BY <1>4 DEF PatchHash, PatchHashFails
<1>5. CASE PatchStatus \/ PatchStatusFails
    BY <1>5 DEF PatchStatus, PatchStatusFails
<1> QED BY <1>1, <1>2, <1>3, <1>4, <1>5 DEF Reconcile

-----------------------------------------------------------------------------
(* The order of the guards.                                                *)

\* What the steps of Next do with the order: nothing that a stale copy could not
\* stand.
OrderKept ==
    /\ OnlyGained(versions) => OnlyGained(versions)'
    /\ OnlyLost(versions) => OnlyLost(versions)'

LEMMA SameVersionsOrder ==
    ASSUME UNCHANGED versions
    PROVE  OrderKept /\ server' = server
    BY DEF OrderKept, OnlyGained, OnlyLost, server

LEMMA GuardStored ==
    ASSUME TypeOK, NEW o \in Obj, Store(o) \/ StoreIfChanged(o), SameGuard(server, o)
    PROVE  OrderKept /\ (Guarded(server') <=> Guarded(server))
<1>1. server' = o
    BY StoreType
<1>2. Guarded(server') <=> Guarded(server)
    BY <1>1 DEF SameGuard
<1>3. CASE UNCHANGED versions
    BY <1>2, <1>3, SameVersionsOrder
<1>4. CASE Store(o)
  <2>1. versions \in Seq(Obj) /\ versions # <<>> /\ versions' = Append(versions, o)
      BY <1>4, VersionsType DEF VersionsOK, Store
  <2>2. /\ OnlyGained(versions) => OnlyGained(versions')
        /\ OnlyLost(versions) => OnlyLost(versions')
      BY <2>1, GuardKept DEF server
  <2> QED BY <1>2, <2>2 DEF OrderKept
<1> QED BY <1>3, <1>4 DEF StoreIfChanged

LEMMA EnvironmentOrder ==
    ASSUME TypeOK, Environment
    PROVE  OrderKept /\ (Guarded(server') <=> Guarded(server))
<1>1. CASE UNCHANGED versions
    BY <1>1, SameVersionsOrder
<1>2. ASSUME NEW o \in Obj, EnvironmentWrite(o)
      PROVE  SameGuard(server, o) /\ Store(o)
    BY <1>2, NewObjectType, NoObjectType
    DEF EnvironmentWrite, Born, Gone, Touched, SameGuard, Guarded, containsCapability
<1> QED BY <1>1, <1>2, EnvironmentWrites, GuardStored

\* The patch that adds the finalizer keeps every guard there is.
LEMMA AddKeepsGuard ==
    ASSUME TypeOK, pc = "addFinalizer", Guarded(server)
    PROVE  Guarded(afterFinalizers) /\ afterFinalizers.deleting = server.deleting
<1>1. server \in Obj /\ capabilityFinalizer \in wantedFinalizers
    BY VersionsType DEF wantedFinalizers
<1> QED
    BY <1>1
    DEF afterFinalizers, patchFinalizers, Guarded, containsCapability, Obj,
        K1sResourceSetObject, K1sResourceSetRecord

\* The patch that removes the finalizer adds no guard.
LEMMA RemoveAddsNoGuard ==
    ASSUME TypeOK, pc = "removeFinalizer", Guarded(afterFinalizers)
    PROVE  afterFinalizers = server
<1>1. server \in Obj /\ capabilityFinalizer \notin wantedFinalizers
    BY VersionsType DEF wantedFinalizers
<1> QED
    BY <1>1, NoObjectType
    DEF afterFinalizers, patchFinalizers, Guarded, containsCapability, Obj,
        K1sResourceSetObject, K1sResourceSetRecord

LEMMA FinalizersOrder ==
    ASSUME TypeOK, SetGuardOrder, pc \in {"addFinalizer", "removeFinalizer"},
           StoreIfChanged(afterFinalizers)
    PROVE  (OnlyGained(versions) \/ OnlyLost(versions))'
<1>1. versions \in Seq(Obj) /\ versions # <<>> /\ Len(versions) \in Nat \ {0}
    BY VersionsType DEF VersionsOK
<1>2. CASE UNCHANGED versions
    BY <1>2, SameVersionsOrder DEF SetGuardOrder, OrderKept
<1>3. CASE Store(afterFinalizers)
  <2>1. versions' = Append(versions, afterFinalizers) /\ afterFinalizers \in Obj
      BY <1>3, FinalizersStored DEF Store
  <2>2. CASE pc = "addFinalizer"
    <3>1. OnlyGained(versions)
        BY <2>2 DEF SetGuardOrder
    <3>2. OnlyGained(versions')
        BY <1>1, <2>1, <2>2, <3>1, AddKeepsGuard, GainedStored DEF server
    <3> QED BY <3>2
  <2>3. CASE pc = "removeFinalizer"
    <3>1. OnlyLost(versions)
        BY <2>3 DEF SetGuardOrder, DeleteSteps
    <3>2. ~GuardedLive(server)
        BY <1>1, <3>1 DEF OnlyLost, server
    <3>3. Guarded(afterFinalizers) => Guarded(server) /\ afterFinalizers.deleting
        BY <2>3, <3>2, RemoveAddsNoGuard DEF GuardedLive
    <3>4. OnlyLost(versions')
        BY <1>1, <2>1, <3>1, <3>3, LostStored DEF server
    <3> QED BY <3>4
  <2> QED BY <2>2, <2>3
<1> QED BY <1>2, <1>3 DEF StoreIfChanged

LEMMA PatchOrder ==
    ASSUME TypeOK, own.exists, StoreIfChanged(afterHash(manifestHash)) \/ StoreStatus
    PROVE  OrderKept /\ (Guarded(server') <=> Guarded(server))
<1>1. CASE StoreIfChanged(afterHash(manifestHash))
  <2>1. SameGuard(server, afterHash(manifestHash))
      BY HashStored DEF SameGuard, Guarded, containsCapability
  <2> QED BY <1>1, <2>1, HashStored, GuardStored
<1>2. CASE StoreStatus
  <2>1. PICK resent \in BOOLEAN, o \in Obj :
            /\ Store(o) \/ StoreIfChanged(o)
            /\ o.exists = server.exists
            /\ o.deleting = server.deleting
            /\ o.fin = server.fin
      BY <1>2, StatusStored
  <2>2. SameGuard(server, o)
      BY <2>1 DEF SameGuard, Guarded, containsCapability
  <2> QED BY <2>1, <2>2, GuardStored
<1> QED BY <1>1, <1>2

\* Where the steps of Reconcile lead.
LEMMA StartSteps ==
    ASSUME TypeOK, Start
    PROVE  \/ pc' \in {"idle", "patchStatus"}
           \/ pc' = "addFinalizer" /\ cached.exists /\ ~containsCapability(cached)
           \/ pc' \in DeleteSteps /\ own' = cached /\ Guarded(cached) /\ cached.deleting
           \/ pc' \in DeploySteps /\ own' = cached /\ GuardedLive(cached)
<1>1. CASE ReturnAtOnce \/ MissingCredentials \/ DenyPolicy \/ RejectManifest
    BY <1>1 DEF Start, ReturnAtOnce, MissingCredentials, DenyPolicy, RejectManifest, WriteStatus
<1>2. CASE BeginDelete
    BY <1>2 DEF BeginDelete, Enter, deletionStep, DeleteSteps, Guarded
<1>3. CASE BeginAddFinalizer
    BY <1>3 DEF BeginAddFinalizer, Enter
<1>4. CASE BeginReconcile
  <2>1. GuardedLive(cached)
      BY <1>4 DEF BeginReconcile, Reconcilable, GuardedLive, Guarded
  <2> QED BY <1>4, <2>1 DEF BeginReconcile, Enter, ApplyNext, WriteStatus, DeploySteps
<1> QED BY <1>1, <1>2, <1>3, <1>4 DEF Start

LEMMA LaterSteps ==
    ASSUME TypeOK, Reconcile, ~Start
    PROVE  \/ pc' \in {"idle", "patchStatus"}
           \/ pc \in DeleteSteps /\ pc' \in DeleteSteps /\ own' = own
           \/ pc \in DeploySteps /\ pc' \in DeploySteps /\ own' = own
<1>1. CASE DeleteResource \/ Apply
    BY <1>1 DEF DeleteResource, Apply, Goto, DeleteSteps, DeploySteps
<1>2. CASE DeleteResourceFails \/ PruneFails \/ ApplyFails \/ PatchHash
    BY <1>2 DEF DeleteResourceFails, PruneFails, ApplyFails, PatchHash, WriteStatus
<1>3. CASE Prune
    BY <1>3 DEF Prune, ApplyNext, WriteStatus, DeploySteps
<1>4. CASE \/ PatchFinalizers \/ PatchFinalizersFails \/ PatchHashFails(manifestHash)
           \/ PatchStatus \/ PatchStatusFails
    BY <1>4 DEF PatchFinalizers, PatchFinalizersFails, PatchHashFails, PatchStatus,
                PatchStatusFails, Return
<1> QED BY <1>1, <1>2, <1>3, <1>4 DEF Reconcile

LEMMA ReconcileOrder ==
    ASSUME TypeOK, SetGuardOrder, Reconcile
    PROVE  SetGuardOrder'
<1>1. versions \in Seq(Obj) /\ versions # <<>> /\ cached = versions[1]
    BY VersionsType DEF VersionsOK
<1>2. CASE Start
  <2>1. UNCHANGED versions
      BY <1>2 DEF Start
  <2>2. OrderKept /\ server' = server
      BY <2>1, SameVersionsOrder
  <2>3. pc' \in DeleteSteps => OnlyLost(versions)
      BY <1>1, <1>2, StartSteps, FirstVersion
      DEF SetGuardOrder, DeleteSteps, DeploySteps
  <2>4. pc' = "addFinalizer" => OnlyGained(versions)
      BY <1>1, <1>2, StartSteps, FirstVersion
      DEF SetGuardOrder, DeleteSteps, DeploySteps, Guarded
  <2>5. pc' \in DeploySteps => Guarded(server)
      BY <1>1, <1>2, StartSteps, FirstVersion
      DEF SetGuardOrder, DeleteSteps, DeploySteps, server
  <2>6. (OnlyGained(versions) \/ OnlyLost(versions))'
      BY <2>2 DEF SetGuardOrder, OrderKept
  <2>7. Guarded(server)' <=> Guarded(server)
      BY <2>2 DEF Guarded, containsCapability
  <2> QED BY <2>2, <2>3, <2>4, <2>5, <2>6, <2>7 DEF SetGuardOrder, OrderKept
<1>3. CASE ~Start /\ pc \in {"addFinalizer", "removeFinalizer"}
  <2>1. pc' = "idle"
      BY <1>3
      DEF Reconcile, DeleteResource, DeleteResourceFails, Prune, PruneFails, Apply, ApplyFails,
          PatchHash, PatchHashFails, PatchStatus, PatchStatusFails, PatchFinalizers,
          PatchFinalizersFails, Return
  <2>2. UNCHANGED versions \/ StoreIfChanged(afterFinalizers)
      BY <1>3, ReconcileWrites
  <2>3. (OnlyGained(versions) \/ OnlyLost(versions))'
      BY <1>3, <2>2, FinalizersOrder, SameVersionsOrder DEF SetGuardOrder, OrderKept
  <2> QED BY <2>1, <2>3 DEF SetGuardOrder, DeleteSteps, DeploySteps
<1>4. CASE ~Start /\ pc \notin {"addFinalizer", "removeFinalizer"}
  <2>1. OrderKept /\ (Guarded(server)' <=> Guarded(server))
    <3>1. CASE UNCHANGED versions
        BY <3>1, SameVersionsOrder DEF Guarded, containsCapability
    <3>2. CASE ~UNCHANGED versions
      <4>1. /\ pc \in {"patchHash", "patchStatus"}
            /\ StoreIfChanged(afterHash(manifestHash)) \/ StoreStatus
          BY <1>4, <3>2, ReconcileWrites
      <4>2. own.exists
          BY <4>1 DEF TypeOK
      <4>3. OrderKept /\ (Guarded(server') <=> Guarded(server))
          BY <4>1, <4>2, PatchOrder
      <4> QED BY <4>3 DEF Guarded, containsCapability
    <3> QED BY <3>1, <3>2
  <2> QED BY <1>4, <2>1, LaterSteps DEF SetGuardOrder, OrderKept, DeleteSteps, DeploySteps
<1> QED BY <1>2, <1>3, <1>4

LEMMA ManagerOrder ==
    ASSUME TypeOK, SetGuardOrder, Deliver \/ TimerFires \/ Resync \/ Crash
    PROVE  SetGuardOrder'
<1>1. CASE Deliver
  <2>1. PICK k \in 2 .. Len(versions) : versions' = SubSeq(versions, k, Len(versions))
      BY <1>1 DEF Deliver
  <2>2. versions \in Seq(Obj) /\ versions # <<>>
      BY VersionsType DEF VersionsOK
  <2>3. /\ OnlyGained(versions) => OnlyGained(versions')
        /\ OnlyLost(versions) => OnlyLost(versions')
      BY <2>1, <2>2, OrderDelivered
  <2>4. server' = server /\ pc' = pc
      BY <1>1, DeliverType DEF Deliver
  <2>5. Guarded(server)' <=> Guarded(server)
      BY <2>4 DEF Guarded, containsCapability
  <2> QED BY <2>3, <2>4, <2>5 DEF SetGuardOrder
<1>2. CASE TimerFires \/ Resync
  <2>1. UNCHANGED <<versions, pc>>
      BY <1>2 DEF TimerFires, Resync
  <2>2. OrderKept /\ (Guarded(server)' <=> Guarded(server))
      BY <2>1, SameVersionsOrder DEF Guarded, containsCapability
  <2> QED BY <2>1, <2>2 DEF SetGuardOrder, OrderKept
<1>3. CASE Crash
  <2>1. Len(versions') = 1 /\ pc' = "idle"
      BY <1>3, RestartType DEF Crash
  <2>2. OnlyGained(versions')
      BY <2>1, OneVersion
  <2> QED BY <2>1, <2>2 DEF SetGuardOrder, DeleteSteps, DeploySteps
<1> QED BY <1>1, <1>2, <1>3

\* The order of the guards holds in every behaviour of a resource set, whatever is
\* in the specs.
THEOREM SetGuardsStayOrdered == Spec => []SetGuardOrder
<1>1. Init => SetGuardOrder
  <2> SUFFICES ASSUME Init PROVE SetGuardOrder
      OBVIOUS
  <2>1. Len(versions) = 1 /\ pc = "idle"
      BY DEF Init, ControllerInit
  <2> QED BY <2>1, OneVersion DEF SetGuardOrder, DeleteSteps, DeploySteps
<1>2. TypeOK /\ SetGuardOrder /\ [Next]_vars => SetGuardOrder'
  <2> SUFFICES ASSUME TypeOK, SetGuardOrder, [Next]_vars PROVE SetGuardOrder'
      OBVIOUS
  <2>1. CASE Environment
    <3>1. pc' = pc /\ OrderKept /\ (Guarded(server') <=> Guarded(server))
        BY <2>1, EnvironmentFrame, EnvironmentOrder
    <3>2. Guarded(server)' <=> Guarded(server)
        BY <3>1 DEF Guarded, containsCapability
    <3> QED BY <3>1, <3>2 DEF SetGuardOrder, OrderKept
  <2>2. CASE UNCHANGED vars
    <3>1. UNCHANGED <<versions, pc>>
        BY <2>2 DEF vars
    <3>2. OrderKept /\ (Guarded(server)' <=> Guarded(server))
        BY <3>1, SameVersionsOrder DEF Guarded, containsCapability
    <3> QED BY <3>1, <3>2 DEF SetGuardOrder, OrderKept
  <2> QED BY <2>1, <2>2, ReconcileOrder, ManagerOrder DEF Next, Manager
<1> QED BY <1>1, <1>2, SetTypeCorrect, PTL DEF Spec

\* A resource set that nobody deleted is never taken down: when a DELETE of the
\* deletion loop takes effect the API server holds no live guarded object, for any
\* number of resources, edits, recreations, restarts and undelivered events.
THEOREM LiveSetsAreKept == Spec => NeverDeleteLiveSet
<1> DEFINE Kept == (pc = "deleteResources" /\ k1s' # k1s) => ~GuardedLive(server)
<1>1. TypeOK /\ SetGuardOrder => Kept
  <2> SUFFICES ASSUME TypeOK, SetGuardOrder, pc = "deleteResources"
               PROVE  ~GuardedLive(server)
      OBVIOUS
  <2>1. OnlyLost(versions)
      BY DEF SetGuardOrder, DeleteSteps
  <2> QED BY <2>1, VersionsType DEF OnlyLost, server
<1> QED BY <1>1, SetTypeCorrect, SetGuardsStayOrdered, PTL DEF NeverDeleteLiveSet

-----------------------------------------------------------------------------
(* The cap on kinds.                                                       *)

\* A spec that passed both checks asks only for what the cap allows.
LEMMA AcceptedWithinCap ==
    ASSUME NEW s \in K1sResourceSetSpec, ~policyDenied(s), manifestsAccepted(s),
           NEW m \in Elements(s.manifests)
    PROVE  m \in Manifests /\ RefOf[m] \in Refs /\ KindOf[RefOf[m]] \in kindCap
<1>1. m \in Manifests
    BY DEF K1sResourceSetSpec, Elements
<1>2. RefOf[m] # NoRef /\ KindOf[RefOf[m]] \in allowedKindsFor(s)
    BY DEF manifestsAccepted, acceptable
<1>3. allowedKindsFor(s) \subseteq kindCap
    BY DEF allowedKindsFor, policyDenied
<1> QED BY <1>1, <1>2, <1>3, ResourceAssumption

LEMMA ApplyNextCap ==
    ASSUME TypeOK, NEW o \in Obj, o.exists, ~policyDenied(o.spec), manifestsAccepted(o.spec),
           ApplyNext(o)
    PROVE  LoopWithinCap'
<1>1. CASE pc' \in {"patchStatus", "patchHash"}
    BY <1>1 DEF LoopWithinCap
<1>2. CASE pc' = "apply" /\ todo' = o.spec.manifests
    BY <1>2, SpecType, AcceptedWithinCap DEF LoopWithinCap
<1> QED BY <1>1, <1>2 DEF ApplyNext, WriteStatus

\* What a step of Reconcile deploys is the next manifest of the apply loop.
LEMMA ReconcileRemote ==
    ASSUME TypeOK, Reconcile
    PROVE  \/ UNCHANGED k1s
           \/ /\ pc \in {"deleteResources", "prune"}
              /\ deletable(Head(todo))
              /\ Remove(Head(todo))
           \/ pc = "apply" /\ Deploy(Head(todo))
    BY DEF Reconcile, Start, DeleteResource, DeleteResourceFails, Prune, PruneFails, Apply,
           ApplyFails, PatchFinalizers, PatchFinalizersFails, PatchHash, PatchHashFails,
           PatchStatus, PatchStatusFails

\* Taking something away respects every cap.
LEMMA RemoveRunning ==
    ASSUME TypeOK, NEW r, UNCHANGED k1s \/ k1s' = [k1s EXCEPT ![r] = NoManifest]
    PROVE  Running' \subseteq Running
    BY DEF TypeOK, Running

LEMMA ReconcileCap ==
    ASSUME TypeOK, CapInvariant, Reconcile
    PROVE  CapInvariant'
<1>1. own \in Obj /\ todo \in Seq(Manifests) /\ cached \in Obj
    BY VersionsType, TypeParts DEF LocalsOK
<1>2. CapRespected /\ LoopWithinCap
    BY DEF CapInvariant
<1>3. CapRespected'
  <2>1. CASE UNCHANGED k1s \/ Remove(Head(todo))
    <3>1. Running' \subseteq Running
        BY <2>1, RemoveRunning DEF Remove
    <3> QED BY <1>2, <3>1 DEF CapRespected
  <2>2. CASE pc = "apply" /\ Deploy(Head(todo))
    <3>1. todo # <<>>
        BY <2>2 DEF TypeOK
    <3>2. Head(todo) \in Elements(todo)
        BY <1>1, <3>1, LoopStep
    <3>3. KindOf[RefOf[Head(todo)]] \in kindCap
        BY <1>2, <2>2, <3>2 DEF LoopWithinCap
    <3>4. Running' \subseteq Running \cup {RefOf[Head(todo)]}
        BY <2>2 DEF Deploy, Running, TypeOK
    <3> QED BY <1>2, <3>3, <3>4 DEF CapRespected
  <2> QED BY <2>1, <2>2, ReconcileRemote
<1>4. LoopWithinCap'
  <2>1. CASE pc' \notin {"prune", "apply"}
      BY <2>1 DEF LoopWithinCap
  <2>2. CASE Start /\ pc' \in {"prune", "apply"}
    <3>1. BeginReconcile
        BY <2>2
        DEF Start, ReturnAtOnce, MissingCredentials, BeginDelete, BeginAddFinalizer,
            DenyPolicy, RejectManifest, Enter, WriteStatus, deletionStep
    <3>2. cached.exists /\ ~policyDenied(cached.spec) /\ manifestsAccepted(cached.spec)
        BY <3>1 DEF BeginReconcile, Reconcilable
    <3>3. CASE Enter("prune")
        BY <3>2, <3>3 DEF Enter, LoopWithinCap
    <3> QED BY <1>1, <3>1, <3>2, <3>3, ApplyNextCap DEF BeginReconcile
  <2>3. CASE Apply /\ pc' = "apply"
    <3>1. todo # <<>> /\ todo' = Tail(todo) /\ pc = "apply"
        BY <2>3 DEF Apply, TypeOK
    <3>2. Elements(todo') \subseteq Elements(todo)
        BY <1>1, <3>1, LoopStep
    <3> QED BY <1>2, <2>3, <3>1, <3>2 DEF LoopWithinCap
  <2>4. CASE Prune
    <3>1. own.exists /\ ~policyDenied(own.spec) /\ manifestsAccepted(own.spec)
        BY <1>2, <2>4 DEF Prune, LoopWithinCap, TypeOK
    <3>2. CASE UNCHANGED <<pc, own>> /\ pc = "prune"
        BY <3>1, <3>2 DEF LoopWithinCap
    <3> QED BY <1>1, <2>4, <3>1, <3>2, ApplyNextCap DEF Prune
  <2> QED
      BY <2>1, <2>2, <2>3, <2>4
      DEF Reconcile, DeleteResource, DeleteResourceFails, PruneFails, Apply,
          ApplyFails, PatchFinalizers, PatchFinalizersFails, PatchHash, PatchHashFails,
          PatchStatus, PatchStatusFails, WriteStatus, Goto, Return
<1> QED BY <1>3, <1>4 DEF CapInvariant

\* Every other step keeps the locals of Reconcile or drops them, and deploys nothing.
LEMMA OthersQuiet ==
    ASSUME TypeOK, \/ (Manager \/ Environment) /\ UNCHANGED todo
                   \/ Crash /\ todo' = <<>>
                   \/ UNCHANGED vars
    PROVE  /\ UNCHANGED <<pc, own, todo>> \/ pc' = "idle"
           /\ \E r : UNCHANGED k1s \/ k1s' = [k1s EXCEPT ![r] = NoManifest]
    BY EnvironmentFrame DEF Manager, Deliver, TimerFires, Resync, Crash, vars

\* The checks of the policy hold until the loop they allowed is over.
THEOREM CapInvariantHolds == Spec => []CapInvariant
<1>1. Init => CapInvariant
    BY DEF Init, ControllerInit, CapInvariant, CapRespected, LoopWithinCap, Running
<1>2. TypeOK /\ CapInvariant /\ [Next]_vars => CapInvariant'
  <2> SUFFICES ASSUME TypeOK, CapInvariant, [Next]_vars PROVE CapInvariant'
      OBVIOUS
  <2>1. CASE ~Reconcile
    <3>1. /\ UNCHANGED <<pc, own, todo>> \/ pc' = "idle"
          /\ \E r : UNCHANGED k1s \/ k1s' = [k1s EXCEPT ![r] = NoManifest]
        BY <2>1, OthersQuiet DEF Next
    <3>2. Running' \subseteq Running
        BY <3>1, RemoveRunning
    <3> QED BY <3>1, <3>2 DEF CapInvariant, CapRespected, LoopWithinCap
  <2> QED BY <2>1, ReconcileCap
<1> QED BY <1>1, <1>2, SetTypeCorrect, PTL DEF Spec

\* The operator's cap on kinds is respected in every behaviour: whatever
\* spec.allowedKinds says, whatever specs follow one another and however stale the
\* copy is that is reconciled, k1s never runs anything of another kind.
THEOREM CapIsRespected == Spec => []CapRespected
<1>1. CapInvariant => CapRespected
    BY DEF CapInvariant
<1> QED BY <1>1, CapInvariantHolds, PTL

-----------------------------------------------------------------------------
(* The clean-up before the release.                                        *)

LEMMA ReconcileCleanup ==
    ASSUME TypeOK, CleanupInvariant, Reconcile
    PROVE  CleanupInvariant'
<1>1. own \in Obj /\ todo \in Seq(Manifests) /\ cached \in Obj
    BY VersionsType, TypeParts DEF LocalsOK
<1>2. CASE Start /\ pc' \in DeleteSteps
  <2>1. BeginDelete
      BY <1>2
      DEF Start, ReturnAtOnce, MissingCredentials, BeginReconcile, BeginAddFinalizer,
          DenyPolicy, RejectManifest, Enter, ApplyNext, WriteStatus, DeleteSteps
  <2>2. own' = cached /\ todo' = cached.status.managed
      BY <2>1 DEF BeginDelete, Enter
  <2>3. CASE pc' = "deleteResources"
      BY <2>2, <2>3 DEF CleanupInvariant
  <2>4. CASE pc' = "removeFinalizer" /\ cached.spec.policy # "Orphan"
    <3>1. cached.status.managed = <<>>
        BY <2>1, <2>4 DEF BeginDelete, Enter, deletionStep
    <3>2. Elements(<<>>) = {}
        BY DEF Elements
    <3> QED BY <2>2, <3>1, <3>2 DEF CleanupInvariant
  <2> QED BY <1>2, <2>2, <2>3, <2>4 DEF CleanupInvariant, DeleteSteps
<1>3. CASE DeleteResource
  <2>1. /\ todo # <<>>
        /\ pc = "deleteResources"
        /\ Remove(Head(todo))
        /\ todo' = Tail(todo)
        /\ own' = own
        /\ \/ Tail(todo) = <<>> /\ pc' = "removeFinalizer"
           \/ Tail(todo) # <<>> /\ pc' = "deleteResources"
      BY <1>3 DEF DeleteResource, Goto, TypeOK
  <2>2. Running' \subseteq Running \ {RefOf[Head(todo)]}
      BY <2>1 DEF Remove, Running, TypeOK
  <2>3. Elements(todo) = {Head(todo)} \cup Elements(todo')
      BY <1>1, <2>1, LoopStep
  <2>4. todo' = <<>> => Elements(todo') = {}
      BY DEF Elements
  <2> SUFFICES ASSUME own.spec.policy # "Orphan", NEW m \in Elements(own.status.managed),
                      RefOf[m] \in Running'
               PROVE  pc' = "deleteResources" /\ m \in Elements(todo')
      BY <2>1 DEF CleanupInvariant
  <2>5. m \in Elements(todo)
      BY <2>1, <2>2 DEF CleanupInvariant, DeleteSteps
  <2>6. m # Head(todo)
      BY <2>2
  <2> QED BY <2>1, <2>3, <2>4, <2>5, <2>6
<1>4. CASE ~Start /\ ~DeleteResource
  <2>1. pc' \notin DeleteSteps
      BY <1>4
      DEF Reconcile, DeleteResourceFails, Prune, PruneFails, Apply, ApplyFails,
          PatchFinalizers, PatchFinalizersFails, PatchHash, PatchHashFails, PatchStatus,
          PatchStatusFails, ApplyNext, WriteStatus, Goto, Return, DeleteSteps
  <2> QED BY <2>1 DEF CleanupInvariant
<1> QED BY <1>2, <1>3, <1>4 DEF CleanupInvariant

\* When the finalizer is about to be released nothing that the inventory in the
\* reconciler's copy lists runs any more, however often the loop was interrupted,
\* failed and began again.
THEOREM CleanupBeforeRelease == Spec => []ReleasedAfterCleanup
<1>1. Init => CleanupInvariant
    BY DEF Init, ControllerInit, CleanupInvariant, DeleteSteps
<1>2. TypeOK /\ CleanupInvariant /\ [Next]_vars => CleanupInvariant'
  <2> SUFFICES ASSUME TypeOK, CleanupInvariant, [Next]_vars PROVE CleanupInvariant'
      OBVIOUS
  <2>1. CASE ~Reconcile
    <3>1. /\ UNCHANGED <<pc, own, todo>> \/ pc' = "idle"
          /\ \E r : UNCHANGED k1s \/ k1s' = [k1s EXCEPT ![r] = NoManifest]
        BY <2>1, OthersQuiet DEF Next
    <3>2. Running' \subseteq Running
        BY <3>1, RemoveRunning
    <3> QED BY <3>1, <3>2 DEF CleanupInvariant, DeleteSteps
  <2> QED BY <2>1, ReconcileCleanup
<1>3. CleanupInvariant => ReleasedAfterCleanup
    BY DEF CleanupInvariant, ReleasedAfterCleanup, DeleteSteps
<1> QED BY <1>1, <1>2, <1>3, SetTypeCorrect, PTL DEF Spec
=============================================================================
