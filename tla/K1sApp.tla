------------------------------- MODULE K1sApp -------------------------------
(***************************************************************************)
(* The K1sApp reconciler of internal/controller/capability_controller.go   *)
(* for one K1sApp object: what it does to the object (through the API      *)
(* server and a cache that lags behind it) and to the k1s cluster (through *)
(* the k1s controller's HTTP API), call by call.                           *)
(*                                                                         *)
(* A step of the reconciler is one remote call and the local computation   *)
(* after it. Cached reads are local. Every remote call may succeed, fail   *)
(* without effect, or take effect and lose its reply.                      *)
(***************************************************************************)
EXTENDS KubeObject

CONSTANTS
    Manifests,   \* the manifests users write in spec.manifest
    Apps,        \* the app names known to k1s
    AppOf,       \* appNameFromManifest: the app a manifest names
    KindOf,      \* kindFromManifest: "Deployment" or another kind
    Edits,       \* the changes <<m, n>> of spec.manifest users make
    Policies,    \* the spec.deletePolicy values users write
    NoManifest,  \* nothing deployed under an app name
    NoApp,       \* the empty status.appName
    Faults,      \* the kinds of disturbance that may happen
    MaxFaults,   \* bound: disturbances in a behaviour
    MaxGen,      \* bound: metadata.generation that a user's edit may reach
    MaxLives,    \* bound: how often the object is created
    MaxLag       \* bound: undelivered watch events

ASSUME ManifestAssumption ==
    /\ AppOf \in [Manifests -> Apps]
    /\ KindOf \in [Manifests -> STRING]
    /\ Edits \subseteq Manifests \X Manifests
    /\ NoManifest \notin Manifests
    /\ NoApp \notin Apps

ASSUME PolicyAssumption == Policies \subseteq {"Delete", "Orphan"}

VARIABLES
    versions,  \* the object as the cache has it, the undelivered versions, and
               \* last the one the API server holds
    k1s,       \* k1s: the manifest that runs under each app name
    credsOK,   \* K1sCluster, Secret and write token are all there
    queue,     \* the work queue holds the object's key
    timer,     \* a RequeueAfter is pending
    pc,        \* the remote call the reconciler is about to make
    own,       \* the reconciler's own copy of the object
    ret,       \* what Reconcile returns after its last patchStatus
    faults,    \* disturbances so far
    lives      \* creations so far

vars == <<versions, k1s, credsOK, queue, timer, pc, own, ret, faults, lives>>

-----------------------------------------------------------------------------
(* The object.                                                             *)

ConditionTypes == {"CredentialsValid", "Accepted", "Applied", "AppReady", "Ready"}

Conditions == [ConditionTypes -> [status : ConditionStatus, gen : Nat]]

K1sAppStatus ==
    [observedGeneration : Nat,
     appName : Apps \cup {NoApp},
     ready : BOOLEAN,
     conds : Conditions]

NoStatus ==
    [observedGeneration |-> 0, appName |-> NoApp, ready |-> FALSE,
     conds |-> [t \in ConditionTypes |-> NoCondition]]

Hashes == {hashBytes(m) : m \in Manifests} \cup {NoHash}

K1sAppRecord ==
    [exists : BOOLEAN, gen : Nat, fin : SUBSET Finalizers, deleting : BOOLEAN,
     hash : Hashes, manifest : Manifests \cup {NoManifest},
     policy : Policies \cup {"Delete"}, status : K1sAppStatus]

\* An object that exists has a manifest.
K1sAppObject == {o \in K1sAppRecord : o.exists => o.manifest \in Manifests}

NoObject ==
    [exists |-> FALSE, gen |-> 0, fin |-> {}, deleting |-> FALSE, hash |-> NoHash,
     manifest |-> NoManifest, policy |-> "Delete", status |-> NoStatus]

NewObject(m, p) ==
    [NoObject EXCEPT !.exists = TRUE, !.gen = 1, !.manifest = m, !.policy = p]

-----------------------------------------------------------------------------
INSTANCE Controller

ASSUME BoundAssumption ==
    /\ Faults \subseteq FaultKinds
    /\ MaxFaults \in Nat
    /\ MaxGen \in Nat
    /\ MaxLives \in Nat
    /\ MaxLag \in Nat \ {0}

\* DeleteApp is given status.appName, or else the name in the manifest.
appDeleteName(o) ==
    IF o.status.appName # NoApp THEN o.status.appName ELSE AppOf[o.manifest]

-----------------------------------------------------------------------------
(* The status each path of Reconcile computes from its copy o.             *)

wrongKind(o) ==
    [o.status EXCEPT
        !.observedGeneration = o.gen,
        !.appName = AppOf[o.manifest],
        !.conds = setCondition(setCondition(@, "Accepted", "False", o.gen),
                               "Ready", "False", o.gen)]

\* Mutant: observedGeneration is not moved on.
reconciled_NoObservedGeneration(o, applied, ready) ==
    [o.status EXCEPT
        !.appName = AppOf[o.manifest],
        !.ready = ready,
        !.conds = setCondition(@, "Applied", conditionStatus(applied), o.gen)]

\* applied: Apply returned no error, or was not needed. ready: the app's status
\* could be read and k1s reports it ready.
reconciled(o, applied, ready) ==
    [o.status EXCEPT
        !.observedGeneration = o.gen,
        !.appName = AppOf[o.manifest],
        !.ready = ready,
        !.conds =
            LET accepted == setCondition(@, "Accepted", "True", o.gen)
                done == setCondition(accepted, "Applied", conditionStatus(applied), o.gen)
                seen == setCondition(done, "AppReady", conditionStatus(ready), o.gen)
            IN  setCondition(seen, "Ready", conditionStatus(ready), o.gen)]

-----------------------------------------------------------------------------
(* Reconcile: the Get, writeClient and the branches before the first call. *)
(* The CRD requires spec.manifest to be an object, so the branch for an    *)
(* empty manifest is never taken and is left out.                          *)

\* Mutant: the deletion timestamp is not looked at.
BeginDelete_LiveToo ==
    /\ containsCapability(cached)
    /\ Enter(IF cached.policy # "Orphan" THEN "deleteApp" ELSE "removeFinalizer")

\* Mutant: the finalizer is removed without a DeleteApp.
BeginDelete_NoDeleteApp ==
    /\ cached.deleting
    /\ containsCapability(cached)
    /\ Enter("removeFinalizer")

BeginDelete ==
    /\ cached.deleting
    /\ containsCapability(cached)
    /\ Enter(IF cached.policy # "Orphan" THEN "deleteApp" ELSE "removeFinalizer")

RejectKind ==
    /\ cached.exists
    /\ credsOK
    /\ ~cached.deleting
    /\ containsCapability(cached)
    /\ KindOf[cached.manifest] # "Deployment"
    /\ WriteStatus(cached, wrongKind(cached), "done")

\* Mutant: the manifest is applied before the finalizer is there.
BeginApply_Unguarded ==
    /\ cached.exists
    /\ ~cached.deleting
    /\ KindOf[cached.manifest] = "Deployment"
    /\ Enter(IF cached.hash # hashBytes(cached.manifest) THEN "apply" ELSE "checkStatus")

\* Mutant: any recorded hash counts as applied.
BeginApply_AnyHash ==
    /\ ~cached.deleting
    /\ containsCapability(cached)
    /\ KindOf[cached.manifest] = "Deployment"
    /\ Enter(IF cached.hash = NoHash THEN "apply" ELSE "checkStatus")

BeginApply ==
    /\ ~cached.deleting
    /\ containsCapability(cached)
    /\ KindOf[cached.manifest] = "Deployment"
    /\ Enter(IF cached.hash # hashBytes(cached.manifest) THEN "apply" ELSE "checkStatus")

Start ==
    /\ pc = "idle"
    /\ queue
    /\ queue' = FALSE
    /\ \/ ReturnAtOnce
       \/ MissingCredentials
       \/ BeginDelete
       \/ BeginAddFinalizer
       \/ RejectKind
       \/ BeginApply
    /\ UNCHANGED <<versions, k1s, credsOK, timer, faults, lives>>

-----------------------------------------------------------------------------
(* Reconcile: the remote calls.                                            *)

\* Mutant: a 404 from k1s is an error like any other.
DeleteApp_NotFoundFails ==
    /\ pc = "deleteApp"
    /\ IF k1s[appDeleteName(own)] = NoManifest
       THEN WriteStatus(own, deleteFailed(own), "error") /\ UNCHANGED k1s
       ELSE /\ k1s' = [k1s EXCEPT ![appDeleteName(own)] = NoManifest]
            /\ Goto("removeFinalizer")
    /\ UNCHANGED <<versions, credsOK, queue, timer, faults, lives>>

\* DELETE of an app that k1s does not know answers 404, which counts as success.
DeleteApp ==
    /\ pc = "deleteApp"
    /\ k1s' = [k1s EXCEPT ![appDeleteName(own)] = NoManifest]
    /\ Goto("removeFinalizer")
    /\ UNCHANGED <<versions, credsOK, queue, timer, faults, lives>>

\* Mutant: the error of DeleteApp is swallowed.
DeleteAppFails_Swallowed ==
    /\ pc = "deleteApp"
    /\ Disturb("callFails")
    /\ Goto("removeFinalizer")
    /\ UNCHANGED <<versions, k1s, credsOK, queue, timer, lives>>

DeleteAppFails ==
    /\ pc = "deleteApp"
    /\ \/ Disturb("callFails") /\ UNCHANGED k1s
       \/ Disturb("replyLost") /\ k1s' = [k1s EXCEPT ![appDeleteName(own)] = NoManifest]
    /\ WriteStatus(own, deleteFailed(own), "error")
    /\ UNCHANGED <<versions, credsOK, queue, timer, lives>>

\* Mutant: an app that k1s no longer knows is not applied again.
CheckStatus_NoReapply ==
    /\ pc = "checkStatus"
    /\ Goto("readStatus")
    /\ UNCHANGED <<versions, k1s, credsOK, queue, timer, faults, lives>>

\* The answer of k1s about the app goes into the status.
applyObservedAppStatus ==
    \E ready \in BOOLEAN : WriteStatus(own, reconciled(own, TRUE, ready), "poll")

\* The first AppStatus, asked when the hash says the manifest is applied already:
\* k1s no longer has the app, or has it, or cannot be asked. In the last case the
\* code asks once more; but AppStatus tries a second spelling of a namespaced app
\* after any error, and if k1s does not know that one, a 404 is what it returns.
CheckStatus ==
    /\ pc = "checkStatus"
    /\ \/ k1s[AppOf[own.manifest]] = NoManifest /\ Goto("apply") /\ UNCHANGED faults
       \/ /\ k1s[AppOf[own.manifest]] # NoManifest
          /\ applyObservedAppStatus
          /\ UNCHANGED faults
       \/ Disturb("callFails") /\ (Goto("readStatus") \/ Goto("apply"))
    /\ UNCHANGED <<versions, k1s, credsOK, queue, timer, lives>>

Apply ==
    /\ pc = "apply"
    /\ k1s' = [k1s EXCEPT ![AppOf[own.manifest]] = own.manifest]
    /\ Goto("patchHash")
    /\ UNCHANGED <<versions, credsOK, queue, timer, faults, lives>>

\* A failed Apply is reported in status and retried at the next poll.
ApplyFails ==
    /\ pc = "apply"
    /\ \/ Disturb("callFails") /\ UNCHANGED k1s
       \/ /\ Disturb("replyLost")
          /\ k1s' = [k1s EXCEPT ![AppOf[own.manifest]] = own.manifest]
    /\ WriteStatus(own, reconciled(own, FALSE, FALSE), "poll")
    /\ UNCHANGED <<versions, credsOK, queue, timer, lives>>

\* hashBytes of the manifest in the copy.
manifestHash == hashBytes(own.manifest)

PatchHash ==
    /\ pc = "patchHash"
    /\ cached.exists
    /\ server.exists
    /\ StoreIfChanged(afterHash(manifestHash))
    /\ Goto("readStatus")
    /\ UNCHANGED <<k1s, credsOK, queue, timer, faults, lives>>

\* The second AppStatus: the app is ready only if k1s has it and says so.
ReadStatus ==
    /\ pc = "readStatus"
    /\ \/ /\ k1s[AppOf[own.manifest]] # NoManifest
          /\ applyObservedAppStatus
          /\ UNCHANGED faults
       \/ /\ k1s[AppOf[own.manifest]] = NoManifest
          /\ WriteStatus(own, reconciled(own, TRUE, FALSE), "poll")
          /\ UNCHANGED faults
       \/ /\ Disturb("callFails")
          /\ WriteStatus(own, reconciled(own, TRUE, FALSE), "poll")
    /\ UNCHANGED <<versions, k1s, credsOK, queue, timer, lives>>

Reconcile ==
    \/ Start
    \/ DeleteApp \/ DeleteAppFails
    \/ PatchFinalizers \/ PatchFinalizersFails
    \/ CheckStatus
    \/ Apply \/ ApplyFails
    \/ PatchHash \/ PatchHashFails(manifestHash)
    \/ ReadStatus
    \/ PatchStatus \/ PatchStatusFails

-----------------------------------------------------------------------------
(* Users, other controllers and k1s itself.                                *)

Create(m, p) == CreateObject(NewObject(m, p))

Edit(m, p) ==
    /\ m = server.manifest \/ <<server.manifest, m>> \in Edits
    /\ <<m, p>> # <<server.manifest, server.policy>>
    /\ EditObject([server EXCEPT !.manifest = m, !.policy = p, !.gen = @ + 1])

Environment ==
    \/ \E m \in Manifests, p \in Policies : Create(m, p) \/ Edit(m, p)
    \/ Delete
    \/ AddForeign \/ RemoveForeign
    \/ LoseCredentials \/ RestoreCredentials
    \/ \E a \in Apps : OutOfBandDelete(a)

-----------------------------------------------------------------------------

Init ==
    /\ ControllerInit
    /\ k1s = [a \in Apps |-> NoManifest]

Next == Reconcile \/ Deliver \/ TimerFires \/ Resync \/ Crash \/ Environment

Spec == Init /\ [][Next]_vars

\* The reconciler's goroutine, the informer and the timers all make progress,
\* and whoever owns the foreign finalizer releases it. The resync is only counted on
\* after credentials were missing; in every other case the poll has to do.
Fairness ==
    /\ WF_vars(Reconcile)
    /\ WF_vars(Deliver)
    /\ WF_vars(TimerFires)
    /\ WF_vars(Resync /\ LackedCredentials(cached))
    /\ WF_vars(RemoveForeign)

FairSpec == Spec /\ Fairness

-----------------------------------------------------------------------------
(* Properties.                                                             *)

Steps == {"idle", "deleteApp", "addFinalizer", "removeFinalizer", "checkStatus",
          "apply", "patchHash", "readStatus", "patchStatus"}

\* Every variable has its type: versions is a non-empty sequence of objects, and
\* between its calls the reconciler holds an object that existed.
TypeOK ==
    /\ versions \in Seq(K1sAppObject)
    /\ versions # <<>>
    /\ k1s \in [Apps -> Manifests \cup {NoManifest}]
    /\ credsOK \in BOOLEAN
    /\ queue \in BOOLEAN
    /\ timer \in BOOLEAN
    /\ pc \in Steps
    /\ own \in K1sAppObject
    /\ pc # "idle" => own.exists
    /\ ret \in {"done", "poll", "error"}
    /\ faults \in 0 .. MaxFaults
    /\ lives \in 0 .. MaxLives

\* k1s-side resources are deleted before the K1sApp disappears: as long as k1s
\* runs anything, the object exists and still carries the operator's finalizer.
\* (docs/security-rbac.md, Finalizers.) It holds for users who keep to one app
\* name and to deletePolicy Delete; see StableNames.
CleanupBeforeGone ==
    (\E a \in Apps : k1s[a] # NoManifest) => Guarded(server)

\* The operator never takes down the app of a K1sApp that nobody deleted: when a
\* DeleteApp call takes effect, the API server holds no live object that carries
\* the finalizer, however stale the copy that led to the call.
NeverDeleteLive ==
    [][ \A a \in Apps :
          (pc = "deleteApp" /\ pc' # pc /\ k1s[a] # NoManifest /\ k1s'[a] = NoManifest)
          => ~GuardedLive(server) ]_vars

\* The operator's patches of the finalizer list, which they write as a whole, keep
\* every finalizer of another controller that is still there and that the copy read
\* at the start of Reconcile shows. (One that was added since is overwritten.)
SeenFinalizersKept ==
    [][ (pc \in {"addFinalizer", "removeFinalizer"} /\ pc' # pc)
        => (own.fin \cap server.fin) \ {capabilityFinalizer} \subseteq server'.fin ]_vars

\* The object asks for a Deployment and is not being deleted.
LiveDeployment(o) ==
    o.exists /\ ~o.deleting /\ KindOf[o.manifest] = "Deployment"

\* Applied=True for the current generation is the truth: k1s runs the manifest of
\* the spec, or (removed behind the operator's back) nothing; for an object that was
\* created once and users who never go back to a manifest they have left, since a
\* hash that is too old may then look like the right one.
AppliedMeansCurrent ==
    LET applied == server.status.conds["Applied"]
    IN  (LiveDeployment(server) /\ applied.status = "True" /\ applied.gen = server.gen)
        => k1s[AppOf[server.manifest]] \in {server.manifest, NoManifest}

\* Credentials come back for good.
CredentialsReturn == <>[]credsOK

\* Once users and faults are quiet and the credentials are there, k1s runs what
\* the spec says: lost calls are retried, apps removed out of band come back.
Converges ==
    CredentialsReturn =>
        <>[](LiveDeployment(server) => k1s[AppOf[server.manifest]] = server.manifest)

\* ... and the status says so for the current generation, whatever the status
\* patches computed against a stale cache did on the way.
StatusSettles ==
    CredentialsReturn =>
        <>[](LiveDeployment(server) =>
                /\ server.status.observedGeneration = server.gen
                /\ server.status.conds["Applied"] = [status |-> "True", gen |-> server.gen])

\* A deletion that was asked for is carried out, unless the credentials stay away.
DeletionCompletes ==
    CredentialsReturn => (server.deleting ~> ~server.exists)

-----------------------------------------------------------------------------
(* The inductive invariant behind CleanupBeforeGone and NeverDeleteLive.   *)

\* Users keep to one app name and to deletePolicy Delete.
StableNames ==
    /\ \A m, n \in Manifests : AppOf[m] = AppOf[n]
    /\ Policies = {"Delete"}

\* The versions the cache has yet to see never lose the guard and regain it: a
\* deletion that the operator has not seen cannot be completed behind its back,
\* and an object recreated under the same name is not guarded before it is seen.
GuardOrder ==
    /\ OnlyGained(versions) \/ OnlyLost(versions)
    /\ pc \in {"deleteApp", "removeFinalizer"} => OnlyLost(versions)
    /\ pc = "addFinalizer" => OnlyGained(versions)
    /\ pc \in {"checkStatus", "apply", "patchHash", "readStatus"} => Guarded(server)

\* Only names of manifests are deployed and recorded.
KnownNames ==
    /\ \A a \in Apps : k1s[a] # NoManifest => \E m \in Manifests : a = AppOf[m]
    /\ \A i \in 1 .. Len(versions) :
          versions[i].status.appName \in {AppOf[m] : m \in Manifests} \cup {NoApp}
    /\ own.status.appName \in {AppOf[m] : m \in Manifests} \cup {NoApp}

\* When the finalizer is about to go, nothing runs in k1s any more.
CleanedUp ==
    pc = "removeFinalizer" => \A a \in Apps : k1s[a] = NoManifest

\* What makes CleanupBeforeGone inductive: the order in which guards come and go
\* along the undelivered versions, the names in use, and that the finalizer is
\* released by a reconciler whose DeleteApp came back.
FinalizerInvariant ==
    /\ CleanupBeforeGone
    /\ GuardOrder
    /\ KnownNames
    /\ CleanedUp

\* The reconciler implements the contract of its finalizer.
Contract == INSTANCE FinalizerContract WITH
    Resources <- Apps,
    present <- server.exists,
    guarded <- Guarded(server),
    remote <- {a \in Apps : k1s[a] # NoManifest}

\* Every step of the reconciler, of its environment and of the cache is a step
\* the finalizer contract allows, or changes nothing the contract speaks about.
ImplementsContract == Contract!Spec

=============================================================================
