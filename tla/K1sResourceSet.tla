--------------------------- MODULE K1sResourceSet ---------------------------
(***************************************************************************)
(* The K1sResourceSet reconciler of                                        *)
(* internal/controller/capability_controller.go for one object: a list of  *)
(* manifests applied one after the other, an inventory of what was applied *)
(* in status.managedResources, pruning of what left the list, and deletion *)
(* of the inventory.                                                       *)
(*                                                                         *)
(* A step is one remote call and the local computation after it, as in     *)
(* K1sApp; the cache, the queue and the patches come from Controller.      *)
(***************************************************************************)
EXTENDS KubeObject

CONSTANTS
    Specs,         \* the specs users write: records with fields manifests (a
                   \* sequence), prune, allowed (a set of kinds) and policy
    Edits,         \* the changes <<s, t>> of the spec users make
    Manifests,     \* the manifests in those specs
    Refs,          \* kind/namespace/name of k1s resources
    RefOf,         \* managedResourceFromManifest: the resource, or NoRef on error
    KindOf,        \* the kind of a resource
    NoRef,         \* the manifest has no kind or no name
    OperatorKinds, \* --resourceset-allowed-kinds
    NoManifest,    \* nothing deployed under a reference
    Faults,        \* the kinds of disturbance that may happen
    MaxFaults,     \* bound: disturbances in a behaviour
    MaxGen,        \* bound: metadata.generation that a user's edit may reach
    MaxLives,      \* bound: how often the object is created
    MaxLag         \* bound: undelivered watch events

VARIABLES versions, k1s, credsOK, queue, timer, pc, own, ret, faults, lives,
    todo  \* what is left of the loop: inventory entries to delete, or manifests to
          \* apply

vars == <<versions, k1s, credsOK, queue, timer, pc, own, ret, faults, lives, todo>>

-----------------------------------------------------------------------------
(* The object.                                                             *)

SetConditions == {"CredentialsValid", "PolicyAllowed", "Applied", "Ready"}

Conditions == [SetConditions -> [status : ConditionStatus, gen : Nat]]

K1sResourceSetSpec ==
    [manifests : Seq(Manifests), prune : BOOLEAN, allowed : SUBSET STRING,
     policy : {"Delete", "Orphan"}]

NoSpec == [manifests |-> <<>>, prune |-> FALSE, allowed |-> {}, policy |-> "Delete"]

\* An entry of managed has the kind, namespace, name and hash of a manifest: the
\* manifest stands for it.
K1sResourceSetStatus ==
    [observedGeneration : Nat, applied : Nat, ready : BOOLEAN, managed : Seq(Manifests),
     conds : Conditions]

NoStatus ==
    [observedGeneration |-> 0, applied |-> 0, ready |-> FALSE, managed |-> <<>>,
     conds |-> [t \in SetConditions |-> NoCondition]]

NoObject ==
    [exists |-> FALSE, gen |-> 0, fin |-> {}, deleting |-> FALSE, hash |-> NoHash,
     spec |-> NoSpec, status |-> NoStatus]

hashManifestSet(ms) == hashBytes(ms)

Hashes == {hashManifestSet(s.manifests) : s \in Specs} \cup {NoHash}

K1sResourceSetRecord ==
    [exists : BOOLEAN, gen : Nat, fin : SUBSET Finalizers, deleting : BOOLEAN,
     hash : Hashes, spec : Specs \cup {NoSpec}, status : K1sResourceSetStatus]

\* An object that exists has a spec that a user wrote.
K1sResourceSetObject == {o \in K1sResourceSetRecord : o.exists => o.spec \in Specs}

NewObject(s) == [NoObject EXCEPT !.exists = TRUE, !.gen = 1, !.spec = s]

\* The values of a sequence.
Elements(seq) == {seq[i] : i \in DOMAIN seq}

-----------------------------------------------------------------------------
INSTANCE Controller

ASSUME ResourceAssumption ==
    /\ RefOf \in [Manifests -> Refs \cup {NoRef}]
    /\ KindOf \in [Refs -> STRING]
    /\ NoRef \notin Refs
    /\ NoManifest \notin Manifests
    /\ Specs \subseteq K1sResourceSetSpec
    /\ Edits \subseteq Specs \X Specs

ASSUME SetBoundAssumption ==
    /\ Faults \subseteq FaultKinds
    /\ {MaxFaults, MaxGen, MaxLives} \subseteq Nat
    /\ MaxLag \in Nat \ {0}

-----------------------------------------------------------------------------
(* Policy and bookkeeping.                                                 *)

DefaultResourceSetAllowedKinds == {"Deployment", "InferenceCell", "InferenceCellSet"}

\* The operator's cap; an empty flag means the default.
kindCap ==
    IF OperatorKinds = {} THEN DefaultResourceSetAllowedKinds ELSE OperatorKinds

\* Mutant: spec.allowedKinds replaces the operator's cap.
policyDenied_NoCap(s) == FALSE

\* allowedKindsFor returns an error: the spec asks for more than the cap.
policyDenied(s) == ~(s.allowed \subseteq kindCap)

\* allowedKindsFor: the spec narrows the cap. Lists are normalised to sets.
allowedKindsFor(s) == IF s.allowed = {} THEN kindCap ELSE s.allowed

\* A manifest has a kind and a name, and its kind is allowed.
acceptable(s, m) == RefOf[m] # NoRef /\ KindOf[RefOf[m]] \in allowedKindsFor(s)

manifestsAccepted(s) == \A m \in Elements(s.manifests) : acceptable(s, m)

\* The keys of the resources an accepted spec asks for.
desiredKeys(s) == {RefOf[m] : m \in Elements(s.manifests)}

\* The loop of pruneManagedResources passes over what the spec still lists: the rest
\* of the inventory from its first entry that the spec no longer does.
skipDesired(s, list) ==
    LET left == {i \in DOMAIN list : RefOf[list[i]] \notin desiredKeys(s)}
    IN  IF left = {} THEN <<>>
        ELSE SubSeq(list, CHOOSE i \in left : \A j \in left : i <= j, Len(list))

\* What pruneManagedResources has to delete, and the entries after it.
toPrune(o) == IF o.spec.prune THEN skipDesired(o.spec, o.status.managed) ELSE <<>>

\* Mutant: any recorded hash counts as applied.
shouldApply_OnlyOnce(o) == o.hash = NoHash

shouldApply(o) == o.hash # hashManifestSet(o.spec.manifests)

\* The kinds deleteManagedResource knows how to delete.
deletable(m) == KindOf[RefOf[m]] \in {"Deployment", "InferenceCell", "InferenceCellSet"}

-----------------------------------------------------------------------------
(* The status each path of Reconcile computes from its copy o.             *)

policyDeniedStatus(o) ==
    [o.status EXCEPT
        !.observedGeneration = o.gen,
        !.ready = FALSE,
        !.applied = 0,
        !.conds = [t \in SetConditions |->
            IF t = "CredentialsValid" THEN @[t] ELSE [status |-> "False", gen |-> o.gen]]]

\* n of the manifests went through; only a reconcile without an error replaces
\* the inventory.
reconciled(o, n, ok) ==
    [o.status EXCEPT
        !.observedGeneration = o.gen,
        !.applied = n,
        !.ready = ok,
        !.managed = IF ok THEN o.spec.manifests ELSE @,
        !.conds = [t \in SetConditions |->
            IF t = "CredentialsValid" THEN @[t]
            ELSE [status |-> conditionStatus(ok), gen |-> o.gen]]]

-----------------------------------------------------------------------------
(* Reconcile: the branches before the first call.                          *)

\* Where the deletion of the entries in list starts.
deletionStep(o, list) ==
    IF o.spec.policy # "Orphan" /\ list # <<>> THEN "deleteResources" ELSE "removeFinalizer"

\* Mutant: the deletion timestamp is not looked at.
BeginDelete_LiveToo ==
    /\ containsCapability(cached)
    /\ Enter(deletionStep(cached, cached.status.managed))
    /\ todo' = cached.status.managed

BeginDelete ==
    /\ cached.deleting
    /\ containsCapability(cached)
    /\ Enter(deletionStep(cached, cached.status.managed))
    /\ todo' = cached.status.managed

\* The object is live and guarded, and a client could be built.
Reconcilable(o) == o.exists /\ credsOK /\ ~o.deleting /\ containsCapability(o)

DenyPolicy ==
    /\ Reconcilable(cached)
    /\ policyDenied(cached.spec)
    /\ WriteStatus(cached, policyDeniedStatus(cached), "done")
    /\ UNCHANGED todo

\* One manifest is malformed or of a kind that is not allowed: nothing is pruned
\* and nothing is applied.
RejectManifest ==
    /\ Reconcilable(cached)
    /\ ~policyDenied(cached.spec)
    /\ ~manifestsAccepted(cached.spec)
    /\ WriteStatus(cached, reconciled(cached, 0, FALSE), "poll")
    /\ UNCHANGED todo

\* After the pruning: apply the manifests, or record the hash of an empty list, or
\* report that the set is applied already.
ApplyNext(o) ==
    IF ~shouldApply(o)
    THEN /\ WriteStatus(o, reconciled(o, Len(o.spec.manifests), TRUE), "poll")
         /\ todo' = <<>>
    ELSE /\ pc' = IF o.spec.manifests = <<>> THEN "patchHash" ELSE "apply"
         /\ own' = o
         /\ UNCHANGED ret
         /\ todo' = o.spec.manifests

BeginReconcile ==
    /\ Reconcilable(cached)
    /\ ~policyDenied(cached.spec)
    /\ manifestsAccepted(cached.spec)
    /\ \/ toPrune(cached) # <<>> /\ Enter("prune") /\ todo' = toPrune(cached)
       \/ toPrune(cached) = <<>> /\ ApplyNext(cached)

Start ==
    /\ pc = "idle"
    /\ queue
    /\ queue' = FALSE
    /\ \/ ReturnAtOnce /\ UNCHANGED todo
       \/ MissingCredentials /\ UNCHANGED todo
       \/ BeginDelete
       \/ BeginAddFinalizer /\ UNCHANGED todo
       \/ DenyPolicy
       \/ RejectManifest
       \/ BeginReconcile
    /\ UNCHANGED <<versions, k1s, credsOK, timer, faults, lives>>

-----------------------------------------------------------------------------
(* Reconcile: the loops of remote calls.                                   *)

\* The DELETE of an inventory entry. 404 counts as success.
Remove(m) == k1s' = [k1s EXCEPT ![RefOf[m]] = NoManifest]

\* Mutant: a 404 from k1s is an error like any other.
DeleteResource_NotFoundFails ==
    /\ pc = "deleteResources"
    /\ deletable(Head(todo))
    /\ IF k1s[RefOf[Head(todo)]] = NoManifest
       THEN /\ WriteStatus(own, deleteFailed(own), "error")
            /\ todo' = <<>>
            /\ UNCHANGED k1s
       ELSE /\ Remove(Head(todo))
            /\ todo' = Tail(todo)
            /\ IF Tail(todo) = <<>> THEN Goto("removeFinalizer") ELSE UNCHANGED <<pc, own, ret>>
    /\ UNCHANGED <<versions, credsOK, queue, timer, faults, lives>>

DeleteResource ==
    /\ pc = "deleteResources"
    /\ deletable(Head(todo))
    /\ Remove(Head(todo))
    /\ todo' = Tail(todo)
    /\ IF Tail(todo) = <<>> THEN Goto("removeFinalizer") ELSE UNCHANGED <<pc, own, ret>>
    /\ UNCHANGED <<versions, credsOK, queue, timer, faults, lives>>

\* Mutant: an entry that cannot be deleted is skipped.
DeleteResourceFails_Skipped ==
    /\ pc = "deleteResources"
    /\ \/ ~deletable(Head(todo)) /\ UNCHANGED faults
       \/ deletable(Head(todo)) /\ Disturb("callFails")
    /\ todo' = Tail(todo)
    /\ IF Tail(todo) = <<>> THEN Goto("removeFinalizer") ELSE UNCHANGED <<pc, own, ret>>
    /\ UNCHANGED <<versions, k1s, credsOK, queue, timer, lives>>

\* The deletion stops at the first error; a kind the switch does not know is one.
DeleteResourceFails ==
    /\ pc = "deleteResources"
    /\ \/ ~deletable(Head(todo)) /\ UNCHANGED <<k1s, faults>>
       \/ deletable(Head(todo)) /\ Disturb("callFails") /\ UNCHANGED k1s
       \/ deletable(Head(todo)) /\ Disturb("replyLost") /\ Remove(Head(todo))
    /\ WriteStatus(own, deleteFailed(own), "error")
    /\ todo' = <<>>
    /\ UNCHANGED <<versions, credsOK, queue, timer, lives>>

Prune ==
    /\ pc = "prune"
    /\ deletable(Head(todo))
    /\ Remove(Head(todo))
    /\ LET rest == skipDesired(own.spec, Tail(todo))
       IN  IF rest = <<>> THEN ApplyNext(own)
           ELSE todo' = rest /\ UNCHANGED <<pc, own, ret>>
    /\ UNCHANGED <<versions, credsOK, queue, timer, faults, lives>>

PruneFails ==
    /\ pc = "prune"
    /\ \/ ~deletable(Head(todo)) /\ UNCHANGED <<k1s, faults>>
       \/ deletable(Head(todo)) /\ Disturb("callFails") /\ UNCHANGED k1s
       \/ deletable(Head(todo)) /\ Disturb("replyLost") /\ Remove(Head(todo))
    /\ WriteStatus(own, reconciled(own, 0, FALSE), "poll")
    /\ todo' = <<>>
    /\ UNCHANGED <<versions, credsOK, queue, timer, lives>>

Deploy(m) == k1s' = [k1s EXCEPT ![RefOf[m]] = m]

Apply ==
    /\ pc = "apply"
    /\ Deploy(Head(todo))
    /\ todo' = Tail(todo)
    /\ IF Tail(todo) = <<>> THEN Goto("patchHash") ELSE UNCHANGED <<pc, own, ret>>
    /\ UNCHANGED <<versions, credsOK, queue, timer, faults, lives>>

\* Mutant: the loop goes on after a failed Apply and the error is forgotten.
ApplyFails_Skipped ==
    /\ pc = "apply"
    /\ Disturb("callFails")
    /\ todo' = Tail(todo)
    /\ IF Tail(todo) = <<>> THEN Goto("patchHash") ELSE UNCHANGED <<pc, own, ret>>
    /\ UNCHANGED <<versions, k1s, credsOK, queue, timer, lives>>

\* The manifests before the one that failed stay applied.
ApplyFails ==
    /\ pc = "apply"
    /\ \/ Disturb("callFails") /\ UNCHANGED k1s
       \/ Disturb("replyLost") /\ Deploy(Head(todo))
    /\ WriteStatus(own, reconciled(own, Len(own.spec.manifests) - Len(todo), FALSE), "poll")
    /\ todo' = <<>>
    /\ UNCHANGED <<versions, credsOK, queue, timer, lives>>

manifestHash == hashManifestSet(own.spec.manifests)

PatchHash ==
    /\ pc = "patchHash"
    /\ cached.exists
    /\ server.exists
    /\ StoreIfChanged(afterHash(manifestHash))
    /\ WriteStatus(own, reconciled(own, Len(own.spec.manifests), TRUE), "poll")
    /\ UNCHANGED <<k1s, credsOK, queue, timer, faults, lives, todo>>

Reconcile ==
    \/ Start
    \/ DeleteResource \/ DeleteResourceFails
    \/ (PatchFinalizers \/ PatchFinalizersFails) /\ todo' = <<>>
    \/ Prune \/ PruneFails
    \/ Apply \/ ApplyFails
    \/ PatchHash
    \/ (PatchHashFails(manifestHash) \/ PatchStatus \/ PatchStatusFails) /\ UNCHANGED todo

-----------------------------------------------------------------------------
(* The environment and the specification.                                  *)

Create(s) == CreateObject(NewObject(s))

Edit(s) ==
    /\ <<server.spec, s>> \in Edits
    /\ EditObject([server EXCEPT !.spec = s, !.gen = @ + 1])

Environment ==
    \/ \E s \in Specs : Create(s) \/ Edit(s)
    \/ Delete
    \/ AddForeign \/ RemoveForeign
    \/ LoseCredentials \/ RestoreCredentials
    \/ \E r \in Refs : OutOfBandDelete(r)

Manager == Deliver \/ TimerFires \/ Resync

Init ==
    /\ ControllerInit
    /\ k1s = [r \in Refs |-> NoManifest]
    /\ todo = <<>>

Next ==
    \/ Reconcile
    \/ (Manager \/ Environment) /\ UNCHANGED todo
    \/ Crash /\ todo' = <<>>

Spec == Init /\ [][Next]_vars

\* As for K1sApp: the reconciler, the informer and the timers make progress, the
\* resync does after credentials were missing, and the owner of a foreign finalizer
\* releases it.
Fairness ==
    /\ WF_vars(Reconcile)
    /\ WF_vars(Deliver /\ UNCHANGED todo)
    /\ WF_vars(TimerFires /\ UNCHANGED todo)
    /\ WF_vars(Resync /\ LackedCredentials(cached) /\ UNCHANGED todo)
    /\ WF_vars(RemoveForeign /\ UNCHANGED todo)

FairSpec == Spec /\ Fairness

-----------------------------------------------------------------------------
(* Properties.                                                             *)

Steps == {"idle", "deleteResources", "addFinalizer", "removeFinalizer", "prune",
          "apply", "patchHash", "patchStatus"}

\* The deployed keys.
Running == {r \in Refs : k1s[r] # NoManifest}

\* Every variable has its type; a step of Reconcile has an object to work on, a loop
\* is never entered with nothing left to do, and the apply loop never has more to
\* do than the spec lists (status.appliedResources is the difference).
TypeOK ==
    /\ versions \in Seq(K1sResourceSetObject)
    /\ Len(versions) \in 1 .. MaxLag + 1
    /\ k1s \in [Refs -> Manifests \cup {NoManifest}]
    /\ credsOK \in BOOLEAN
    /\ queue \in BOOLEAN
    /\ timer \in BOOLEAN
    /\ pc \in Steps
    /\ own \in K1sResourceSetObject
    /\ pc # "idle" => own.exists
    /\ todo \in Seq(Manifests)
    /\ pc \in {"deleteResources", "prune", "apply"} => todo # <<>>
    /\ pc = "apply" => Len(todo) <= Len(own.spec.manifests)
    /\ ret \in {"done", "poll", "error"}
    /\ faults \in 0 .. MaxFaults
    /\ lives \in 0 .. MaxLives

\* spec.allowedKinds narrows the operator's cap and never widens it
\* (docs/installation.md): nothing of another kind is ever deployed, whatever
\* specs follow one another and whatever stale copy is reconciled.
CapRespected == \A r \in Running : KindOf[r] \in kindCap

\* When the finalizer is about to be released, nothing that the reconciler's
\* inventory lists runs in k1s any more, unless the policy is Orphan.
ReleasedAfterCleanup ==
    (pc = "removeFinalizer" /\ own.spec.policy # "Orphan")
    => \A m \in Elements(own.status.managed) : RefOf[m] \notin Running

\* A set that nobody deleted is never taken down: when the deletion of the
\* inventory takes effect, the API server holds no live object with the finalizer,
\* however stale the copy that led to the call.
NeverDeleteLiveSet ==
    [][ (pc = "deleteResources" /\ k1s' # k1s) => ~GuardedLive(server) ]_vars

\* The object is not being deleted and its spec passes the policy.
LiveSet(o) ==
    o.exists /\ ~o.deleting /\ ~policyDenied(o.spec) /\ manifestsAccepted(o.spec)

\* Ready for the generation the API server holds.
ReadyNow(o) == o.status.conds["Ready"] = [status |-> "True", gen |-> o.gen]

\* k1s runs every manifest of the spec.
Deployed(s) == \A m \in Elements(s.manifests) : k1s[RefOf[m]] = m

\* Ready=True for the current generation means that k1s runs every manifest of the
\* set, in the revision of the spec: no call that failed, no copy that was stale
\* and no crash between two calls of the loop makes the operator report it early. It
\* is about a set that was created once, whose resources nobody else deletes, whose
\* lists name a resource once, and whose users never go back to a list they have
\* left: the hash that is recorded then tells whether the list was applied.
ReadyMeansDeployed ==
    (LiveSet(server) /\ ReadyNow(server)) => Deployed(server.spec)

\* Credentials come back for good.
CredentialsReturn == <>[]credsOK

\* Once users and faults are quiet, k1s runs every manifest of the set and the
\* status says so: the loop that stopped half-way is run again.
SetConverges ==
    CredentialsReturn => <>[](LiveSet(server) => Deployed(server.spec) /\ ReadyNow(server))

\* A deletion that was asked for is carried out, unless the credentials stay away.
SetDeletionCompletes ==
    CredentialsReturn => (server.deleting ~> ~server.exists)

\* k1s-side resources are deleted before the K1sResourceSet disappears
\* (docs/security-rbac.md, Finalizers).
NothingLeftBehind == Running # {} => server.exists
=============================================================================
