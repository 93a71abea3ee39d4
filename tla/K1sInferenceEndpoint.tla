------------------------ MODULE K1sInferenceEndpoint ------------------------
(***************************************************************************)
(* The K1sInferenceEndpoint reconciler of capability_controller.go for one *)
(* object. Its spec describes either an InferenceCell or an                *)
(* InferenceCellSet; the manifest is built from the spec, the rest goes as *)
(* for a K1sApp: a step is one remote call and the computation after it.   *)
(***************************************************************************)
EXTENDS KubeObject, K1sStatus

CONSTANTS
    Specs,       \* the specs users write: records with fields cellSet, rev, policy
    Edits,       \* the changes <<s, t>> of the spec users make
    Normal,      \* a revision of the spec with its defaults filled in
    Replicas,    \* the cells of a cell set
    NoManifest,  \* nothing deployed in a collection
    Faults,      \* the kinds of disturbance that may happen
    MaxFaults,   \* bound: disturbances in a behaviour
    MaxGen,      \* bound: metadata.generation that a user's edit may reach
    MaxLives,    \* bound: how often the object is created
    MaxLag       \* bound: undelivered watch events

VARIABLES versions, k1s, credsOK, queue, timer, pc, own, ret, faults, lives,
    removed  \* somebody removed cells from k1s behind the operator's back

vars == <<versions, k1s, credsOK, queue, timer, pc, own, ret, faults, lives, removed>>

Kinds == {"InferenceCell", "InferenceCellSet"}

kindOf(s) == IF s.cellSet THEN "InferenceCellSet" ELSE "InferenceCell"

\* A default that the user leaves out is written into the manifest.
buildInferenceManifest(s) == [kind |-> kindOf(s), rev |-> Normal[s.rev]]

-----------------------------------------------------------------------------
(* The object.                                                             *)

K1sInferenceEndpointSpec ==
    [cellSet : BOOLEAN, rev : DOMAIN Normal, policy : {"Delete", "Orphan"}]

NoSpec == [cellSet |-> FALSE, rev |-> NoManifest, policy |-> "Delete"]

ConditionTypes == {"CredentialsValid", "Accepted", "Applied", "Ready"}

Conditions == [ConditionTypes -> [status : ConditionStatus, gen : Nat]]

\* The names and lastError are empty or not; phase, endpoint, executor and times
\* carry no decision.
K1sInferenceEndpointStatus ==
    [observedGeneration : Nat, ready : BOOLEAN, cellName : BOOLEAN,
     cellSetName : BOOLEAN, lastError : BOOLEAN, conds : Conditions]

NoStatus ==
    [observedGeneration |-> 0, ready |-> FALSE, cellName |-> FALSE,
     cellSetName |-> FALSE, lastError |-> FALSE,
     conds |-> [t \in ConditionTypes |-> NoCondition]]

Hashes == {hashBytes(buildInferenceManifest(s)) : s \in Specs} \cup {NoHash}

K1sInferenceEndpointRecord ==
    [exists : BOOLEAN, gen : Nat, fin : SUBSET Finalizers, deleting : BOOLEAN,
     hash : Hashes, spec : Specs \cup {NoSpec}, status : K1sInferenceEndpointStatus]

\* An object that exists has a spec.
K1sInferenceEndpointObject ==
    {o \in K1sInferenceEndpointRecord : o.exists => o.spec \in Specs}

NoObject ==
    [exists |-> FALSE, gen |-> 0, fin |-> {}, deleting |-> FALSE, hash |-> NoHash,
     spec |-> NoSpec, status |-> NoStatus]

NewObject(s) == [NoObject EXCEPT !.exists = TRUE, !.gen = 1, !.spec = s]

-----------------------------------------------------------------------------
INSTANCE Controller

\* What runs in a collection: a revision, and the cells of it that are up.
Deployments == [rev : {Normal[r] : r \in DOMAIN Normal}, up : Nat]

ASSUME SpecAssumption ==
    /\ Specs \subseteq K1sInferenceEndpointSpec
    /\ Edits \subseteq Specs \X Specs
    /\ NoManifest \notin DOMAIN Normal
    /\ NoManifest \notin Deployments
    /\ Replicas \in 1 .. MaxNumeral

ASSUME EndpointBoundAssumption ==
    /\ Faults \subseteq FaultKinds
    /\ {MaxFaults, MaxGen, MaxLives} \subseteq Nat
    /\ MaxLag \in Nat \ {0}

-----------------------------------------------------------------------------
(* k1s as the calls of client.go meet it.                                  *)

\* The cells a manifest of this kind asks for.
Cells(kind) == IF kind = "InferenceCellSet" THEN Replicas ELSE 1

\* POST /apply: a manifest that runs already keeps its cells, another one starts
\* its own.
applied(m) ==
    [k1s EXCEPT ![m.kind] =
        IF @ # NoManifest /\ @.rev = m.rev THEN @ ELSE [rev |-> m.rev, up |-> 0]]

\* POST /inference/delete/cells or cellsets, by the name of the endpoint.
deleted(kind) == [k1s EXCEPT ![kind] = NoManifest]

\* GET /inference/cells or cellsets: a cell that serves is ready or has a phase
\* that says so; a set counts.
inferenceReplies(kind) ==
    LET up == k1s[kind].up
        reply == [kind |-> Str(kind), ready |-> Absent, desired |-> Absent,
                  phase |-> Absent, status |-> Str("Running"), last_error |-> Absent]
    IN  CASE kind = "InferenceCellSet" ->
                {[reply EXCEPT !.ready = Num(up), !.desired = Num(Replicas)]}
          [] kind = "InferenceCell" /\ up = 0 ->
                {[reply EXCEPT !.ready = Bool(FALSE), !.phase = Str("Pending")],
                 [reply EXCEPT !.phase = Str("Failed"), !.last_error = Str("no memory")]}
          [] OTHER ->
                {[reply EXCEPT !.ready = Bool(TRUE)], [reply EXCEPT !.ready = Str("True")],
                 [reply EXCEPT !.status = Str("READY")]}

-----------------------------------------------------------------------------
(* The status each path of Reconcile computes from its copy o.             *)

reconciled(o, ok, ready, error) ==
    [o.status EXCEPT
        !.observedGeneration = o.gen,
        !.ready = ready,
        !.cellName = ~o.spec.cellSet,
        !.cellSetName = o.spec.cellSet,
        !.lastError = error,
        !.conds = setConditions(@,
            [Accepted |-> "True", Applied |-> conditionStatus(ok),
             Ready |-> conditionStatus(ready)], o.gen)]

\* The answer of k1s, parsed, goes into the status.
applyObservedInferenceStatus ==
    \E reply \in inferenceReplies(kindOf(own.spec)) :
        WriteStatus(own, reconciled(own, TRUE, ParseInferenceStatus(reply).ready,
                                    str(reply.last_error) # ""), "poll")

-----------------------------------------------------------------------------
(* Reconcile. The CRD requires spec.model.modelId, so buildInferenceManifest *)
(* never fails and its error path is left out.                              *)

BeginDelete ==
    /\ cached.deleting
    /\ containsCapability(cached)
    /\ Enter(IF cached.spec.policy # "Orphan" THEN "deleteInference" ELSE "removeFinalizer")

manifestHash(o) == hashBytes(buildInferenceManifest(o.spec))

\* Mutant: the generation, not the manifest, decides whether to apply.
BeginApply_ByGeneration ==
    /\ ~cached.deleting
    /\ containsCapability(cached)
    /\ Enter(IF cached.status.observedGeneration # cached.gen THEN "apply" ELSE "checkStatus")

BeginApply ==
    /\ ~cached.deleting
    /\ containsCapability(cached)
    /\ Enter(IF cached.hash # manifestHash(cached) THEN "apply" ELSE "checkStatus")

Start ==
    /\ pc = "idle"
    /\ queue
    /\ queue' = FALSE
    /\ \/ ReturnAtOnce
       \/ MissingCredentials
       \/ BeginDelete
       \/ BeginAddFinalizer
       \/ BeginApply
    /\ UNCHANGED <<versions, k1s, credsOK, timer, faults, lives>>

\* Mutant: a 404 from k1s is an error like any other.
DeleteInference_NotFoundFails ==
    /\ pc = "deleteInference"
    /\ IF k1s[kindOf(own.spec)] = NoManifest
       THEN WriteStatus(own, deleteFailed(own), "error") /\ UNCHANGED k1s
       ELSE k1s' = deleted(kindOf(own.spec)) /\ Goto("removeFinalizer")
    /\ UNCHANGED <<versions, credsOK, queue, timer, faults, lives>>

\* The collection is chosen by the spec in the copy; a 404 counts as success.
DeleteInference ==
    /\ pc = "deleteInference"
    /\ k1s' = deleted(kindOf(own.spec))
    /\ Goto("removeFinalizer")
    /\ UNCHANGED <<versions, credsOK, queue, timer, faults, lives>>

\* Mutant: the finalizer goes although the delete failed.
DeleteInferenceFails_Swallowed ==
    /\ pc = "deleteInference"
    /\ Disturb("callFails")
    /\ Goto("removeFinalizer")
    /\ UNCHANGED <<versions, k1s, credsOK, queue, timer, lives>>

DeleteInferenceFails ==
    /\ pc = "deleteInference"
    /\ \/ Disturb("callFails") /\ UNCHANGED k1s
       \/ Disturb("replyLost") /\ k1s' = deleted(kindOf(own.spec))
    /\ WriteStatus(own, [deleteFailed(own) EXCEPT !.lastError = TRUE], "error")
    /\ UNCHANGED <<versions, credsOK, queue, timer, lives>>

\* The first inferenceStatusForEndpoint, asked when the hash says the manifest is
\* applied: a 404 leads to Apply, any other error to a second question.
CheckStatus ==
    /\ pc = "checkStatus"
    /\ \/ k1s[kindOf(own.spec)] = NoManifest /\ Goto("apply") /\ UNCHANGED faults
       \/ /\ k1s[kindOf(own.spec)] # NoManifest
          /\ applyObservedInferenceStatus
          /\ UNCHANGED faults
       \/ Disturb("callFails") /\ Goto("readStatus")
    /\ UNCHANGED <<versions, k1s, credsOK, queue, timer, lives>>

Apply ==
    /\ pc = "apply"
    /\ k1s' = applied(buildInferenceManifest(own.spec))
    /\ Goto("patchHash")
    /\ UNCHANGED <<versions, credsOK, queue, timer, faults, lives>>

\* A failed Apply is reported in status and retried at the next poll.
ApplyFails ==
    /\ pc = "apply"
    /\ \/ Disturb("callFails") /\ UNCHANGED k1s
       \/ Disturb("replyLost") /\ k1s' = applied(buildInferenceManifest(own.spec))
    /\ WriteStatus(own, reconciled(own, FALSE, FALSE, TRUE), "poll")
    /\ UNCHANGED <<versions, credsOK, queue, timer, lives>>

PatchHash ==
    /\ pc = "patchHash"
    /\ cached.exists
    /\ server.exists
    /\ StoreIfChanged(afterHash(manifestHash(own)))
    /\ Goto("readStatus")
    /\ UNCHANGED <<k1s, credsOK, queue, timer, faults, lives>>

\* The second inferenceStatusForEndpoint: every error means not ready.
ReadStatus ==
    /\ pc = "readStatus"
    /\ \/ /\ k1s[kindOf(own.spec)] # NoManifest
          /\ applyObservedInferenceStatus
          /\ UNCHANGED faults
       \/ /\ \/ k1s[kindOf(own.spec)] = NoManifest /\ UNCHANGED faults
             \/ Disturb("callFails")
          /\ WriteStatus(own, reconciled(own, TRUE, FALSE, TRUE), "poll")
    /\ UNCHANGED <<versions, k1s, credsOK, queue, timer, lives>>

Reconcile ==
    \/ Start
    \/ DeleteInference \/ DeleteInferenceFails
    \/ PatchFinalizers \/ PatchFinalizersFails
    \/ CheckStatus
    \/ Apply \/ ApplyFails
    \/ PatchHash \/ PatchHashFails(manifestHash(own))
    \/ ReadStatus
    \/ PatchStatus \/ PatchStatusFails

-----------------------------------------------------------------------------
(* Users and k1s.                                                          *)

Create(s) == CreateObject(NewObject(s))

Edit(s) ==
    /\ <<server.spec, s>> \in Edits
    /\ EditObject([server EXCEPT !.spec = s, !.gen = @ + 1])

\* k1s brings up one more cell.
CellStarts(kind) ==
    /\ k1s[kind] # NoManifest
    /\ k1s[kind].up < Cells(kind)
    /\ k1s' = [k1s EXCEPT ![kind].up = @ + 1]
    /\ UNCHANGED <<versions, credsOK, queue, timer, pc, own, ret, faults, lives>>

Environment ==
    \/ \E s \in Specs : Create(s) \/ Edit(s)
    \/ Delete
    \/ AddForeign \/ RemoveForeign
    \/ LoseCredentials \/ RestoreCredentials
    \/ \E kind \in Kinds : CellStarts(kind)

Init ==
    /\ ControllerInit
    /\ k1s = [kind \in Kinds |-> NoManifest]
    /\ removed = FALSE

Next ==
    \/ /\ Reconcile \/ Deliver \/ TimerFires \/ Resync \/ Crash \/ Environment
       /\ UNCHANGED removed
    \/ \E kind \in Kinds : OutOfBandDelete(kind) /\ removed' = TRUE

Spec == Init /\ [][Next]_vars

\* The reconciler's goroutine, the informer, the timers and k1s make progress, and
\* whoever owns the foreign finalizer releases it. As for K1sApp the resync is only
\* counted on after credentials were missing.
Fairness ==
    /\ WF_vars(Reconcile /\ UNCHANGED removed)
    /\ WF_vars(Deliver /\ UNCHANGED removed)
    /\ WF_vars(TimerFires /\ UNCHANGED removed)
    /\ WF_vars(Resync /\ LackedCredentials(cached) /\ UNCHANGED removed)
    /\ WF_vars(RemoveForeign /\ UNCHANGED removed)
    /\ \A kind \in Kinds : WF_vars(CellStarts(kind) /\ UNCHANGED removed)

FairSpec == Spec /\ Fairness

-----------------------------------------------------------------------------
(* Properties.                                                             *)

Steps == {"idle", "deleteInference", "addFinalizer", "removeFinalizer", "checkStatus",
          "apply", "patchHash", "readStatus", "patchStatus"}

\* Every variable has its type; a step of Reconcile has an object to work on, and
\* k1s runs no more cells than were asked for.
TypeOK ==
    /\ versions \in Seq(K1sInferenceEndpointObject)
    /\ Len(versions) \in 1 .. MaxLag + 1
    /\ k1s \in [Kinds -> Deployments \cup {NoManifest}]
    /\ \A kind \in Kinds : k1s[kind] # NoManifest => k1s[kind].up <= Cells(kind)
    /\ {credsOK, queue, timer, removed} \subseteq BOOLEAN
    /\ pc \in Steps
    /\ own \in K1sInferenceEndpointObject
    /\ pc # "idle" => own.exists
    /\ ret \in {"done", "poll", "error"}
    /\ faults \in 0 .. MaxFaults
    /\ lives \in 0 .. MaxLives

\* k1s runs what the spec asks for, with all its cells.
Serving(o) ==
    k1s[kindOf(o.spec)] = [rev |-> Normal[o.spec.rev], up |-> Cells(kindOf(o.spec))]

Live(o) == o.exists /\ ~o.deleting

\* Ready=True for the current generation means that k1s serves the spec, whatever
\* answers, faults and stale copies came before. Three things are excepted: somebody
\* took cells away behind the operator's back, which it learns of at the next poll;
\* an object created anew may get the status of its predecessor, since patchStatus
\* goes by name; and users who go back to a revision they have left may find its
\* old hash still recorded.
ReadyMeansServing ==
    LET ready == server.status.conds["Ready"]
    IN  (Live(server) /\ ready.status = "True" /\ ready.gen = server.gen
          /\ ~removed /\ lives = 1)
        => Serving(server)

\* k1s-side resources are deleted before the endpoint disappears: what k1s runs
\* belongs to an object that exists and carries the finalizer
\* (docs/security-rbac.md, Finalizers).
CleanupBeforeGone == (\E kind \in Kinds : k1s[kind] # NoManifest) => Guarded(server)

\* The reconciler implements the contract of its finalizer: it deploys only under
\* the guard, takes down only what is going, and releases the guard last.
Contract == INSTANCE FinalizerContract WITH
    Resources <- Kinds,
    present <- server.exists,
    guarded <- Guarded(server),
    remote <- {kind \in Kinds : k1s[kind] # NoManifest}

ImplementsContract == Contract!Spec

\* The status tells that the spec is served.
Reported(o) ==
    /\ o.status.observedGeneration = o.gen
    /\ o.status.conds["Ready"] = [status |-> "True", gen |-> o.gen]
    /\ o.status.ready
    /\ ~o.status.lastError
    /\ o.status.cellName = ~o.spec.cellSet
    /\ o.status.cellSetName = o.spec.cellSet

\* Credentials come back for good.
CredentialsReturn == <>[]credsOK

\* Once users and faults are quiet, k1s serves the spec, and the status says so
\* for the current generation: ready, named after the right kind, and without the
\* error of an earlier attempt.
EndpointConverges ==
    CredentialsReturn =>
        <>[](Live(server) => Serving(server) /\ Reported(server))

\* A deletion that was asked for is carried out, unless the credentials stay away.
DeletionCompletes ==
    CredentialsReturn => (server.deleting ~> ~server.exists)
=============================================================================
