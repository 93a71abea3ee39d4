----------------------------- MODULE Controller -----------------------------
(***************************************************************************)
(* What the capability reconcilers have in common: one custom resource,    *)
(* the informer cache that lags behind the API server, the work queue, the *)
(* calls that every reconciler makes in the same way, and the environment. *)
(*                                                                         *)
(* A reconciler module declares the variables, defines NoObject and takes  *)
(* this module with INSTANCE.                                              *)
(***************************************************************************)
EXTENDS KubeObject

CONSTANTS
    NoObject,    \* no object: what the API server and the cache then hold
    NoManifest,  \* nothing deployed under a name
    Faults,      \* the kinds of disturbance that may happen
    MaxFaults,   \* bound: disturbances in a behaviour
    MaxGen,      \* bound: metadata.generation that a user's edit may reach
    MaxLives,    \* bound: how often the object is created
    MaxLag       \* bound: undelivered watch events

VARIABLES
    versions,  \* the object as the cache has it, the undelivered versions, and
               \* last the one the API server holds
    k1s,       \* k1s: the manifest that runs under each name
    credsOK,   \* K1sCluster, Secret and write token are all there
    queue,     \* the work queue holds the object's key
    timer,     \* a RequeueAfter is pending
    pc,        \* the remote call the reconciler is about to make
    own,       \* the reconciler's own copy of the object
    ret,       \* what Reconcile returns after its last patchStatus
    faults,    \* disturbances so far
    lives      \* creations so far

FaultKinds == {"callFails", "replyLost", "crash", "credentials", "outOfBand", "foreign"}

cached == Head(versions)
server == versions[Len(versions)]

\* The manager starts before there is an object.
ControllerInit ==
    /\ versions = <<NoObject>>
    /\ credsOK = TRUE
    /\ queue = FALSE
    /\ timer = FALSE
    /\ pc = "idle"
    /\ own = NoObject
    /\ ret = "done"
    /\ faults = 0
    /\ lives = 0

-----------------------------------------------------------------------------
(* Building blocks of the steps.                                           *)

\* The API server stores o as the newest version.
Store(o) == Len(versions) <= MaxLag /\ versions' = Append(versions, o)

\* A write that leaves the object as it is produces no watch event.
StoreIfChanged(o) == IF o = server THEN UNCHANGED versions ELSE Store(o)

\* One more disturbance of the given kind.
Disturb(kind) ==
    /\ kind \in Faults
    /\ faults < MaxFaults
    /\ faults' = faults + 1

\* Reconcile goes on to its next remote call.
Goto(step) == pc' = step /\ UNCHANGED <<own, ret>>

\* Reconcile writes its status copy and then returns r: "done" (an empty
\* Result), "poll" (RequeueAfter) or "error".
WriteStatus(o, status, r) ==
    /\ pc' = "patchStatus"
    /\ own' = [o EXCEPT !.status = status]
    /\ ret' = r

\* Mutant: RequeueAfter is left out.
Return_NoPoll(r) ==
    /\ pc' = "idle"
    /\ own' = NoObject
    /\ ret' = "done"
    /\ queue' = (queue \/ r \in {"error", "requeue"})
    /\ UNCHANGED timer

\* Reconcile returns r; an error and Requeue put the key back on the queue.
Return(r) ==
    /\ pc' = "idle"
    /\ own' = NoObject
    /\ ret' = "done"
    /\ queue' = (queue \/ r \in {"error", "requeue"})
    /\ timer' = (timer \/ r = "poll")

-----------------------------------------------------------------------------
(* The start of Reconcile: the Get and writeClient.                        *)

\* The object is gone, or is going and no longer waits for the operator.
NothingToDo(o) == ~o.exists \/ (credsOK /\ o.deleting /\ ~containsCapability(o))

ReturnAtOnce ==
    /\ NothingToDo(cached)
    /\ UNCHANGED <<pc, own, ret>>

\* Mutant: the NotFound of the first Get is not handled.
Enter_NotFoundIgnored(step) ==
    /\ credsOK
    /\ pc' = step
    /\ own' = cached
    /\ UNCHANGED ret

\* From here on the object exists and the client could be built.
Enter(step) ==
    /\ cached.exists
    /\ credsOK
    /\ pc' = step
    /\ own' = cached
    /\ UNCHANGED ret

BeginAddFinalizer ==
    /\ ~cached.deleting
    /\ ~containsCapability(cached)
    /\ Enter("addFinalizer")

\* writeClient fails: a condition says so, and the error is not returned.
credentialsMissing(o) ==
    [o.status EXCEPT
        !.observedGeneration = o.gen,
        !.conds = setCondition(@, "CredentialsValid", "False", o.gen)]

\* The deletion in k1s fails.
deleteFailed(o) ==
    [o.status EXCEPT
        !.observedGeneration = o.gen,
        !.conds = setCondition(@, "Applied", "False", o.gen)]

\* A reconcile noted that it had no credentials. It returned without an error and
\* without RequeueAfter; the condition is never reset.
LackedCredentials(o) == o.status.conds["CredentialsValid"].status = "False"

MissingCredentials ==
    /\ cached.exists
    /\ ~credsOK
    /\ WriteStatus(cached, credentialsMissing(cached), "done")

-----------------------------------------------------------------------------
(* Patches of finalizers, of the hash annotation and of the status.        *)

\* Mutant: the list is written without the finalizers of others.
wantedFinalizers_OnlyOwn ==
    IF pc = "addFinalizer" THEN {capabilityFinalizer} ELSE {}

\* The finalizer list each of the two patches asks for, from the copy read at
\* the start of Reconcile.
wantedFinalizers ==
    IF pc = "addFinalizer" THEN own.fin \cup {capabilityFinalizer}
    ELSE own.fin \ {capabilityFinalizer}

afterFinalizers == patchFinalizers(server, cached, wantedFinalizers, NoObject)

PatchFinalizers ==
    /\ pc \in {"addFinalizer", "removeFinalizer"}
    /\ patchFinalizersAllowed(server, cached, wantedFinalizers)
    /\ StoreIfChanged(afterFinalizers)
    /\ Return(IF pc = "addFinalizer" THEN "requeue" ELSE "done")
    /\ UNCHANGED <<k1s, credsOK, faults, lives>>

PatchFinalizersFails ==
    /\ pc \in {"addFinalizer", "removeFinalizer"}
    /\ \/ /\ ~patchFinalizersAllowed(server, cached, wantedFinalizers)
          /\ UNCHANGED <<versions, faults>>
       \/ Disturb("callFails") /\ UNCHANGED versions
       \/ /\ Disturb("replyLost")
          /\ patchFinalizersAllowed(server, cached, wantedFinalizers)
          /\ StoreIfChanged(afterFinalizers)
    /\ Return("error")
    /\ UNCHANGED <<k1s, credsOK, lives>>

\* The API server's object after the patch of the last-applied-hash annotation.
afterHash(hash) == patchLastAppliedHash(server, cached, hash)

\* A failed patch of the hash ends Reconcile with an error.
PatchHashFails(hash) ==
    /\ pc = "patchHash"
    /\ \/ ~(cached.exists /\ server.exists) /\ UNCHANGED <<versions, faults>>
       \/ Disturb("callFails") /\ UNCHANGED versions
       \/ /\ Disturb("replyLost")
          /\ cached.exists
          /\ server.exists
          /\ StoreIfChanged(afterHash(hash))
    /\ Return("error")
    /\ UNCHANGED <<k1s, credsOK, lives>>

\* patchStatus sends the fields that differ from the cached copy, the conditions
\* as one list. resent: a message or a time in the list differs, if nothing else.
patchStatus(s, c, want, resent) ==
    [f \in DOMAIN s |->
        IF f = "conds" /\ resent THEN want[f] ELSE mergeField(s[f], c[f], want[f])]

\* fresh: what the models leave out of a status (times, messages, replica counts)
\* changes. The patch is then a new version, if of nothing else, and wakes the
\* reconciler again.
StoreStatus ==
    \E fresh, resent \in BOOLEAN :
        LET merged == patchStatus(server.status, cached.status, own.status, resent)
            o == [server EXCEPT !.status = merged]
        IN  IF fresh THEN Store(o) ELSE StoreIfChanged(o)

\* The patch that ends Reconcile.
PatchStatus ==
    /\ pc = "patchStatus"
    /\ cached.exists
    /\ server.exists
    /\ StoreStatus
    /\ Return(ret)
    /\ UNCHANGED <<k1s, credsOK, faults, lives>>

PatchStatusFails ==
    /\ pc = "patchStatus"
    /\ \/ ~(cached.exists /\ server.exists) /\ UNCHANGED <<versions, faults>>
       \/ Disturb("callFails") /\ UNCHANGED versions
       \/ Disturb("replyLost") /\ cached.exists /\ server.exists /\ StoreStatus
    /\ Return("error")
    /\ UNCHANGED <<k1s, credsOK, lives>>

-----------------------------------------------------------------------------
(* The manager around the reconciler.                                      *)

\* The informer delivers the next version, or a relist jumps over several.
Deliver ==
    /\ \E i \in 2 .. Len(versions) : versions' = SubSeq(versions, i, Len(versions))
    /\ queue' = TRUE
    /\ UNCHANGED <<k1s, credsOK, timer, pc, own, ret, faults, lives>>

\* A RequeueAfter comes due.
TimerFires ==
    /\ timer
    /\ timer' = FALSE
    /\ queue' = TRUE
    /\ UNCHANGED <<versions, k1s, credsOK, pc, own, ret, faults, lives>>

\* The informer's periodic resync hands every cached object to the queue.
Resync ==
    /\ cached.exists
    /\ ~queue
    /\ queue' = TRUE
    /\ UNCHANGED <<versions, k1s, credsOK, timer, pc, own, ret, faults, lives>>

\* The manager restarts (or another replica takes over the lease): locals, queue
\* and timers are lost, and the new cache is filled from the API server.
Crash ==
    /\ Disturb("crash")
    /\ versions' = <<server>>
    /\ pc' = "idle"
    /\ own' = NoObject
    /\ ret' = "done"
    /\ queue' = TRUE
    /\ timer' = FALSE
    /\ UNCHANGED <<k1s, credsOK, lives>>

-----------------------------------------------------------------------------
(* Users, other controllers and k1s itself.                                *)

CreateObject(o) ==
    /\ ~server.exists
    /\ lives < MaxLives
    /\ lives' = lives + 1
    /\ Store(o)
    /\ UNCHANGED <<k1s, credsOK, queue, timer, pc, own, ret, faults>>

EditObject(o) ==
    /\ server.exists
    /\ server.gen < MaxGen
    /\ Store(o)
    /\ UNCHANGED <<k1s, credsOK, queue, timer, pc, own, ret, faults, lives>>

Delete ==
    /\ server.exists
    /\ ~server.deleting
    /\ Store(deleteObject(server, NoObject))
    /\ UNCHANGED <<k1s, credsOK, queue, timer, pc, own, ret, faults, lives>>

AddForeign ==
    /\ Disturb("foreign")
    /\ server.exists
    /\ ~server.deleting
    /\ foreignFinalizer \notin server.fin
    /\ Store([server EXCEPT !.fin = @ \cup {foreignFinalizer}])
    /\ UNCHANGED <<k1s, credsOK, queue, timer, pc, own, ret, lives>>

RemoveForeign ==
    /\ server.exists
    /\ foreignFinalizer \in server.fin
    /\ Store(releaseForeign(server, NoObject))
    /\ UNCHANGED <<k1s, credsOK, queue, timer, pc, own, ret, faults, lives>>

LoseCredentials ==
    /\ credsOK
    /\ Disturb("credentials")
    /\ credsOK' = FALSE
    /\ UNCHANGED <<versions, k1s, queue, timer, pc, own, ret, lives>>

RestoreCredentials ==
    /\ ~credsOK
    /\ credsOK' = TRUE
    /\ UNCHANGED <<versions, k1s, queue, timer, pc, own, ret, faults, lives>>

\* Somebody removes the app from k1s behind the operator's back.
OutOfBandDelete(a) ==
    /\ k1s[a] # NoManifest
    /\ Disturb("outOfBand")
    /\ k1s' = [k1s EXCEPT ![a] = NoManifest]
    /\ UNCHANGED <<versions, credsOK, queue, timer, pc, own, ret, lives>>
=============================================================================
