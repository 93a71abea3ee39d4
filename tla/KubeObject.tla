----------------------------- MODULE KubeObject -----------------------------
(***************************************************************************)
(* One custom resource as the operator meets it: the API server's rules    *)
(* for finalizers and deletion, the merge patches of                       *)
(* internal/controller/patch.go, and the conditions of conditions.go.      *)
(*                                                                         *)
(* An object is a record with at least the fields                          *)
(*   exists    FALSE when the API server has no such object                *)
(*   gen       metadata.generation                                         *)
(*   fin       metadata.finalizers, as a set                               *)
(*   deleting  metadata.deletionTimestamp is set                           *)
(*   hash      the last-applied-hash annotation                            *)
(* and each module that uses this one adds its own spec and status.        *)
(***************************************************************************)
EXTENDS Naturals, Sequences, FiniteSets

capabilityFinalizer == "operator.k1s.io/capability-cleanup"

\* A finalizer that some other controller puts on the object.
foreignFinalizer == "example.com/foreign"

Finalizers == {capabilityFinalizer, foreignFinalizer}

-----------------------------------------------------------------------------
(* Conditions.                                                             *)

ConditionStatus == {"Unknown", "True", "False"}

conditionStatus(ok) == IF ok THEN "True" ELSE "False"

\* A condition that was never written.
NoCondition == [status |-> "Unknown", gen |-> 0]

\* setCondition writes the status together with the generation it was computed
\* for. Reason and message carry no decision and are left out.
setCondition(conds, type, status, gen) ==
    [conds EXCEPT ![type] = [status |-> status, gen |-> gen]]

\* setCondition for each type in the record values.
setConditions(conds, values, gen) ==
    [t \in DOMAIN conds |->
        IF t \in DOMAIN values THEN [status |-> values[t], gen |-> gen] ELSE conds[t]]

-----------------------------------------------------------------------------
(* Finalizers.                                                             *)

containsCapability(o) == capabilityFinalizer \in o.fin

\* The object exists and will outlive its deletion until the operator lets go.
Guarded(o) == o.exists /\ containsCapability(o)

\* The object exists, is guarded, and nobody asked to delete it.
GuardedLive(o) == Guarded(o) /\ ~o.deleting

\* From the first version to the last the guard is only gained, and a guarded
\* object that is being deleted stays one.
OnlyGained(vs) ==
    \A i, j \in 1 .. Len(vs) : i < j =>
        /\ Guarded(vs[i]) => Guarded(vs[j])
        /\ Guarded(vs[i]) /\ vs[i].deleting => vs[j].deleting

\* From the first version to the last the guard is only lost, and every guarded
\* version is being deleted.
OnlyLost(vs) ==
    /\ \A i \in 1 .. Len(vs) : ~GuardedLive(vs[i])
    /\ \A i, j \in 1 .. Len(vs) : i < j /\ Guarded(vs[j]) => Guarded(vs[i])

\* A finalizer patch is the difference between the CACHED list and the wanted
\* one, sent as a whole list and without a resourceVersion. The API server
\* refuses to add a finalizer to an object that is being deleted.
patchFinalizersAllowed(server, cached, want) ==
    /\ cached.exists
    /\ server.exists
    /\ \/ cached.fin = want
       \/ ~server.deleting
       \/ want \subseteq server.fin

\* What the API server holds once the patch is applied: an empty difference
\* changes nothing, and the last finalizer of an object that is being deleted
\* takes the object with it.
patchFinalizers(server, cached, want, gone) ==
    IF cached.fin = want THEN server
    ELSE IF server.deleting /\ want = {} THEN gone
    ELSE [server EXCEPT !.fin = want]

\* DELETE: an object without finalizers goes at once, any other gets its
\* deletionTimestamp, which also moves its generation.
deleteObject(o, gone) ==
    IF o.fin = {} THEN gone
    ELSE [o EXCEPT !.deleting = TRUE, !.gen = @ + 1]

\* Another controller releases its finalizer.
releaseForeign(o, gone) ==
    LET left == o.fin \ {foreignFinalizer}
    IN  IF o.deleting /\ left = {} THEN gone ELSE [o EXCEPT !.fin = left]

-----------------------------------------------------------------------------
(* Hashes and merge patches.                                               *)

\* SHA-256 of a manifest, taken to be injective; the tag keeps a hash apart
\* from the manifest itself.
hashBytes(m) == <<"sha256", m>>

\* The value of the annotation on an object that never had it.
NoHash == <<"none">>

\* The annotation patch: nothing is sent when the CACHED copy already has it.
patchLastAppliedHash(server, cached, hash) ==
    IF cached.hash = hash THEN server ELSE [server EXCEPT !.hash = hash]

\* One field of a merge patch: sent only if it differs from the cached copy.
mergeField(server, cached, want) == IF cached = want THEN server ELSE want
=============================================================================
