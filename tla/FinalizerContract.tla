-------------------------- MODULE FinalizerContract --------------------------
(***************************************************************************)
(* What the capability finalizer promises, without caches, patches or      *)
(* retries: an object is guarded before anything is deployed for it, and   *)
(* the guard is given up only when nothing of it is left in k1s            *)
(* (docs/security-rbac.md, Finalizers).                                    *)
(***************************************************************************)
CONSTANT Resources  \* what the object may have k1s run

VARIABLES
    present,  \* the object exists in Kubernetes
    guarded,  \* it carries the operator's finalizer
    remote    \* the resources k1s runs for it

vars == <<present, guarded, remote>>

TypeOK ==
    /\ present \in BOOLEAN
    /\ guarded \in BOOLEAN
    /\ remote \in SUBSET Resources

Init == ~present /\ ~guarded /\ remote = {}

\* A user creates the object.
Create ==
    /\ ~present
    /\ present' = TRUE
    /\ UNCHANGED <<guarded, remote>>

\* The operator takes responsibility for it.
Guard ==
    /\ present
    /\ guarded' = TRUE
    /\ UNCHANGED <<present, remote>>

\* Resources appear in k1s only under the guard.
Deploy(r) ==
    /\ guarded
    /\ remote' = remote \cup {r}
    /\ UNCHANGED <<present, guarded>>

\* Resources may go at any time.
Undeploy(r) ==
    /\ remote' = remote \ {r}
    /\ UNCHANGED <<present, guarded>>

\* The guard goes last; the object may go with it or wait for other finalizers.
Release ==
    /\ guarded
    /\ remote = {}
    /\ guarded' = FALSE
    /\ present' \in BOOLEAN
    /\ UNCHANGED remote

\* An object nobody guards disappears.
Remove ==
    /\ present
    /\ ~guarded
    /\ present' = FALSE
    /\ UNCHANGED <<guarded, remote>>

Next ==
    \/ Create \/ Guard \/ Release \/ Remove
    \/ \E r \in Resources : Deploy(r) \/ Undeploy(r)

Spec == Init /\ [][Next]_vars
=============================================================================
