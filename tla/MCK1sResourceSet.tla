-------------------------- MODULE MCK1sResourceSet --------------------------
(***************************************************************************)
(* Values of the constants of K1sResourceSet for TLC.                      *)
(***************************************************************************)
EXTENDS K1sResourceSet, TLC

CONSTANTS
    d1, d2,   \* two revisions of one Deployment
    i1,       \* an InferenceCell
    s1,       \* a Service, which the reconciler can apply but not delete
    bad,      \* a manifest without a kind
    rd, ri, rs

Keys ==
    (d1 :> rd) @@ (d2 :> rd) @@ (i1 :> ri) @@ (s1 :> rs) @@ (bad :> NoRef)

Kinds == (rd :> "Deployment") @@ (ri :> "InferenceCell") @@ (rs :> "Service")

\* A spec with deletePolicy Delete and without a list of its own.
Set(manifests, prune) ==
    [manifests |-> manifests, prune |-> prune, allowed |-> {}, policy |-> "Delete"]

-----------------------------------------------------------------------------
(* Two resources, then a new revision of the first alone.                  *)

Both == Set(<<d1, i1>>, TRUE)
First == Set(<<d2>>, TRUE)
Empty == Set(<<>>, TRUE)

ShrinkingSpecs == {Both, First, Empty}

Shrink == {<<Both, First>>, <<First, Empty>>}

NoEdits == {}

-----------------------------------------------------------------------------
(* Every way a spec meets the policy, with a cap of Deployment and Service. *)

DeploymentAndService == {"Deployment", "Service"}

WithService == Set(<<d1, s1>>, TRUE)
Orphaned == [Set(<<d1>>, TRUE) EXCEPT !.policy = "Orphan"]
Widened == [Set(<<i1>>, TRUE) EXCEPT !.allowed = {"InferenceCell"}]
Narrowed == [Set(<<d2, s1>>, TRUE) EXCEPT !.allowed = {"Deployment"}]
Malformed == Set(<<d1, bad>>, FALSE)

PolicySpecs == {WithService, Orphaned, Widened, Narrowed, Malformed, First}

PolicyEdits ==
    {<<First, Widened>>, <<First, Narrowed>>, <<Widened, First>>,
     <<WithService, First>>, <<WithService, Malformed>>, <<WithService, Orphaned>>}
=============================================================================
