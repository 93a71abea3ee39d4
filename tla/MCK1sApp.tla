------------------------------ MODULE MCK1sApp ------------------------------
(***************************************************************************)
(* Values of the constants of K1sApp for TLC.                              *)
(***************************************************************************)
EXTENDS K1sApp, TLC

CONSTANTS m1, m2, a1

\* Two revisions of the same app; the second follows the first.
OneApp == [m \in {m1, m2} |-> a1]

Deployments == [m \in {m1, m2} |-> "Deployment"]

\* m2 is a manifest of a kind that K1sApp refuses.
FirstDeployment == (m1 :> "Deployment") @@ (m2 :> "InferenceCell")

\* A new revision is always a new manifest.
Forward == {<<m1, m2>>}

\* A user may also go back to the earlier manifest.
BackAndForth == {<<m1, m2>>, <<m2, m1>>}
=============================================================================
