----------------------- MODULE MCK1sInferenceEndpoint -----------------------
(***************************************************************************)
(* Values of the constants of K1sInferenceEndpoint for TLC.                *)
(***************************************************************************)
EXTENDS K1sInferenceEndpoint

\* Revision r1d is r1 with its defaults written out; r2 is another one.
Revisions == [r \in {"r1", "r1d", "r2"} |-> IF r = "r1d" THEN "r1" ELSE r]

Cell(r) == [cellSet |-> FALSE, rev |-> r, policy |-> "Delete"]
Set(r) == [cellSet |-> TRUE, rev |-> r, policy |-> "Delete"]

\* A cell stays a cell and a set a set.
SameShape == {Cell("r1"), Cell("r1d"), Set("r1"), Set("r2")}

Forward == {<<Cell("r1"), Cell("r1d")>>, <<Set("r1"), Set("r2")>>}

\* A cell is made a set.
Switched == {Cell("r1"), Set("r1")}

Switch == {<<Cell("r1"), Set("r1")>>}
=============================================================================
