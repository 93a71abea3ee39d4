---------------------------- MODULE MCK1sExposure ----------------------------
(***************************************************************************)
(* Values of the constants of K1sExposure for TLC.                         *)
(***************************************************************************)
EXTENDS K1sExposure

CONSTANTS web, api

\* A plain exposure, and what an edit makes of it: another Service name and port,
\* no Ingress, the probe turned on.
Plain ==
    [service |-> web, port |-> 80, ingress |-> TRUE, ingressName |-> web, probe |-> FALSE]

Changed ==
    [service |-> api, port |-> 81, ingress |-> FALSE, ingressName |-> web, probe |-> TRUE]

ChangingSpecs == {Plain, Changed}

Change == {<<Plain, Changed>>}

\* Only the Ingress is switched off.
NoIngress == [Plain EXCEPT !.ingress = FALSE]

NoIngressSpecs == {NoIngress}

NoEdits == {}
=============================================================================
