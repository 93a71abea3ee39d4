------------------------------- MODULE K1sCall -------------------------------
(***************************************************************************)
(* What the reconcilers take a DeleteApp to be: a command that k1s carries *)
(* out at some moment, or never, and an answer that may be trusted when it *)
(* says that the app is gone.                                              *)
(***************************************************************************)
VARIABLES
    deployed,  \* k1s runs the app
    answer     \* what the caller was told: "pending", "gone" or "error"

vars == <<deployed, answer>>

Init == deployed \in BOOLEAN /\ answer = "pending"

\* The command takes effect; it may do so after the caller gave up on it.
Execute == deployed' = FALSE /\ UNCHANGED answer

\* The caller hears that the app is gone only if it is.
ReportGone == answer = "pending" /\ ~deployed /\ answer' = "gone" /\ UNCHANGED deployed

ReportError == answer = "pending" /\ answer' = "error" /\ UNCHANGED deployed

\* Effect and answer in one step.
ExecuteAndReport ==
    /\ answer = "pending"
    /\ deployed' = FALSE
    /\ answer' \in {"gone", "error"}

Next == Execute \/ ReportGone \/ ReportError \/ ExecuteAndReport

Spec == Init /\ [][Next]_vars
==============================================================================
