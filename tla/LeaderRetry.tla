----------------------------- MODULE LeaderRetry -----------------------------
(***************************************************************************)
(* doJSONWithLeaderRetry of internal/k1s/client.go for one DeleteApp call: *)
(* the Service URL, then the leader that a follower advertised, then the   *)
(* Service URL again while followers answer, against k1s controllers whose *)
(* leadership changes meanwhile.                                           *)
(***************************************************************************)
EXTENDS Naturals

CONSTANTS
    Nodes,         \* the k1s controllers behind the Service
    NoLeader,      \* nobody leads
    leaderServiceFallbackAttempts,
    MaxFaults,     \* bound: lost requests, lost replies and cancellations
    MaxElections   \* bound: changes of leadership

ASSUME RetryAssumption ==
    /\ NoLeader \notin Nodes
    /\ leaderServiceFallbackAttempts \in Nat
    /\ MaxFaults \in Nat
    /\ MaxElections \in Nat

VARIABLES
    leader,      \* the node that carries out commands
    deployed,    \* the app runs in k1s
    late,        \* requests the client gave up on that may still arrive
    executions,  \* how often k1s carried out the command
    pc,          \* the request to send next: "service", "advertised", "fallback"
    attempt,     \* the counter of the fallback loop
    leaderErr,   \* error of the request to the advertised leader, or "none"
    fallbackErr, \* error of the last request to the Service URL, or "none"
    answer,      \* "pending", or what the call returns
    faults, elections

k1sVars == <<leader, deployed, late, executions>>
vars == <<k1sVars, pc, attempt, leaderErr, fallbackErr, answer, faults, elections>>

\* What doJSONRequest returns: nil, an APIError of 404, a notLeaderError, or any
\* other error (connection, timeout, decoding, another status).
Replies == {"ok", "notFound", "notLeader", "failed"}

-----------------------------------------------------------------------------
(* One request.                                                            *)

\* The leader carries the command out; a purge of an unknown app answers 404.
Execute ==
    /\ leader \in Nodes
    /\ executions' = executions + 1
    /\ deployed' = FALSE

Fault == faults < MaxFaults /\ faults' = faults + 1

\* doJSONRequest against a node that leads, a node that follows, or a node whose
\* answer does not make it back: the request was lost, was carried out all the
\* same, or is still under way when the client gives up.
doJSONRequest(reply) ==
    \/ /\ Execute
       /\ reply = IF deployed THEN "ok" ELSE "notFound"
       /\ UNCHANGED <<leader, late, faults>>
    \/ /\ reply = "notLeader"
       /\ \E n \in Nodes : n # leader
       /\ UNCHANGED <<k1sVars, faults>>
    \/ reply = "failed" /\ Fault /\ UNCHANGED k1sVars
    \/ reply = "failed" /\ Fault /\ Execute /\ UNCHANGED <<leader, late>>
    \/ /\ reply = "failed"
       /\ Fault
       /\ late' = late + 1
       /\ UNCHANGED <<leader, deployed, executions>>

-----------------------------------------------------------------------------
(* The call.                                                               *)

Return(a) == answer' = a /\ pc' = "done"

\* The first request goes to the Service URL. Only a notLeaderError is followed
\* up: with an address, without one, or (an error) with one that does not parse.
FirstRequest ==
    /\ pc = "service"
    /\ \E reply \in Replies :
          /\ doJSONRequest(reply)
          /\ \/ reply # "notLeader" /\ Return(reply) /\ UNCHANGED fallbackErr
             \/ reply = "notLeader" /\ Return("failed") /\ UNCHANGED fallbackErr
             \/ /\ reply = "notLeader"
                /\ pc' \in {"advertised", "fallback"}
                /\ fallbackErr' = reply
                /\ UNCHANGED answer
    /\ UNCHANGED <<attempt, leaderErr, elections>>

\* Mutant: the error of the advertised leader is not looked at.
AdvertisedRequest_ErrorDropped ==
    /\ pc = "advertised"
    /\ \E reply \in Replies : doJSONRequest(reply) /\ Return("ok")
    /\ UNCHANGED <<attempt, leaderErr, fallbackErr, elections>>

AdvertisedRequest ==
    /\ pc = "advertised"
    /\ \E reply \in Replies :
          /\ doJSONRequest(reply)
          /\ \/ reply = "ok" /\ Return("ok") /\ UNCHANGED leaderErr
             \/ reply # "ok" /\ leaderErr' = reply /\ pc' = "fallback" /\ UNCHANGED answer
    /\ UNCHANGED <<attempt, fallbackErr, elections>>

\* The error after the loop wraps the error of the advertised leader if there
\* was one (%w), and only otherwise that of the Service URL; the other is printed.
\* IsNotFound finds a 404 only in what is wrapped.
wrapped(last) == IF leaderErr # "none" THEN leaderErr ELSE last

finalAnswer(last) == IF wrapped(last) = "notFound" THEN "notFound" ELSE "failed"

\* Mutant: an exhausted loop is not an error.
loopEnds_Swallowed(reply) == Return(IF reply = "notLeader" THEN "ok" ELSE finalAnswer(reply))

loopEnds(reply) == Return(finalAnswer(reply))

\* Mutant: the loop goes on after every error.
stillFollower_Any(reply) == reply # "ok"

stillFollower(reply) == reply = "notLeader"

\* Mutant: one turn too many.
moreAttempts_OneMore == attempt <= leaderServiceFallbackAttempts

\* The loop condition.
moreAttempts == attempt < leaderServiceFallbackAttempts

NextAttempt == attempt' = attempt + 1

\* The wait before each attempt may end with the context.
Cancelled ==
    /\ pc = "fallback"
    /\ moreAttempts
    /\ Fault
    /\ Return("failed")
    /\ UNCHANGED <<k1sVars, attempt, leaderErr, fallbackErr, elections>>

FallbackRequest ==
    /\ pc = "fallback"
    /\ moreAttempts
    /\ \E reply \in Replies :
          /\ doJSONRequest(reply)
          /\ \/ reply = "ok" /\ Return("ok") /\ UNCHANGED <<attempt, fallbackErr>>
             \/ /\ reply # "ok"
                /\ stillFollower(reply)
                /\ NextAttempt
                /\ fallbackErr' = reply
                /\ UNCHANGED <<pc, answer>>
             \/ /\ reply # "ok"
                /\ ~stillFollower(reply)
                /\ fallbackErr' = reply
                /\ loopEnds(reply)
                /\ UNCHANGED attempt
    /\ UNCHANGED <<leaderErr, elections>>

\* Mutant: the call starts over.
Exhausted_StartOver ==
    /\ pc = "fallback"
    /\ ~moreAttempts
    /\ pc' = "service"
    /\ attempt' = 0
    /\ UNCHANGED <<k1sVars, leaderErr, fallbackErr, answer, faults, elections>>

\* Only followers answered, up to the last attempt.
Exhausted ==
    /\ pc = "fallback"
    /\ ~moreAttempts
    /\ loopEnds(fallbackErr)
    /\ UNCHANGED <<k1sVars, attempt, leaderErr, fallbackErr, faults, elections>>

Call == FirstRequest \/ AdvertisedRequest \/ FallbackRequest \/ Exhausted \/ Cancelled

-----------------------------------------------------------------------------
(* The k1s controllers.                                                    *)

\* Leadership moves, or is lost.
Elect(n) ==
    /\ n # leader
    /\ elections < MaxElections
    /\ elections' = elections + 1
    /\ leader' = n
    /\ UNCHANGED <<deployed, late, executions, pc, attempt, leaderErr, fallbackErr, answer, faults>>

\* A request the client gave up on arrives, at the leader or elsewhere.
LateRequest ==
    /\ late > 0
    /\ late' = late - 1
    /\ \/ Execute
       \/ UNCHANGED <<deployed, executions>>
    /\ UNCHANGED <<leader, pc, attempt, leaderErr, fallbackErr, answer, faults, elections>>

Init ==
    /\ leader \in Nodes \cup {NoLeader}
    /\ deployed \in BOOLEAN
    /\ late = 0
    /\ executions = 0
    /\ pc = "service"
    /\ attempt = 0
    /\ leaderErr = "none"
    /\ fallbackErr = "none"
    /\ answer = "pending"
    /\ faults = 0
    /\ elections = 0

Next ==
    \/ Call
    \/ LateRequest
    \/ \E n \in Nodes \cup {NoLeader} : Elect(n)

Spec == Init /\ [][Next]_vars

\* The client's goroutine runs; nothing is assumed of k1s.
FairSpec == Spec /\ WF_vars(Call)

-----------------------------------------------------------------------------
(* Properties.                                                             *)

\* Every variable has its type, and the call sends at most one request to the
\* advertised leader and leaderServiceFallbackAttempts after it.
TypeOK ==
    /\ leader \in Nodes \cup {NoLeader}
    /\ deployed \in BOOLEAN
    /\ late \in Nat
    /\ executions \in Nat
    /\ pc \in {"service", "advertised", "fallback", "done"}
    /\ attempt \in 0 .. leaderServiceFallbackAttempts
    /\ leaderErr \in {"none", "notFound", "notLeader", "failed"}
    /\ fallbackErr \in {"none", "notFound", "notLeader", "failed"}
    /\ answer \in {"pending", "ok", "notFound", "failed"}
    /\ faults \in 0 .. MaxFaults
    /\ elections \in 0 .. MaxElections

\* A retried POST is carried out at most twice, whoever leads when: once by the
\* advertised leader and once through the Service, late requests included.
AtMostTwice == executions <= 2

\* The finalizer may be released on this answer: a nil error or IsNotFound from
\* DeleteApp means that k1s does not run the app.
GoneMeansGone == answer \in {"ok", "notFound"} => ~deployed

\* The call returns, however often leadership changes.
CallReturns == <>(answer # "pending")

\* What makes AtMostTwice inductive: how often the command was or may still be
\* carried out at each point of the call.
Budget ==
    executions + late <=
        CASE pc \in {"service", "advertised"} -> 0
          [] pc = "fallback" -> 1
          [] OTHER -> 2

\* What makes GoneMeansGone inductive: a 404 remembered from either side.
NotFoundIsTrue == "notFound" \in {leaderErr, fallbackErr} => ~deployed

DeleteCall == INSTANCE K1sCall WITH
    answer <- CASE answer = "pending" -> "pending"
                [] answer = "failed" -> "error"
                [] OTHER -> "gone"

\* With all its retries, the call is still one command with a trustworthy answer.
ImplementsDeleteCall == DeleteCall!Spec
=============================================================================
