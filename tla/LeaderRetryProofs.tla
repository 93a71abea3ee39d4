-------------------------- MODULE LeaderRetryProofs --------------------------
(***************************************************************************)
(* Proofs about LeaderRetry, for every number of controllers, attempts,    *)
(* faults and elections.                                                   *)
(***************************************************************************)
EXTENDS LeaderRetry, TLAPS

\* Type, the budget of executions, and the truth of every 404 seen so far.
RetryInvariant ==
    /\ TypeOK
    /\ Budget
    /\ NotFoundIsTrue
    /\ GoneMeansGone
    /\ pc # "done" <=> answer = "pending"

\* What one request may do: it spends at most one execution, keeps an undeployed
\* app undeployed, and answers "ok" or "notFound" only if the app is gone.
LEMMA RequestEffect ==
  ASSUME TypeOK, NEW reply \in Replies, doJSONRequest(reply)
  PROVE  /\ leader' = leader
         /\ deployed' \in BOOLEAN
         /\ late' \in Nat
         /\ executions' \in Nat
         /\ faults' \in 0 .. MaxFaults
         /\ executions' + late' <= executions + late + 1
         /\ reply = "notLeader" => executions' + late' = executions + late
         /\ ~deployed => ~deployed'
         /\ reply \in {"ok", "notFound"} => ~deployed'
  <1>1. /\ leader' = leader
        /\ late' \in Nat
        /\ executions' \in Nat
        /\ faults' \in 0 .. MaxFaults
        /\ executions' + late' <= executions + late + 1
    BY RetryAssumption, SMT DEF doJSONRequest, Execute, Fault, TypeOK, k1sVars
  <1>2. reply = "notLeader" => executions' + late' = executions + late
    <2>1. reply = "notLeader" /\ reply # "ok" /\ reply # "notFound" /\ reply # "failed"
          => UNCHANGED <<late, executions>>
      BY Zenon DEF doJSONRequest, k1sVars
    <2> QED BY <2>1
  <1>3. deployed' = FALSE \/ deployed' = deployed
    BY Zenon DEF doJSONRequest, Execute, k1sVars
  <1>4. reply \in {"ok", "notFound"} => deployed' = FALSE
    <2>1. reply # "notLeader" /\ reply # "failed" => deployed' = FALSE
      BY Zenon DEF doJSONRequest, Execute
    <2> QED BY <2>1
  <1>5. deployed' \in BOOLEAN
    BY <1>3 DEF TypeOK
  <1>6. ~deployed => ~deployed'
    BY <1>3, Zenon
  <1>7. reply \in {"ok", "notFound"} => ~deployed'
    BY <1>4, Zenon
  <1> QED BY <1>1, <1>2, <1>5, <1>6, <1>7

\* A late request can only take the app down.
LEMMA LateEffect ==
  ASSUME TypeOK, LateRequest
  PROVE  /\ deployed' \in BOOLEAN
         /\ ~deployed => ~deployed'
  <1>1. deployed' = FALSE \/ deployed' = deployed
    BY Zenon DEF LateRequest, Execute
  <1>2. deployed' \in BOOLEAN
    BY <1>1 DEF TypeOK
  <1>3. ~deployed => ~deployed'
    BY <1>1, Zenon
  <1> QED BY <1>2, <1>3

\* The invariant holds at the start of a call.
LEMMA RetryInit == Init => RetryInvariant
  BY RetryAssumption
     DEF Init, RetryInvariant, TypeOK, Budget, NotFoundIsTrue, GoneMeansGone

\* Every step of the call and of the controllers keeps the invariant.
LEMMA RetryStep == RetryInvariant /\ [Next]_vars => RetryInvariant'
  <1> SUFFICES ASSUME RetryInvariant, [Next]_vars
               PROVE  RetryInvariant'
    OBVIOUS
  <1> USE RetryAssumption DEF RetryInvariant
  <1>1. CASE FirstRequest
    <2>1. PICK reply \in Replies :
            /\ doJSONRequest(reply)
            /\ \/ reply # "notLeader" /\ Return(reply) /\ UNCHANGED fallbackErr
               \/ reply = "notLeader" /\ Return("failed") /\ UNCHANGED fallbackErr
               \/ /\ reply = "notLeader"
                  /\ pc' \in {"advertised", "fallback"}
                  /\ fallbackErr' = reply
                  /\ UNCHANGED answer
      BY <1>1 DEF FirstRequest
    <2>2. pc = "service" /\ UNCHANGED <<attempt, leaderErr, elections>>
      BY <1>1 DEF FirstRequest
    <2> QED
      BY <2>1, <2>2, RequestEffect
         DEF TypeOK, Budget, NotFoundIsTrue, GoneMeansGone, Return, Replies
  <1>2. CASE AdvertisedRequest
    <2>1. PICK reply \in Replies :
            /\ doJSONRequest(reply)
            /\ \/ reply = "ok" /\ Return("ok") /\ UNCHANGED leaderErr
               \/ reply # "ok" /\ leaderErr' = reply /\ pc' = "fallback" /\ UNCHANGED answer
      BY <1>2 DEF AdvertisedRequest
    <2>2. pc = "advertised" /\ UNCHANGED <<attempt, fallbackErr, elections>>
      BY <1>2 DEF AdvertisedRequest
    <2> QED
      BY <2>1, <2>2, RequestEffect
         DEF TypeOK, Budget, NotFoundIsTrue, GoneMeansGone, Return, Replies
  <1>3. CASE FallbackRequest
    <2>1. PICK reply \in Replies :
            /\ doJSONRequest(reply)
            /\ \/ reply = "ok" /\ Return("ok") /\ UNCHANGED <<attempt, fallbackErr>>
               \/ /\ reply # "ok"
                  /\ stillFollower(reply)
                  /\ NextAttempt
                  /\ fallbackErr' = reply
                  /\ UNCHANGED <<pc, answer>>
               \/ /\ reply # "ok"
                  /\ ~stillFollower(reply)
                  /\ fallbackErr' = reply
                  /\ loopEnds(reply)
                  /\ UNCHANGED attempt
      BY <1>3 DEF FallbackRequest
    <2>2. pc = "fallback" /\ moreAttempts /\ UNCHANGED <<leaderErr, elections>>
      BY <1>3 DEF FallbackRequest
    <2> QED
      BY <2>1, <2>2, RequestEffect
         DEF TypeOK, Budget, NotFoundIsTrue, GoneMeansGone, Return, Replies, stillFollower,
             NextAttempt, moreAttempts, loopEnds, finalAnswer, wrapped
  <1>4. CASE Exhausted
    BY <1>4 DEF Exhausted, loopEnds, finalAnswer, wrapped, Return, k1sVars,
                TypeOK, Budget, NotFoundIsTrue, GoneMeansGone
  <1>5. CASE Cancelled
    BY <1>5 DEF Cancelled, Fault, Return, k1sVars,
                TypeOK, Budget, NotFoundIsTrue, GoneMeansGone
  <1>6. CASE LateRequest
    <2>1. /\ deployed' \in BOOLEAN
          /\ ~deployed => ~deployed'
      BY <1>6, LateEffect
    <2>2. /\ late' \in Nat
          /\ executions' \in Nat
          /\ executions' + late' <= executions + late
      BY <1>6 DEF LateRequest, Execute, TypeOK
    <2>3. UNCHANGED <<leader, pc, attempt, leaderErr, fallbackErr, answer, faults, elections>>
      BY <1>6 DEF LateRequest
    <2> QED
      BY <2>1, <2>2, <2>3 DEF TypeOK, Budget, NotFoundIsTrue, GoneMeansGone
  <1>7. ASSUME NEW n \in Nodes \cup {NoLeader}, Elect(n)
        PROVE  RetryInvariant'
    BY <1>7 DEF Elect, TypeOK, Budget, NotFoundIsTrue, GoneMeansGone
  <1>8. CASE UNCHANGED vars
    BY <1>8 DEF vars, k1sVars, TypeOK, Budget, NotFoundIsTrue, GoneMeansGone
  <1> HIDE RetryAssumption DEF RetryInvariant
  <1> QED
    BY <1>1, <1>2, <1>3, <1>4, <1>5, <1>6, <1>7, <1>8, Zenon DEF Next, Call

\* The invariant holds throughout every call.
LEMMA RetryInvariantHolds == Spec => []RetryInvariant
  BY RetryInit, RetryStep, PTL DEF Spec

\* Type correctness, and with it the number of requests: the loop of
\* doJSONWithLeaderRetry never goes past its limit.
THEOREM RetryTypeCorrect == Spec => []TypeOK
  <1>1. RetryInvariant => TypeOK
    BY DEF RetryInvariant
  <1> QED BY <1>1, RetryInvariantHolds, PTL

\* A POST sent through doJSONWithLeaderRetry is carried out at most twice,
\* requests that arrive after the client gave up included.
THEOREM AtMostTwiceHolds == Spec => []AtMostTwice
  <1>1. RetryInvariant => AtMostTwice
    BY DEF RetryInvariant, TypeOK, Budget, AtMostTwice
  <1> QED BY <1>1, RetryInvariantHolds, PTL

\* A nil error or an IsNotFound error of DeleteApp means that the app is gone.
THEOREM GoneMeansGoneHolds == Spec => []GoneMeansGone
  <1>1. RetryInvariant => GoneMeansGone
    BY DEF RetryInvariant
  <1> QED BY <1>1, RetryInvariantHolds, PTL

-----------------------------------------------------------------------------
(* The call implements K1sCall.                                            *)

\* No step deploys the app, and only a pending call is answered.
LEMMA StepEffect ==
  ASSUME RetryInvariant, [Next]_vars
  PROVE  /\ deployed' = FALSE \/ deployed' = deployed
         /\ answer' = answer \/ answer = "pending"
  <1>1. ASSUME NEW reply \in Replies, doJSONRequest(reply)
        PROVE  deployed' = FALSE \/ deployed' = deployed
    BY <1>1, Zenon DEF doJSONRequest, Execute, k1sVars
  <1>2. CASE FirstRequest
    BY <1>1, <1>2, Zenon DEF FirstRequest, RetryInvariant
  <1>3. CASE AdvertisedRequest
    BY <1>1, <1>3, Zenon DEF AdvertisedRequest, RetryInvariant
  <1>4. CASE FallbackRequest
    BY <1>1, <1>4, Zenon DEF FallbackRequest, RetryInvariant
  <1>5. CASE Exhausted \/ Cancelled
    BY <1>5 DEF Exhausted, Cancelled, k1sVars, RetryInvariant
  <1>6. CASE LateRequest
    BY <1>6, Zenon DEF LateRequest, Execute
  <1>7. ASSUME NEW n \in Nodes \cup {NoLeader}, Elect(n)
        PROVE  deployed' = deployed /\ answer' = answer
    BY <1>7 DEF Elect
  <1>8. CASE UNCHANGED vars
    BY <1>8 DEF vars, k1sVars
  <1> QED
    BY <1>2, <1>3, <1>4, <1>5, <1>6, <1>7, <1>8, Zenon DEF Next, Call

\* Every step of doJSONWithLeaderRetry is a step of the abstract call.
LEMMA CallStep ==
  ASSUME RetryInvariant, RetryInvariant', [Next]_vars
  PROVE  [DeleteCall!Next]_(DeleteCall!vars)
  <1> DEFINE told(a) == CASE a = "pending" -> "pending"
                          [] a = "failed" -> "error"
                          [] OTHER -> "gone"
  <1>1. told(answer') \in {"pending", "gone", "error"}
    OBVIOUS
  <1>2. told(answer') = "gone" => ~deployed'
    BY DEF RetryInvariant, TypeOK, GoneMeansGone
  <1>3. answer = "pending" => told(answer) = "pending"
    OBVIOUS
  <1>4. CASE answer' = answer
    BY <1>4, StepEffect
       DEF DeleteCall!Next, DeleteCall!Execute, DeleteCall!vars
  <1>5. CASE answer = "pending" /\ answer' # "pending"
    <2>1. told(answer') \in {"gone", "error"} /\ told(answer) = "pending"
      BY <1>5
    <2>2. CASE deployed' = FALSE
      BY <2>1, <2>2 DEF DeleteCall!Next, DeleteCall!ExecuteAndReport
    <2>3. CASE deployed' = deployed /\ deployed' # FALSE
      <3>1. told(answer') = "error"
        BY <2>1, <2>3, <1>2 DEF RetryInvariant, TypeOK
      <3> QED
        BY <2>1, <2>3, <3>1 DEF DeleteCall!Next, DeleteCall!ReportError
    <2> QED BY <2>2, <2>3, StepEffect
  <1> QED BY <1>4, <1>5, StepEffect

\* DeleteApp, with its redirects, retries and requests that arrive late, is one
\* command whose answer can be trusted when it says that the app is gone.
THEOREM DeleteCallImplemented == Spec => ImplementsDeleteCall
  <1>1. Init => DeleteCall!Init
    BY DEF Init, DeleteCall!Init
  <1>2. RetryInvariant /\ RetryInvariant' /\ [Next]_vars => [DeleteCall!Next]_(DeleteCall!vars)
    BY CallStep
  <1> QED
    BY <1>1, <1>2, RetryInvariantHolds, PTL DEF Spec, ImplementsDeleteCall, DeleteCall!Spec
==============================================================================
