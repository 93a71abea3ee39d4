----------------------------- MODULE K1sStatus -----------------------------
(***************************************************************************)
(* internal/k1s/status.go: how the answers of the k1s controller are read. *)
(* A field of a decoded JSON object is absent, a boolean, a number or a    *)
(* string; k1s is known to write the same fact in several of these ways.   *)
(***************************************************************************)
EXTENDS Integers, FiniteSets, Sequences, TLC

\* Bound: the largest number that k1s is taken to write as a string.
MaxNumeral == 9

Absent == [type |-> "absent"]
Bool(b) == [type |-> "bool", bool |-> b]
Num(n) == [type |-> "number", number |-> n]
Str(s) == [type |-> "string", string |-> s]

JSONValues ==
    [type : {"absent"}]
    \cup [type : {"bool"}, bool : BOOLEAN]
    \cup [type : {"number"}, number : Int]
    \cup [type : {"string"}, string : STRING]

\* The answers to GET /nodes: with the list of nodes or only with their count.
NodeAnswers ==
    [count : JSONValues]
    \cup [count : JSONValues, nodes : Seq([status : JSONValues, stale : JSONValues])]

str(v) ==
    CASE v.type = "string" -> v.string
      [] v.type = "number" -> ToString(v.number)
      [] OTHER -> ""

\* A string that is no numeral counts as 0. Replica and node counts stay far from
\* the limits of int32.
i32(v) ==
    CASE v.type = "number" -> v.number
      [] v.type = "string" /\ (\E n \in 0 .. MaxNumeral : ToString(n) = v.string) ->
            CHOOSE n \in 0 .. MaxNumeral : ToString(n) = v.string
      [] OTHER -> 0

boolv(v) ==
    CASE v.type = "bool" -> v.bool
      [] v.type = "string" -> v.string \in {"true", "True", "READY", "Ready"}
      [] OTHER -> FALSE

firstStatus(phase, status) == IF phase # "" THEN phase ELSE status

equalFoldReady(value) == value \in {"ready", "Ready", "READY"}

-----------------------------------------------------------------------------

\* An app is ready once all the replicas it asks for are, and it asks for some.
ParseAppStatus(payload) ==
    LET desired == i32(payload.desired_replicas)
    IN  [ready |-> desired > 0 /\ i32(payload.ready_replicas) >= desired]

\* Mutant: any ready cell makes the set ready.
ParseInferenceStatus_AnyCell(payload) ==
    LET phase == firstStatus(str(payload.phase), str(payload.status))
    IN  [kind |-> str(payload.kind), phase |-> phase,
         ready |-> boolv(payload.ready) \/ equalFoldReady(phase) \/ i32(payload.ready) > 0]

\* "ready" is a truth value in the answer for a cell and a count in the one for a
\* cell set.
ParseInferenceStatus(payload) ==
    LET phase == firstStatus(str(payload.phase), str(payload.status))
        kind == str(payload.kind)
        desired == i32(payload.desired)
    IN  [kind |-> kind,
         phase |-> phase,
         ready |-> \/ boolv(payload.ready)
                   \/ equalFoldReady(phase)
                   \/ /\ kind = "InferenceCellSet"
                      /\ desired > 0
                      /\ i32(payload.ready) >= desired]

\* A node that is stale is not ready, whatever it last said.
readyNode(n) == str(n.status) = "Ready" /\ ~boolv(n.stale)

\* Without a list of nodes there is only their count.
ParseNodeSummary(payload) ==
    IF "nodes" \notin DOMAIN payload
    THEN [total |-> i32(payload.count), stale |-> 0, ready |-> 0]
    ELSE LET nodes == payload.nodes
         IN  [total |-> Len(nodes),
              stale |-> Cardinality({i \in DOMAIN nodes : boolv(nodes[i].stale)}),
              ready |-> Cardinality({i \in DOMAIN nodes : readyNode(nodes[i])})]
=============================================================================
