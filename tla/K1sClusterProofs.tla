-------------------------- MODULE K1sClusterProofs --------------------------
(***************************************************************************)
(* Proofs about K1sCluster, for every value of its constants: what the     *)
(* published status says, although it is put together from patches against *)
(* stale copies.                                                           *)
(***************************************************************************)
EXTENDS K1sCluster, VersionLemmas, FiniteSetTheorems, TLAPS

Obj == K1sClusterObject

-----------------------------------------------------------------------------
(* Answers, statuses and objects.                                          *)

LEMMA CountType ==
    ASSUME NEW v \in JSONValues
    PROVE  i32(v) \in Int
<1>1. CASE v \in [type : {"number"}, number : Int]
    BY <1>1 DEF i32
<1>2. CASE v \in [type : {"string"}, string : STRING]
  <2>1. CASE \E n \in 0 .. MaxNumeral : ToString(n) = v.string
    <3> DEFINE c == CHOOSE n \in 0 .. MaxNumeral : ToString(n) = v.string
    <3>1. c \in 0 .. MaxNumeral
        BY <2>1
    <3>2. i32(v) = c
        BY <1>2, <2>1 DEF i32
    <3> HIDE DEF c
    <3> QED BY <3>1, <3>2 DEF MaxNumeral
  <2>2. CASE ~(\E n \in 0 .. MaxNumeral : ToString(n) = v.string)
      BY <1>2, <2>2 DEF i32
  <2> QED BY <2>1, <2>2
<1>3. CASE v \in [type : {"absent"}] \cup [type : {"bool"}, bool : BOOLEAN]
    BY <1>3 DEF i32
<1> QED BY <1>1, <1>2, <1>3 DEF JSONValues

\* How many positions of a list are in a set.
LEMMA PositionsType ==
    ASSUME NEW n \in Nat, NEW S \in SUBSET (1 .. n)
    PROVE  Cardinality(S) \in Nat
<1>1. IsFiniteSet(1 .. n)
    BY FS_Interval
<1>2. IsFiniteSet(S)
    BY <1>1, FS_Subset
<1> QED BY <1>2, FS_CardinalityType

LEMMA NodeSummaryType ==
    ASSUME NEW answer \in NodeAnswers
    PROVE  LET nodes == ParseNodeSummary(answer)
           IN  nodes.total \in Int /\ nodes.stale \in Nat /\ nodes.ready \in Nat
<1>1. CASE answer \in [count : JSONValues]
  <2>1. answer.count \in JSONValues /\ "nodes" \notin DOMAIN answer
      BY <1>1
  <2>2. ParseNodeSummary(answer) = [total |-> i32(answer.count), stale |-> 0, ready |-> 0]
      BY <2>1 DEF ParseNodeSummary
  <2> QED BY <2>1, <2>2, CountType
<1>2. CASE answer \in [count : JSONValues,
                       nodes : Seq([status : JSONValues, stale : JSONValues])]
  <2> DEFINE list == answer.nodes
             stale == {i \in DOMAIN list : boolv(list[i].stale)}
             ready == {i \in DOMAIN list : readyNode(list[i])}
  <2>1. "nodes" \in DOMAIN answer /\ list \in Seq([status : JSONValues, stale : JSONValues])
      BY <1>2
  <2>2. Len(list) \in Nat /\ DOMAIN list = 1 .. Len(list)
      BY <2>1
  <2>3. Cardinality(stale) \in Nat /\ Cardinality(ready) \in Nat
      BY <2>2, PositionsType
  <2>4. ParseNodeSummary(answer) =
            [total |-> Len(list), stale |-> Cardinality(stale), ready |-> Cardinality(ready)]
      BY <2>1 DEF ParseNodeSummary
  <2> QED BY <2>2, <2>3, <2>4
<1> QED BY <1>1, <1>2 DEF NodeAnswers

LEMMA ObjType ==
    ASSUME NEW o \in Obj
    PROVE  /\ o.exists \in BOOLEAN
           /\ o.deleting \in BOOLEAN
           /\ o.gen \in Nat
           /\ o.fin \in SUBSET Finalizers
           /\ o.spec \in K1sClusterSpec
           /\ o.status \in K1sClusterStatus
           /\ o.status.observedGeneration \in Nat
           /\ o.status.conds \in Conditions
    BY DEF Obj, K1sClusterObject, K1sClusterRecord, K1sClusterStatus

LEMMA NoStatusType ==
    NoStatus \in K1sClusterStatus
    BY DEF NoStatus, K1sClusterStatus, Conditions, NoCondition, ConditionStatus

LEMMA NoObjectType ==
    /\ NoObject \in Obj
    /\ ~NoObject.exists
    /\ NoObject.gen = 0
    /\ NoObject.status = NoStatus
    BY NoStatusType
    DEF NoObject, NoSpec, K1sClusterSpec, Obj, K1sClusterObject, K1sClusterRecord, Finalizers

LEMMA NewObjectType ==
    ASSUME NEW s \in Specs
    PROVE  /\ NewObject(s) \in Obj
           /\ NewObject(s).exists
           /\ NewObject(s).gen = 1
           /\ NewObject(s).status = NoStatus
    BY NoObjectType, ClusterAssumption
    DEF NewObject, NoObject, Obj, K1sClusterObject, K1sClusterRecord

\* Giving an object another status changes nothing else about it.
LEMMA WithStatus ==
    ASSUME NEW o \in Obj, NEW s \in K1sClusterStatus
    PROVE  /\ [o EXCEPT !.status = s] \in Obj
           /\ [o EXCEPT !.status = s].exists = o.exists
           /\ [o EXCEPT !.status = s].gen = o.gen
           /\ [o EXCEPT !.status = s].spec = o.spec
           /\ [o EXCEPT !.status = s].status = s
    BY DEF Obj, K1sClusterObject, K1sClusterRecord

\* noted sets the conditions that values names and no other field.
LEMMA Noted ==
    ASSUME NEW o \in Obj, NEW st \in K1sClusterStatus, NEW values,
           \A t \in DOMAIN values : values[t] \in ConditionStatus
    PROVE  LET n == noted(o, st, values)
           IN  /\ n \in K1sClusterStatus
               /\ n.observedGeneration = st.observedGeneration
               /\ n.controllerAvailable = st.controllerAvailable
               /\ n.proxyReady = st.proxyReady
               /\ \A t \in ClusterConditions \ DOMAIN values : n.conds[t] = st.conds[t]
               /\ \A t \in ClusterConditions \cap DOMAIN values :
                     /\ n.conds[t] = [status |-> values[t], gen |-> o.gen]
                     /\ n.conds[t].status = values[t]
                     /\ n.conds[t].gen = o.gen
<1>1. o.gen \in Nat /\ st.conds \in Conditions /\ DOMAIN st.conds = ClusterConditions
    BY ObjType DEF K1sClusterStatus, Conditions
<1> DEFINE c == setConditions(st.conds, values, o.gen)
<1>2. c = [t \in ClusterConditions |->
              IF t \in DOMAIN values THEN [status |-> values[t], gen |-> o.gen]
              ELSE st.conds[t]]
    BY <1>1 DEF setConditions
<1>3. c \in Conditions
    BY <1>1, <1>2 DEF Conditions
<1> HIDE DEF c
<1>4. noted(o, st, values) = [st EXCEPT !.conds = c]
    BY DEF noted, c
<1> QED BY <1>2, <1>3, <1>4 DEF K1sClusterStatus

\* A status patch takes each field from the server or from the reconciler's copy.
LEMMA PatchStatusType ==
    ASSUME NEW s \in K1sClusterStatus, NEW c \in K1sClusterStatus,
           NEW want \in K1sClusterStatus, NEW resent \in BOOLEAN
    PROVE  patchStatus(s, c, want, resent) \in K1sClusterStatus
<1> DEFINE p == patchStatus(s, c, want, resent)
           Fields == {"observedGeneration", "controllerAvailable", "proxyReady",
                      "stackDomain", "ready", "stale", "total", "conds"}
<1>1. DOMAIN s = Fields
    BY DEF K1sClusterStatus
<1>2. p = [f \in Fields |-> p[f]]
    BY <1>1 DEF patchStatus
<1>3. \A f \in Fields : p[f] \in {s[f], want[f]}
    BY <1>1 DEF patchStatus, mergeField
<1> HIDE DEF p
<1>4. /\ p.observedGeneration \in Nat
      /\ p.controllerAvailable \in BOOLEAN
      /\ p.proxyReady \in BOOLEAN
      /\ p.stackDomain \in Domains \cup {NoDomain}
      /\ p.ready \in Nat
      /\ p.stale \in Nat
      /\ p.total \in Int
      /\ p.conds \in Conditions
    BY <1>3 DEF K1sClusterStatus
<1>5. p \in K1sClusterStatus
    BY <1>2, <1>4 DEF K1sClusterStatus
<1> QED BY <1>5 DEF p

-----------------------------------------------------------------------------
(* The invariants.                                                         *)

\* A verdict of True rests on three others, reached in the same pass.
Explained(st) ==
    st.conds["Ready"].status = "True" =>
        \A t \in {"CredentialsValid", "ControllerAvailable", "ProxyReady"} :
            st.conds[t] = st.conds["Ready"]

\* The conditions are of the generation that the status is said to be of.
OneGeneration(st) ==
    \A t \in ClusterConditions :
        st.conds[t] = NoCondition \/ st.conds[t].gen = st.observedGeneration

\* What a pass about generation g has learnt when it comes to step p: all of it for
\* that generation, and no verdict before the last step.
Learnt(g, p, st) ==
    /\ st.observedGeneration = g
    /\ OneGeneration(st)
    /\ Explained(st)
    /\ st.conds["CredentialsValid"].status # "Unknown"
    /\ st.controllerAvailable =>
           st.conds["ControllerAvailable"] = [status |-> "True", gen |-> g]
    /\ p \in {"bootstrap", "health", "healthz"} => ~st.controllerAvailable
    /\ p # "patchStatus" => st.conds["Ready"] = NoCondition

PassInvariant ==
    /\ \A i \in 1 .. Len(versions) : Explained(versions[i].status)
    /\ pc # "idle" => Learnt(own.gen, pc, own.status)

\* The version b follows a: neither the generation nor the one the status is of goes
\* back, and the status is of no generation that the cache had not seen by then.
Follows(a, b) ==
    b.exists =>
        /\ a.gen <= b.gen
        /\ a.status.observedGeneration <= b.status.observedGeneration
        /\ b.status.observedGeneration <= a.gen

Later == {pair \in Obj \X Obj : Follows(pair[1], pair[2])}

\* The versions are in order, and the copy being reconciled lies between what the
\* statuses tell of and the versions.
Lineage(vs, p, o) ==
    /\ Ordered(vs, Later)
    /\ Unbroken(vs)
    /\ \A i \in 1 .. Len(vs) : OneGeneration(vs[i].status) /\ Follows(vs[i], vs[i])
    /\ p # "idle" =>
          \A i \in 1 .. Len(vs) : vs[i].exists =>
              /\ vs[i].status.observedGeneration <= o.gen
              /\ o.gen <= vs[i].gen

\* Before the creation there is nothing.
Unborn(vs, p) == p = "idle" /\ \A i \in 1 .. Len(vs) : vs[i] = NoObject

GenerationInvariant ==
    /\ lives <= 1 => Lineage(versions, pc, own)
    /\ lives = 0 => Unborn(versions, pc)

-----------------------------------------------------------------------------
(* What a pass learns.                                                     *)

\* One more answer is noted, which is not the verdict.
LEMMA NotedLearnt ==
    ASSUME NEW o \in Obj, NEW st \in K1sClusterStatus, NEW values, NEW p, NEW q,
           Learnt(o.gen, p, st), p # "patchStatus", q # "patchStatus",
           \A t \in DOMAIN values : values[t] \in {"True", "False"},
           "Ready" \notin DOMAIN values,
           st.controllerAvailable => "ControllerAvailable" \notin DOMAIN values,
           q \in {"bootstrap", "health", "healthz"} => ~st.controllerAvailable
    PROVE  /\ noted(o, st, values) \in K1sClusterStatus
           /\ Learnt(o.gen, q, noted(o, st, values))
<1> DEFINE n == noted(o, st, values)
<1>1. \A t \in DOMAIN values : values[t] \in ConditionStatus
    BY DEF ConditionStatus
<1>2. /\ n \in K1sClusterStatus
      /\ n.observedGeneration = st.observedGeneration
      /\ n.controllerAvailable = st.controllerAvailable
      /\ \A t \in ClusterConditions \ DOMAIN values : n.conds[t] = st.conds[t]
      /\ \A t \in ClusterConditions \cap DOMAIN values :
            /\ n.conds[t] = [status |-> values[t], gen |-> o.gen]
            /\ n.conds[t].status = values[t]
            /\ n.conds[t].gen = o.gen
    BY <1>1, Noted
<1> HIDE DEF n
<1>3. {"Ready", "CredentialsValid", "ControllerAvailable"} \subseteq ClusterConditions
    BY DEF ClusterConditions
<1>4. n.observedGeneration = o.gen /\ OneGeneration(n)
    BY <1>2 DEF Learnt, OneGeneration
<1>5. n.conds["Ready"] = NoCondition /\ Explained(n)
    BY <1>2, <1>3 DEF Learnt, Explained, NoCondition
<1>6. n.conds["CredentialsValid"].status # "Unknown"
    BY <1>2, <1>3 DEF Learnt
<1>7. n.controllerAvailable =>
          n.conds["ControllerAvailable"] = [status |-> "True", gen |-> o.gen]
    BY <1>2, <1>3 DEF Learnt
<1>8. Learnt(o.gen, q, n)
    BY <1>2, <1>4, <1>5, <1>6, <1>7 DEF Learnt
<1> QED BY <1>2, <1>8 DEF n

\* A pass starts from an empty status.
LEMMA FreshLearnt ==
    ASSUME NEW o \in Obj, NEW creds \in BOOLEAN, NEW q, q # "patchStatus",
           NEW st, st = noted(o, freshStatus(o), [CredentialsValid |-> conditionStatus(creds),
                                                  BootstrapLoaded |-> "False"])
    PROVE  /\ st \in K1sClusterStatus
           /\ ~st.controllerAvailable
           /\ Learnt(o.gen, q, st)
<1> DEFINE f == freshStatus(o)
           values == [CredentialsValid |-> conditionStatus(creds), BootstrapLoaded |-> "False"]
<1>1. /\ f \in K1sClusterStatus
      /\ f.observedGeneration = o.gen
      /\ ~f.controllerAvailable
      /\ \A t \in ClusterConditions : f.conds[t] = NoCondition
    BY NoStatusType, ObjType DEF freshStatus, NoStatus, K1sClusterStatus
<1>2. /\ DOMAIN values = {"CredentialsValid", "BootstrapLoaded"}
      /\ values["CredentialsValid"] \in {"True", "False"}
      /\ values["BootstrapLoaded"] \in {"True", "False"}
    BY DEF conditionStatus
<1>3. \A t \in DOMAIN values : values[t] \in ConditionStatus
    BY <1>2 DEF ConditionStatus
<1> HIDE DEF f, values
<1>4. /\ st \in K1sClusterStatus
      /\ st.observedGeneration = o.gen
      /\ ~st.controllerAvailable
      /\ \A t \in ClusterConditions \ DOMAIN values : st.conds[t] = f.conds[t]
      /\ \A t \in ClusterConditions \cap DOMAIN values :
            /\ st.conds[t] = [status |-> values[t], gen |-> o.gen]
            /\ st.conds[t].status = values[t]
            /\ st.conds[t].gen = o.gen
    BY <1>1, <1>3, Noted DEF f, values
<1>5. {"Ready", "CredentialsValid"} \subseteq ClusterConditions
    BY DEF ClusterConditions
<1>6. /\ st.conds["Ready"] = NoCondition
      /\ st.conds["CredentialsValid"].status # "Unknown"
    BY <1>1, <1>2, <1>4, <1>5
<1>7. OneGeneration(st)
    BY <1>1, <1>4 DEF OneGeneration
<1>8. Explained(st)
    BY <1>6 DEF Explained, NoCondition
<1> QED BY <1>4, <1>6, <1>7, <1>8 DEF Learnt

\* The verdict.
LEMMA ConcludedLearnt ==
    ASSUME NEW o \in Obj, NEW st \in K1sClusterStatus, NEW p, Learnt(o.gen, p, st),
           p # "patchStatus",
           st.proxyReady => st.conds["ProxyReady"] = [status |-> "True", gen |-> o.gen]
    PROVE  /\ concluded(o, st) \in K1sClusterStatus
           /\ Learnt(o.gen, "patchStatus", concluded(o, st))
<1> DEFINE shim == IF o.spec.apishim THEN noted(o, st, [ApishimAvailable |-> "False"]) ELSE st
           verdict == conditionStatus(clusterReady(st))
           n == noted(o, shim, [Ready |-> verdict])
<1>1. /\ shim \in K1sClusterStatus
      /\ Learnt(o.gen, "discover", shim)
      /\ \A t \in ClusterConditions \ {"ApishimAvailable"} : shim.conds[t] = st.conds[t]
  <2>1. CASE ~o.spec.apishim
      BY <2>1 DEF Learnt
  <2>2. CASE o.spec.apishim
    <3> DEFINE values == [ApishimAvailable |-> "False"]
    <3>1. DOMAIN values = {"ApishimAvailable"} /\ values["ApishimAvailable"] = "False"
        OBVIOUS
    <3> HIDE DEF values
    <3>2. \A t \in DOMAIN values : values[t] \in ConditionStatus
        BY <3>1 DEF ConditionStatus
    <3>3. noted(o, st, values) \in K1sClusterStatus /\ Learnt(o.gen, "discover", noted(o, st, values))
        BY <3>1, NotedLearnt
    <3>4. \A t \in ClusterConditions \ {"ApishimAvailable"} :
              noted(o, st, values).conds[t] = st.conds[t]
        BY <3>1, <3>2, Noted
    <3> QED BY <2>2, <3>3, <3>4 DEF values
  <2> QED BY <2>1, <2>2
<1>2. verdict \in {"True", "False"} /\ (verdict = "True" => clusterReady(st))
    BY DEF conditionStatus
<1> DEFINE values == [Ready |-> verdict]
<1>3. DOMAIN values = {"Ready"} /\ values["Ready"] = verdict
    OBVIOUS
<1> HIDE DEF shim, verdict, values
<1>4. \A t \in DOMAIN values : values[t] \in ConditionStatus
    BY <1>2, <1>3 DEF ConditionStatus
<1>5. /\ n \in K1sClusterStatus
      /\ n.observedGeneration = shim.observedGeneration
      /\ n.controllerAvailable = shim.controllerAvailable
      /\ n.conds["Ready"] = [status |-> verdict, gen |-> o.gen]
      /\ \A t \in ClusterConditions \ {"Ready"} : n.conds[t] = shim.conds[t]
    BY <1>1, <1>3, <1>4, Noted DEF ClusterConditions, values
<1> HIDE DEF n
<1>6. n.observedGeneration = o.gen /\ OneGeneration(n)
    BY <1>1, <1>5 DEF Learnt, OneGeneration
<1>7. Explained(n)
  <2> SUFFICES ASSUME verdict = "True",
                      NEW t \in {"CredentialsValid", "ControllerAvailable", "ProxyReady"}
               PROVE  n.conds[t] = [status |-> "True", gen |-> o.gen]
      BY <1>5 DEF Explained
  <2>1. n.conds[t] = st.conds[t] /\ t \in ClusterConditions
      BY <1>1, <1>5 DEF ClusterConditions
  <2>2. st.controllerAvailable /\ st.proxyReady /\ st.conds["CredentialsValid"].status = "True"
      BY <1>2 DEF clusterReady, holds
  <2>3. CASE t \in {"ControllerAvailable", "ProxyReady"}
      BY <2>1, <2>2, <2>3 DEF Learnt
  <2>4. CASE t = "CredentialsValid"
    <3>1. st.conds[t] # NoCondition
        BY <2>2, <2>4 DEF NoCondition
    <3>2. st.conds[t].gen = o.gen /\ st.conds[t].status = "True"
        BY <2>1, <2>2, <2>4, <3>1 DEF Learnt, OneGeneration
    <3>3. st.conds[t] \in [status : ConditionStatus, gen : Nat]
        BY <2>1 DEF K1sClusterStatus, Conditions
    <3> QED BY <2>1, <3>2, <3>3
  <2> QED BY <2>3, <2>4
<1>8. Learnt(o.gen, "patchStatus", n)
    BY <1>1, <1>5, <1>6, <1>7 DEF Learnt, ClusterConditions
<1>9. concluded(o, st) = n
    BY DEF concluded, n, shim, values, verdict
<1> QED BY <1>5, <1>8, <1>9

-----------------------------------------------------------------------------
(* The versions.                                                           *)

LEMMA VersionsType ==
    ASSUME TypeOK
    PROVE  /\ versions \in Seq(Obj) /\ versions # <<>>
           /\ Len(versions) \in Nat \ {0}
           /\ Len(versions) \in 1 .. MaxLag + 1
           /\ cached = versions[1] /\ cached \in Obj
           /\ server = versions[Len(versions)] /\ server \in Obj
           /\ \A i \in 1 .. Len(versions) : versions[i] \in Obj
<1>1. versions \in Seq(Obj) /\ Len(versions) \in 1 .. MaxLag + 1
    BY DEF TypeOK, Obj
<1>2. Len(versions) \in Nat \ {0} /\ versions # <<>>
    BY <1>1, ClusterAssumption
<1> QED BY <1>1, <1>2, Ends DEF cached, server

VersionsExplained ==
    /\ versions \in Seq(Obj)
    /\ Len(versions) \in 1 .. MaxLag + 1
    /\ \A i \in 1 .. Len(versions) : Explained(versions[i].status)

\* A write of an object whose status is explained.
LEMMA StoreExplained ==
    ASSUME TypeOK, VersionsExplained, NEW o \in Obj, Explained(o.status),
           Store(o) \/ StoreIfChanged(o)
    PROVE  VersionsExplained'
<1>1. CASE UNCHANGED versions
    BY <1>1 DEF VersionsExplained
<1>2. CASE Store(o)
  <2>1. /\ versions \in Seq(Obj) /\ versions # <<>> /\ Len(versions) \in Nat \ {0}
        /\ versions' = Append(versions, o) /\ Len(versions) <= MaxLag
      BY <1>2, VersionsType DEF Store
  <2>2. /\ versions' \in Seq(Obj)
        /\ Len(versions') = Len(versions) + 1
        /\ \A i \in 1 .. Len(versions) : versions'[i] = versions[i]
        /\ versions'[Len(versions')] = o
      BY <2>1, Stored
  <2>3. Len(versions') \in 1 .. MaxLag + 1
      BY <2>1, <2>2, ClusterAssumption
  <2>4. ASSUME NEW i \in 1 .. Len(versions') PROVE Explained(versions'[i].status)
    <3>1. i \in 1 .. Len(versions) \/ i = Len(versions')
        BY <2>1, <2>2
    <3> QED BY <2>2, <3>1 DEF VersionsExplained
  <2> QED BY <2>2, <2>3, <2>4 DEF VersionsExplained
<1> QED BY <1>1, <1>2 DEF StoreIfChanged

LEMMA DeliverExplained ==
    ASSUME TypeOK, VersionsExplained, Deliver
    PROVE  VersionsExplained'
<1>1. PICK k \in 2 .. Len(versions) : versions' = SubSeq(versions, k, Len(versions))
    BY DEF Deliver
<1>2. versions \in Seq(Obj) /\ versions # <<>> /\ Len(versions) \in 1 .. MaxLag + 1
    BY VersionsType
<1>3. versions' \in Seq(Obj) /\ versions' # <<>> /\ Len(versions') < Len(versions)
    BY <1>1, <1>2, Delivered
<1>4. \A i \in 1 .. Len(versions') :
          i + k - 1 \in 1 .. Len(versions) /\ versions'[i] = versions[i + k - 1]
    BY <1>1, <1>2, DeliveredElements
<1>5. Len(versions') \in 1 .. MaxLag + 1
    BY <1>2, <1>3, Ends, ClusterAssumption
<1> QED BY <1>3, <1>4, <1>5 DEF VersionsExplained

LEMMA RestartExplained ==
    ASSUME TypeOK, VersionsExplained, Crash
    PROVE  VersionsExplained'
<1>1. /\ versions \in Seq(Obj) /\ versions # <<>> /\ Len(versions) \in Nat \ {0}
      /\ versions' = <<versions[Len(versions)]>>
    BY VersionsType DEF Crash
<1>2. versions' \in Seq(Obj) /\ Len(versions') = 1 /\ versions'[1] = versions[Len(versions)]
    BY <1>1, Restarted
<1>3. Explained(versions[Len(versions)].status)
    BY <1>1 DEF VersionsExplained
<1> QED BY <1>2, <1>3, ClusterAssumption DEF VersionsExplained

LEMMA NothingExplained ==
    Explained(NoStatus) /\ OneGeneration(NoStatus)
<1>1. \A t \in ClusterConditions : NoStatus.conds[t] = NoCondition
    BY DEF NoStatus
<1>2. "Ready" \in ClusterConditions
    BY DEF ClusterConditions
<1>3. NoStatus.conds["Ready"].status # "True"
    BY <1>1, <1>2 DEF NoCondition
<1> QED BY <1>1, <1>3 DEF Explained, OneGeneration

\* What a status patch stores.
StatusWritten(o) ==
    /\ o \in Obj
    /\ o.exists = server.exists
    /\ o.gen = server.gen
    /\ o.status \in K1sClusterStatus
    /\ \/ o.status.observedGeneration = own.status.observedGeneration
       \/ /\ cached.status.observedGeneration = own.status.observedGeneration
          /\ o.status.observedGeneration = server.status.observedGeneration
    /\ \/ o.status.conds = own.status.conds
       \/ cached.status.conds = own.status.conds /\ o.status.conds = server.status.conds

LEMMA StatusStored ==
    ASSUME TypeOK, StoreStatus
    PROVE  \E o : StatusWritten(o) /\ (Store(o) \/ StoreIfChanged(o))
<1>1. PICK fresh \in BOOLEAN, resent \in BOOLEAN :
          LET merged == patchStatus(server.status, cached.status, own.status, resent)
              o == [server EXCEPT !.status = merged]
          IN  IF fresh THEN Store(o) ELSE StoreIfChanged(o)
    BY DEF StoreStatus
<1> DEFINE merged == patchStatus(server.status, cached.status, own.status, resent)
           o == [server EXCEPT !.status = merged]
<1>2. /\ server \in Obj
      /\ server.status \in K1sClusterStatus
      /\ cached.status \in K1sClusterStatus
      /\ own.status \in K1sClusterStatus
    BY VersionsType, ObjType DEF TypeOK, Obj
<1>3. Store(o) \/ StoreIfChanged(o)
    BY <1>1
<1>4. /\ merged \in K1sClusterStatus
      /\ \/ merged.observedGeneration = own.status.observedGeneration
         \/ /\ cached.status.observedGeneration = own.status.observedGeneration
            /\ merged.observedGeneration = server.status.observedGeneration
      /\ \/ merged.conds = own.status.conds
         \/ cached.status.conds = own.status.conds /\ merged.conds = server.status.conds
  <2>1. merged \in K1sClusterStatus
      BY <1>2, PatchStatusType
  <2>2. \/ merged.observedGeneration = own.status.observedGeneration
        \/ /\ cached.status.observedGeneration = own.status.observedGeneration
           /\ merged.observedGeneration = server.status.observedGeneration
      BY <1>2 DEF patchStatus, mergeField, K1sClusterStatus
  <2>3. \/ merged.conds = own.status.conds
        \/ cached.status.conds = own.status.conds /\ merged.conds = server.status.conds
      BY <1>2 DEF patchStatus, mergeField, K1sClusterStatus
  <2> QED BY <2>1, <2>2, <2>3
<1> HIDE DEF merged
<1>5. o \in Obj /\ o.exists = server.exists /\ o.gen = server.gen /\ o.status = merged
    BY <1>2, <1>4, WithStatus
<1> QED BY <1>3, <1>4, <1>5, Zenon DEF StatusWritten

\* A patch publishes conditions that the server has or that a pass has concluded.
LEMMA PatchExplained ==
    ASSUME TypeOK, VersionsExplained, Explained(own.status), StoreStatus
    PROVE  VersionsExplained'
<1>1. PICK o : StatusWritten(o) /\ (Store(o) \/ StoreIfChanged(o))
    BY StatusStored
<1>2. Explained(server.status)
    BY VersionsType DEF VersionsExplained
<1>3. Explained(o.status)
    BY <1>1, <1>2 DEF StatusWritten, Explained
<1> QED BY <1>1, <1>3, StoreExplained DEF StatusWritten

-----------------------------------------------------------------------------
(* Types and explained verdicts, for any number of creations.              *)

\* The locals of Reconcile.
LocalsOK ==
    /\ own \in Obj
    /\ pc \in Steps
    /\ pc # "idle" => own.exists /\ Learnt(own.gen, pc, own.status)
    /\ ret \in {"done", "poll", "error"}

OthersOK ==
    /\ k1s \in Worlds
    /\ credsOK \in BOOLEAN
    /\ queue \in BOOLEAN
    /\ timer \in BOOLEAN
    /\ faults \in 0 .. MaxFaults
    /\ lives \in 0 .. MaxLives

StatusInvariant == VersionsExplained /\ LocalsOK /\ OthersOK

LEMMA InvariantParts ==
    StatusInvariant <=> TypeOK /\ PassInvariant
    BY DEF StatusInvariant, VersionsExplained, LocalsOK, OthersOK, TypeOK, PassInvariant, Obj

LEMMA DisturbType ==
    ASSUME NEW kind, Disturb(kind), faults \in 0 .. MaxFaults
    PROVE  faults' \in 0 .. MaxFaults
    BY ClusterAssumption DEF Disturb

\* A pass learns something and goes on.
LEMMA LearnLocals ==
    ASSUME NEW o \in Obj, o.exists, NEW st \in K1sClusterStatus, NEW step \in Steps,
           Learnt(o.gen, step, st), Learn(o, st, step), LocalsOK
    PROVE  LocalsOK'
<1>1. /\ own' = [o EXCEPT !.status = st] /\ pc' = step /\ ret' = ret
    BY DEF Learn
<1>2. own' \in Obj /\ own'.exists /\ own'.gen = o.gen /\ own'.status = st
    BY <1>1, WithStatus
<1> QED BY <1>1, <1>2 DEF LocalsOK

LEMMA LearnOthers ==
    ASSUME NEW o, NEW st, NEW step, Learn(o, st, step), VersionsExplained, OthersOK,
           queue' \in BOOLEAN, faults' \in 0 .. MaxFaults
    PROVE  VersionsExplained' /\ OthersOK'
    BY DEF Learn, VersionsExplained, OthersOK

LEMMA StartSteps ==
    ASSUME NEW o, NEW st
    PROVE  LET q == IF o THEN "bootstrap" ELSE afterBootstrap(st)
           IN  q \in Steps /\ q # "patchStatus"
    BY DEF afterBootstrap, Steps

LEMMA StartInvariant ==
    ASSUME StatusInvariant, Start
    PROVE  StatusInvariant'
<1>1. /\ TypeOK /\ VersionsExplained /\ LocalsOK /\ OthersOK
      /\ cached \in Obj
      /\ queue' = FALSE /\ UNCHANGED faults
    BY InvariantParts, VersionsType DEF StatusInvariant, Start
<1>2. CASE ~cached.exists
    BY <1>1, <1>2 DEF Start, StatusInvariant, VersionsExplained, LocalsOK, OthersOK
<1>3. CASE cached.exists
  <2> DEFINE creds == loadCredentials(cached)
             start == noted(cached, freshStatus(cached),
                          [CredentialsValid |-> conditionStatus(creds),
                           BootstrapLoaded |-> "False"])
             st == IF creds /\ ~k1s.client
                   THEN noted(cached, start, [ControllerAvailable |-> "False"]) ELSE start
             step == IF cached.spec.bootstrap THEN "bootstrap" ELSE afterBootstrap(st)
  <2>1. Learn(cached, st, step)
      BY <1>3 DEF Start
  <2>2. creds \in BOOLEAN
      BY DEF loadCredentials
  <2>3. step \in Steps /\ step # "patchStatus"
      BY StartSteps
  <2> HIDE DEF creds, step
  <2>4. start \in K1sClusterStatus /\ ~start.controllerAvailable
        /\ Learnt(cached.gen, "discover", start) /\ Learnt(cached.gen, step, start)
      BY <1>1, <2>2, <2>3, FreshLearnt
  <2> HIDE DEF start
  <2>5. st \in K1sClusterStatus /\ Learnt(cached.gen, step, st)
    <3> DEFINE values == [ControllerAvailable |-> "False"]
    <3>1. DOMAIN values = {"ControllerAvailable"} /\ values["ControllerAvailable"] = "False"
        OBVIOUS
    <3> HIDE DEF values
    <3>2. /\ noted(cached, start, values) \in K1sClusterStatus
          /\ Learnt(cached.gen, step, noted(cached, start, values))
        BY <1>1, <2>3, <2>4, <3>1, NotedLearnt
    <3> QED BY <2>4, <3>2 DEF values
  <2> HIDE DEF st
  <2>6. LocalsOK'
      BY <1>1, <1>3, <2>1, <2>3, <2>5, LearnLocals
  <2>7. VersionsExplained' /\ OthersOK'
      BY <1>1, <2>1, LearnOthers DEF OthersOK
  <2> QED BY <2>6, <2>7 DEF StatusInvariant
<1> QED BY <1>2, <1>3

\* In the middle of a pass.
LEMMA PassType ==
    ASSUME StatusInvariant, pc # "idle"
    PROVE  /\ TypeOK /\ VersionsExplained /\ LocalsOK /\ OthersOK
           /\ own \in Obj /\ own.exists
           /\ own.status \in K1sClusterStatus
           /\ Learnt(own.gen, pc, own.status)
    BY InvariantParts, ObjType DEF StatusInvariant, LocalsOK

\* A pass goes on with the status st.
LEMMA LearnInvariant ==
    ASSUME StatusInvariant, pc # "idle", NEW st \in K1sClusterStatus, NEW step \in Steps,
           Learnt(own.gen, step, st), Learn(own, st, step),
           UNCHANGED queue, UNCHANGED faults \/ \E kind : Disturb(kind)
    PROVE  StatusInvariant'
<1>1. LocalsOK'
    BY PassType, LearnLocals
<1>2. faults' \in 0 .. MaxFaults /\ queue' \in BOOLEAN
    BY PassType, DisturbType DEF OthersOK
<1>3. VersionsExplained' /\ OthersOK'
    BY <1>2, PassType, LearnOthers
<1> QED BY <1>1, <1>3 DEF StatusInvariant

LEMMA ReadBootstrapInvariant ==
    ASSUME StatusInvariant, ReadBootstrap
    PROVE  StatusInvariant'
<1> DEFINE step == afterBootstrap(own.status)
           named == [own.status EXCEPT !.stackDomain = k1s.domain]
           values == [BootstrapLoaded |-> "True"]
<1>1. pc = "bootstrap" /\ pc # "idle" /\ UNCHANGED queue
      /\ (UNCHANGED faults \/ \E kind : Disturb(kind))
    BY DEF ReadBootstrap
<1>2. step \in Steps /\ step # "patchStatus"
    BY DEF afterBootstrap, Steps
<1>3. /\ own \in Obj /\ own.status \in K1sClusterStatus
      /\ Learnt(own.gen, pc, own.status) /\ ~own.status.controllerAvailable
      /\ k1s.domain \in Domains \cup {NoDomain}
    BY <1>1, PassType DEF Learnt, OthersOK, Worlds
<1>4. DOMAIN values = {"BootstrapLoaded"} /\ values["BootstrapLoaded"] = "True"
    OBVIOUS
<1>5. /\ named \in K1sClusterStatus
      /\ named.controllerAvailable = own.status.controllerAvailable
      /\ named.conds = own.status.conds
      /\ named.observedGeneration = own.status.observedGeneration
    BY <1>3 DEF K1sClusterStatus
<1> HIDE DEF step, values, named
<1>6. Learnt(own.gen, pc, named)
    BY <1>3, <1>5 DEF Learnt, OneGeneration, Explained
<1>7. /\ noted(own, named, values) \in K1sClusterStatus
      /\ Learnt(own.gen, step, noted(own, named, values))
    BY <1>1, <1>2, <1>3, <1>4, <1>5, <1>6, NotedLearnt
<1>8. Learnt(own.gen, step, own.status)
    BY <1>1, <1>2, <1>3 DEF Learnt
<1>9. Learn(own, noted(own, named, values), step) \/ Learn(own, own.status, step)
    BY DEF ReadBootstrap, step, values, named
<1> QED BY <1>1, <1>2, <1>3, <1>7, <1>8, <1>9, LearnInvariant

LEMMA HealthInvariant ==
    ASSUME StatusInvariant, Health \/ Healthz
    PROVE  StatusInvariant'
<1> DEFINE found == [own.status EXCEPT !.controllerAvailable = TRUE]
           yes == [ControllerAvailable |-> "True"]
           no == [ControllerAvailable |-> "False"]
<1>1. pc \in {"health", "healthz"} /\ pc # "idle" /\ UNCHANGED queue
      /\ (UNCHANGED faults \/ \E kind : Disturb(kind))
    BY DEF Health, Healthz
<1>2. /\ own \in Obj /\ own.status \in K1sClusterStatus
      /\ Learnt(own.gen, pc, own.status) /\ ~own.status.controllerAvailable
    BY <1>1, PassType DEF Learnt
<1>3. /\ DOMAIN yes = {"ControllerAvailable"} /\ yes["ControllerAvailable"] = "True"
      /\ DOMAIN no = {"ControllerAvailable"} /\ no["ControllerAvailable"] = "False"
    OBVIOUS
<1>4. /\ found \in K1sClusterStatus
      /\ found.controllerAvailable
      /\ found.conds = own.status.conds
      /\ found.observedGeneration = own.status.observedGeneration
    BY <1>2 DEF K1sClusterStatus
<1> HIDE DEF found, yes, no
<1>5. {"nodes", "healthz", "discover"} \subseteq Steps
    BY DEF Steps
<1>6. available \in K1sClusterStatus /\ Learnt(own.gen, "nodes", available)
  <2>1. available = noted(own, found, yes)
      BY DEF available, found, yes
  <2>2. \A t \in DOMAIN yes : yes[t] \in ConditionStatus
      BY <1>3 DEF ConditionStatus
  <2>3. /\ available \in K1sClusterStatus
        /\ available.observedGeneration = own.status.observedGeneration
        /\ \A t \in ClusterConditions \ DOMAIN yes : available.conds[t] = own.status.conds[t]
        /\ \A t \in ClusterConditions \cap DOMAIN yes :
              /\ available.conds[t] = [status |-> yes[t], gen |-> own.gen]
              /\ available.conds[t].gen = own.gen
      BY <1>2, <1>4, <2>1, <2>2, Noted
  <2>4. {"Ready", "CredentialsValid", "ControllerAvailable"} \subseteq ClusterConditions
      BY DEF ClusterConditions
  <2>5. OneGeneration(available)
      BY <1>2, <2>3 DEF Learnt, OneGeneration
  <2>6. available.conds["Ready"] = NoCondition /\ Explained(available)
      BY <1>1, <1>2, <1>3, <2>3, <2>4 DEF Learnt, Explained, NoCondition
  <2>7. available.conds["CredentialsValid"].status # "Unknown"
      BY <1>2, <1>3, <2>3, <2>4 DEF Learnt
  <2>8. available.conds["ControllerAvailable"] = [status |-> "True", gen |-> own.gen]
      BY <1>3, <2>3, <2>4
  <2> QED BY <1>2, <2>3, <2>5, <2>6, <2>7, <2>8 DEF Learnt
<1>7. /\ noted(own, own.status, no) \in K1sClusterStatus
      /\ Learnt(own.gen, "discover", noted(own, own.status, no))
    BY <1>1, <1>2, <1>3, NotedLearnt
<1>8. Learnt(own.gen, "healthz", own.status)
    BY <1>1, <1>2 DEF Learnt
<1>9. \/ Learn(own, available, "nodes")
      \/ Learn(own, own.status, "healthz")
      \/ Learn(own, noted(own, own.status, no), "discover")
    BY DEF Health, Healthz, no
<1> QED BY <1>1, <1>2, <1>5, <1>6, <1>7, <1>8, <1>9, LearnInvariant

LEMMA NodesInvariant ==
    ASSUME StatusInvariant, Nodes
    PROVE  StatusInvariant'
<1> DEFINE nodes == ParseNodeSummary(k1s.nodes)
           counted == [own.status EXCEPT !.ready = nodes.ready, !.stale = nodes.stale,
                                         !.total = nodes.total]
<1>1. pc = "nodes" /\ pc # "idle" /\ UNCHANGED queue
      /\ (UNCHANGED faults \/ \E kind : Disturb(kind))
    BY DEF Nodes
<1>2. /\ own \in Obj /\ own.status \in K1sClusterStatus
      /\ Learnt(own.gen, pc, own.status)
      /\ k1s.nodes \in NodeAnswers
    BY <1>1, PassType, ClusterAssumption DEF OthersOK, Worlds
<1>3. nodes.total \in Int /\ nodes.stale \in Nat /\ nodes.ready \in Nat
    BY <1>2, NodeSummaryType
<1>4. Learn(own, counted, "discover") \/ Learn(own, own.status, "discover")
    BY DEF Nodes
<1> HIDE DEF nodes
<1>5. /\ counted \in K1sClusterStatus
      /\ counted.controllerAvailable = own.status.controllerAvailable
      /\ counted.conds = own.status.conds
      /\ counted.observedGeneration = own.status.observedGeneration
    BY <1>2, <1>3 DEF K1sClusterStatus
<1> HIDE DEF counted
<1>6. Learnt(own.gen, "discover", counted) /\ Learnt(own.gen, "discover", own.status)
    BY <1>1, <1>2, <1>5 DEF Learnt, OneGeneration, Explained
<1> QED BY <1>1, <1>2, <1>4, <1>5, <1>6, LearnInvariant DEF Steps

LEMMA DiscoverInvariant ==
    ASSUME StatusInvariant, Discover
    PROVE  StatusInvariant'
<1>1. pc = "discover" /\ pc # "idle"
      /\ UNCHANGED <<versions, k1s, credsOK, timer, lives, queue>>
      /\ (UNCHANGED faults \/ \E kind : Disturb(kind))
    BY DEF Discover
<1>2. PICK r \in BOOLEAN :
          WriteStatus(own,
              concluded(own, noted(own, [own.status EXCEPT !.proxyReady = r],
                                   [ProxyReady |-> conditionStatus(r)])), "poll")
    BY DEF Discover
<1> DEFINE seen == [own.status EXCEPT !.proxyReady = r]
           values == [ProxyReady |-> conditionStatus(r)]
           st == noted(own, seen, values)
           last == concluded(own, st)
<1>3. /\ own \in Obj /\ own.exists /\ own.status \in K1sClusterStatus
      /\ Learnt(own.gen, pc, own.status)
      /\ VersionsExplained /\ OthersOK
    BY <1>1, PassType
<1>4. /\ DOMAIN values = {"ProxyReady"}
      /\ values["ProxyReady"] \in {"True", "False"}
      /\ r => values["ProxyReady"] = "True"
    BY DEF conditionStatus
<1>5. /\ seen \in K1sClusterStatus
      /\ seen.controllerAvailable = own.status.controllerAvailable
      /\ seen.proxyReady = r
      /\ seen.conds = own.status.conds
      /\ seen.observedGeneration = own.status.observedGeneration
    BY <1>3 DEF K1sClusterStatus
<1>6. pc' = "patchStatus" /\ own' = [own EXCEPT !.status = last] /\ ret' = "poll"
    BY <1>2 DEF WriteStatus
<1> HIDE DEF values, seen, last
<1>7. Learnt(own.gen, pc, seen)
    BY <1>1, <1>3, <1>5 DEF Learnt, OneGeneration, Explained
<1>8. st \in K1sClusterStatus /\ Learnt(own.gen, pc, st)
    BY <1>1, <1>3, <1>4, <1>5, <1>7, NotedLearnt
<1>9. st.proxyReady => st.conds["ProxyReady"] = [status |-> "True", gen |-> own.gen]
  <2>1. \A t \in DOMAIN values : values[t] \in ConditionStatus
      BY <1>4 DEF ConditionStatus
  <2>2. "ProxyReady" \in ClusterConditions
      BY DEF ClusterConditions
  <2>3. /\ st.proxyReady = r
        /\ \A t \in ClusterConditions \cap DOMAIN values :
              st.conds[t] = [status |-> values[t], gen |-> own.gen]
      BY <1>3, <1>5, <2>1, Noted
  <2> QED BY <1>4, <2>2, <2>3
<1> HIDE DEF st
<1>10. last \in K1sClusterStatus /\ Learnt(own.gen, "patchStatus", last)
    BY <1>1, <1>3, <1>8, <1>9, ConcludedLearnt DEF last
<1>11. own' \in Obj /\ own'.exists /\ own'.gen = own.gen /\ own'.status = last
    BY <1>3, <1>6, <1>10, WithStatus
<1>12. LocalsOK'
    BY <1>6, <1>10, <1>11 DEF LocalsOK, Steps
<1>13. VersionsExplained' /\ OthersOK'
    BY <1>1, <1>3, DisturbType DEF VersionsExplained, OthersOK
<1> QED BY <1>12, <1>13 DEF StatusInvariant

\* The end of a pass.
LEMMA ReturnType ==
    ASSUME NEW r, Return(r), OthersOK
    PROVE  LocalsOK' /\ queue' \in BOOLEAN /\ timer' \in BOOLEAN
    BY NoObjectType DEF Return, LocalsOK, Steps, OthersOK

LEMMA PatchInvariant ==
    ASSUME StatusInvariant, PatchStatus \/ PatchStatusFails
    PROVE  StatusInvariant'
<1>1. /\ pc = "patchStatus" /\ pc # "idle" /\ UNCHANGED <<k1s, credsOK, lives>>
      /\ Return(ret) \/ Return("error")
      /\ (UNCHANGED faults \/ \E kind : Disturb(kind))
      /\ UNCHANGED versions \/ StoreStatus
    BY DEF PatchStatus, PatchStatusFails
<1>2. TypeOK /\ VersionsExplained /\ OthersOK /\ Explained(own.status)
    BY <1>1, PassType DEF Learnt
<1>3. VersionsExplained'
    BY <1>1, <1>2, PatchExplained DEF VersionsExplained
<1>4. LocalsOK' /\ queue' \in BOOLEAN /\ timer' \in BOOLEAN
    BY <1>1, <1>2, ReturnType
<1>5. OthersOK'
    BY <1>1, <1>2, <1>4, DisturbType DEF OthersOK
<1> QED BY <1>3, <1>4, <1>5 DEF StatusInvariant

LEMMA ReconcileInvariant ==
    ASSUME StatusInvariant, Reconcile
    PROVE  StatusInvariant'
    BY StartInvariant, ReadBootstrapInvariant, HealthInvariant, NodesInvariant,
       DiscoverInvariant, PatchInvariant
    DEF Reconcile

\* What users do to the object: create it, change its spec or mark it deleted without
\* touching the status, or remove it.
Touched(o) ==
    /\ o.exists
    /\ o.status = server.status
    /\ o.gen = server.gen + 1

LEMMA EditStored ==
    ASSUME NEW o \in Obj, NEW s \in Specs
    PROVE  LET e == [o EXCEPT !.spec = s, !.gen = @ + 1]
           IN  e \in Obj /\ e.exists = o.exists /\ e.status = o.status /\ e.gen = o.gen + 1
<1> DEFINE g == o.gen + 1
<1>1. g \in Nat
    BY ObjType
<1> HIDE DEF g
<1>2. LET e == [o EXCEPT !.spec = s, !.gen = g]
      IN  e \in Obj /\ e.exists = o.exists /\ e.status = o.status /\ e.gen = g
    BY <1>1, ClusterAssumption DEF Obj, K1sClusterObject, K1sClusterRecord
<1> QED BY <1>2, Zenon DEF g

LEMMA DeleteStored ==
    ASSUME NEW o \in Obj
    PROVE  LET e == [o EXCEPT !.deleting = TRUE, !.gen = @ + 1]
           IN  e \in Obj /\ e.exists = o.exists /\ e.status = o.status /\ e.gen = o.gen + 1
<1> DEFINE g == o.gen + 1
<1>1. g \in Nat
    BY ObjType
<1> HIDE DEF g
<1>2. LET e == [o EXCEPT !.deleting = TRUE, !.gen = g]
      IN  e \in Obj /\ e.exists = o.exists /\ e.status = o.status /\ e.gen = g
    BY <1>1, ClusterAssumption DEF Obj, K1sClusterObject, K1sClusterRecord
<1> QED BY <1>2, Zenon DEF g

LEMMA EnvironmentWrites ==
    ASSUME TypeOK, Environment
    PROVE  /\ UNCHANGED <<queue, timer, pc, own, ret>>
           /\ \/ UNCHANGED <<versions, lives>>
              \/ \E s \in Specs : /\ Store(NewObject(s)) /\ UNCHANGED faults
                                  /\ ~server.exists /\ lives < MaxLives /\ lives' = lives + 1
              \/ \E o \in Obj : /\ Store(o) /\ UNCHANGED <<lives, faults>>
                                /\ server.exists /\ (Touched(o) \/ o = NoObject)
<1>0. server \in Obj
    BY VersionsType
<1>1. ASSUME NEW s \in Specs, Create(s)
      PROVE  /\ UNCHANGED <<queue, timer, pc, own, ret, faults>>
             /\ Store(NewObject(s)) /\ ~server.exists /\ lives < MaxLives /\ lives' = lives + 1
    BY <1>1 DEF Create, CreateObject
<1>2. ASSUME NEW s \in Specs, Edit(s)
      PROVE  /\ UNCHANGED <<queue, timer, pc, own, ret, faults, lives>>
             /\ \E o \in Obj : Store(o) /\ server.exists /\ Touched(o)
  <2> DEFINE e == [server EXCEPT !.spec = s, !.gen = @ + 1]
  <2>1. /\ UNCHANGED <<queue, timer, pc, own, ret, faults, lives>>
        /\ Store(e) /\ server.exists
      BY <1>2 DEF Edit, EditObject
  <2>2. e \in Obj /\ Touched(e)
      BY <1>0, <2>1, EditStored DEF Touched
  <2> QED BY <2>1, <2>2, Zenon
<1>3. ASSUME Delete
      PROVE  /\ UNCHANGED <<queue, timer, pc, own, ret, faults, lives>>
             /\ \E o \in Obj : Store(o) /\ server.exists /\ (Touched(o) \/ o = NoObject)
  <2> DEFINE e == [server EXCEPT !.deleting = TRUE, !.gen = @ + 1]
  <2>1. /\ UNCHANGED <<queue, timer, pc, own, ret, faults, lives>>
        /\ server.exists
        /\ Store(e) \/ Store(NoObject)
      BY <1>3 DEF Delete, deleteObject
  <2>2. e \in Obj /\ Touched(e)
      BY <1>0, <2>1, DeleteStored DEF Touched
  <2> QED BY <2>1, <2>2, NoObjectType, Zenon
<1>4. ASSUME LoseCredentials \/ RestoreCredentials \/ World
      PROVE  UNCHANGED <<queue, timer, pc, own, ret, versions, lives>>
    BY <1>4 DEF LoseCredentials, RestoreCredentials, World
<1> QED BY <1>1, <1>2, <1>3, <1>4, Zenon DEF Environment

LEMMA EnvironmentOthers ==
    ASSUME OthersOK, Environment
    PROVE  k1s' \in Worlds /\ credsOK' \in BOOLEAN /\ faults' \in 0 .. MaxFaults
<1>1. k1s \in Worlds /\ credsOK \in BOOLEAN /\ faults \in 0 .. MaxFaults
    BY DEF OthersOK
<1>2. CASE \/ \E s \in Specs : Create(s) \/ Edit(s)
           \/ Delete
    BY <1>1, <1>2 DEF Create, Edit, Delete, CreateObject, EditObject
<1>3. CASE LoseCredentials \/ RestoreCredentials
    BY <1>1, <1>3, DisturbType DEF LoseCredentials, RestoreCredentials
<1>4. CASE World
  <2>1. (\E kind : Disturb(kind)) /\ UNCHANGED credsOK
      BY <1>4 DEF World
  <2>2. k1s' \in Worlds
      BY <1>1, <1>4 DEF World, Worlds
  <2> QED BY <1>1, <2>1, <2>2, DisturbType
<1> QED BY <1>2, <1>3, <1>4 DEF Environment

LEMMA EnvironmentInvariant ==
    ASSUME StatusInvariant, Environment
    PROVE  StatusInvariant'
<1>1. TypeOK /\ VersionsExplained /\ LocalsOK /\ OthersOK
    BY InvariantParts DEF StatusInvariant
<1>2. UNCHANGED <<queue, timer, pc, own, ret>>
    BY <1>1, EnvironmentWrites
<1>3. LocalsOK'
    BY <1>1, <1>2 DEF LocalsOK
<1>4. Explained(server.status)
    BY <1>1, VersionsType DEF VersionsExplained
<1>5. VersionsExplained' /\ lives' \in 0 .. MaxLives
  <2>1. CASE UNCHANGED <<versions, lives>>
      BY <1>1, <2>1 DEF VersionsExplained, OthersOK
  <2>2. ASSUME NEW s \in Specs, Store(NewObject(s)), lives < MaxLives, lives' = lives + 1
        PROVE  VersionsExplained' /\ lives' \in 0 .. MaxLives
    <3>1. NewObject(s) \in Obj /\ Explained(NewObject(s).status)
        BY NewObjectType, NothingExplained
    <3> QED BY <1>1, <2>2, <3>1, StoreExplained, ClusterAssumption DEF OthersOK
  <2>3. ASSUME NEW o \in Obj, Store(o), UNCHANGED lives, Touched(o) \/ o = NoObject
        PROVE  VersionsExplained' /\ lives' \in 0 .. MaxLives
    <3>1. Explained(o.status)
        BY <1>4, <2>3, NoObjectType, NothingExplained DEF Touched
    <3> QED BY <1>1, <2>3, <3>1, StoreExplained DEF OthersOK
  <2> QED BY <1>1, <2>1, <2>2, <2>3, EnvironmentWrites
<1>6. k1s' \in Worlds /\ credsOK' \in BOOLEAN /\ faults' \in 0 .. MaxFaults
    BY <1>1, EnvironmentOthers
<1>7. OthersOK'
    BY <1>1, <1>2, <1>5, <1>6 DEF OthersOK
<1> QED BY <1>3, <1>5, <1>7 DEF StatusInvariant

LEMMA ManagerInvariant ==
    ASSUME StatusInvariant, Deliver \/ TimerFires \/ Resync \/ Crash
    PROVE  StatusInvariant'
<1>1. TypeOK /\ VersionsExplained /\ LocalsOK /\ OthersOK
    BY InvariantParts DEF StatusInvariant
<1>2. CASE Deliver
    BY <1>1, <1>2, DeliverExplained DEF Deliver, LocalsOK, OthersOK, StatusInvariant
<1>3. CASE TimerFires \/ Resync
    BY <1>1, <1>3
    DEF TimerFires, Resync, VersionsExplained, LocalsOK, OthersOK, StatusInvariant
<1>4. CASE Crash
  <2>1. VersionsExplained'
      BY <1>1, <1>4, RestartExplained
  <2>2. LocalsOK'
      BY <1>4, NoObjectType DEF Crash, LocalsOK, Steps
  <2>3. OthersOK'
      BY <1>1, <1>4, DisturbType DEF Crash, OthersOK
  <2> QED BY <2>1, <2>2, <2>3 DEF StatusInvariant
<1> QED BY <1>2, <1>3, <1>4

LEMMA InitInvariant ==
    ASSUME Init
    PROVE  StatusInvariant
<1>1. /\ versions = <<NoObject>> /\ credsOK = TRUE /\ queue = FALSE /\ timer = FALSE
      /\ pc = "idle" /\ own = NoObject /\ ret = "done" /\ faults = 0 /\ lives = 0
    BY DEF Init, ControllerInit
<1>2. versions \in Seq(Obj) /\ Len(versions) = 1 /\ versions[1] = NoObject
    BY <1>1, NoObjectType
<1>3. VersionsExplained
    BY <1>2, NoObjectType, NothingExplained, ClusterAssumption DEF VersionsExplained
<1>4. LocalsOK
    BY <1>1, NoObjectType DEF LocalsOK, Steps
<1>5. k1s \in Worlds
    BY DEF Init, Worlds, ProxyStates
<1>6. credsOK \in BOOLEAN /\ queue \in BOOLEAN /\ timer \in BOOLEAN
    BY <1>1, Zenon
<1>7. faults \in 0 .. MaxFaults /\ lives \in 0 .. MaxLives
    BY <1>1, ClusterAssumption
<1>8. OthersOK
    BY <1>5, <1>6, <1>7, Zenon DEF OthersOK
<1> QED BY <1>3, <1>4, <1>8 DEF StatusInvariant

\* A pass notes everything for the generation of its copy, and its verdict together
\* with what it rests on; the invariant of the next two theorems.
THEOREM StatusInvariantHolds == Spec => []StatusInvariant
<1>1. Init => StatusInvariant
    BY InitInvariant
<1>2. StatusInvariant /\ [Next]_vars => StatusInvariant'
  <2> SUFFICES ASSUME StatusInvariant, [Next]_vars PROVE StatusInvariant'
      OBVIOUS
  <2>1. CASE UNCHANGED vars
      BY <2>1 DEF vars, StatusInvariant, VersionsExplained, LocalsOK, OthersOK
  <2> QED BY <2>1, ReconcileInvariant, EnvironmentInvariant, ManagerInvariant DEF Next
<1> QED BY <1>1, <1>2, PTL DEF Spec

\* Every variable has its type: whatever k1s answers to GET /nodes, the status holds
\* numbers of nodes.
THEOREM ClusterTypeCorrect == Spec => []TypeOK
    BY StatusInvariantHolds, InvariantParts, PTL

\* Ready=True is never published without CredentialsValid, ControllerAvailable and
\* ProxyReady of the same generation, for any number of creations, edits, failures
\* and stale patches.
THEOREM VerdictsAreExplained == Spec => []ReadyExplained
<1>1. StatusInvariant => ReadyExplained
  <2> SUFFICES ASSUME StatusInvariant PROVE ReadyExplained
      OBVIOUS
  <2>1. Explained(server.status)
      BY InvariantParts, VersionsType DEF StatusInvariant, VersionsExplained
  <2> QED BY <2>1 DEF Explained, ReadyExplained
<1> QED BY <1>1, StatusInvariantHolds, PTL

-----------------------------------------------------------------------------
(* One generation, for an object that was created once.                    *)

LEMMA FollowsOrder ==
    ASSUME NEW vs \in Seq(Obj), vs # <<>>, NEW p, NEW o, Lineage(vs, p, o),
           NEW i \in 1 .. Len(vs), vs[Len(vs)].exists
    PROVE  Follows(vs[i], vs[Len(vs)])
<1>1. Len(vs) \in Nat \ {0}
    BY Ends
<1>2. CASE i = Len(vs)
    BY <1>2 DEF Lineage
<1>3. CASE i < Len(vs)
  <2>1. <<vs[i], vs[Len(vs)]>> \in Later
      BY <1>1, <1>3 DEF Lineage, Ordered
  <2> QED BY <2>1 DEF Later
<1> QED BY <1>1, <1>2, <1>3

\* A write that comes after all versions and, in the middle of a pass, after its copy.
LEMMA LineageStored ==
    ASSUME NEW vs \in Seq(Obj), vs # <<>>, NEW o \in Obj, NEW p, NEW q, NEW own0,
           Lineage(vs, p, own0), q \in {p, "idle"},
           \A i \in 1 .. Len(vs) : Follows(vs[i], o),
           Follows(o, o), OneGeneration(o.status),
           \/ ~o.exists
           \/ vs[Len(vs)].exists
           \/ \A i \in 1 .. Len(vs) : ~vs[i].exists,
           q # "idle" /\ o.exists => /\ o.status.observedGeneration <= own0.gen
                                     /\ own0.gen <= o.gen,
           NEW ws, ws = Append(vs, o)
    PROVE  Lineage(ws, q, own0)
<1>1. /\ Len(vs) \in Nat \ {0}
      /\ \A i \in 1 .. Len(vs) : vs[i] \in Obj
      /\ Len(ws) = Len(vs) + 1
      /\ \A i \in 1 .. Len(vs) : ws[i] = vs[i]
      /\ ws[Len(ws)] = o
    BY Ends, Stored
<1>2. \A i \in 1 .. Len(vs) : <<vs[i], o>> \in Later
    BY <1>1 DEF Later
<1>3. Ordered(ws, Later)
    BY <1>2, OrderedStored DEF Lineage
<1>4. Unbroken(ws)
    BY UnbrokenStored DEF Lineage
<1>5. \A i \in 1 .. Len(ws) : i \in 1 .. Len(vs) \/ i = Len(ws)
    BY <1>1
<1>6. \A i \in 1 .. Len(ws) : OneGeneration(ws[i].status) /\ Follows(ws[i], ws[i])
    BY <1>1, <1>5 DEF Lineage
<1>7. q # "idle" => \A i \in 1 .. Len(ws) : ws[i].exists =>
          ws[i].status.observedGeneration <= own0.gen /\ own0.gen <= ws[i].gen
    BY <1>1, <1>5 DEF Lineage
<1> QED BY <1>3, <1>4, <1>6, <1>7 DEF Lineage

LEMMA LineageDelivered ==
    ASSUME NEW vs \in Seq(Obj), NEW p, NEW o, Lineage(vs, p, o), NEW k \in 2 .. Len(vs),
           NEW ws, ws = SubSeq(vs, k, Len(vs))
    PROVE  Lineage(ws, p, o)
<1>1. Ordered(ws, Later) /\ Unbroken(ws)
    BY RelationsDelivered DEF Lineage
<1>2. \A i \in 1 .. Len(ws) : i + k - 1 \in 1 .. Len(vs) /\ ws[i] = vs[i + k - 1]
    BY DeliveredElements
<1>3. \A i \in 1 .. Len(ws) : \E j \in 1 .. Len(vs) : ws[i] = vs[j]
    BY <1>2
<1> QED BY <1>1, <1>3, Zenon DEF Lineage

LEMMA LineageRestarted ==
    ASSUME NEW vs \in Seq(Obj), vs # <<>>, NEW p, NEW o, NEW n, Lineage(vs, p, o)
    PROVE  Lineage(<<vs[Len(vs)]>>, "idle", n)
<1> DEFINE ws == <<vs[Len(vs)]>>
<1>1. Len(vs) \in 1 .. Len(vs)
    BY Ends
<1>2. Len(ws) = 1 /\ \A i \in 1 .. Len(ws) : ws[i] = vs[Len(vs)]
    OBVIOUS
<1> HIDE DEF ws
<1>3. Ordered(ws, Later) /\ Unbroken(ws)
    BY <1>2 DEF Ordered, Unbroken
<1>4. Lineage(ws, "idle", n)
    BY <1>1, <1>2, <1>3 DEF Lineage
<1> QED BY <1>4 DEF ws

\* A pass starts.
LEMMA LineageStarted ==
    ASSUME NEW vs \in Seq(Obj), vs # <<>>, NEW p, NEW o, Lineage(vs, p, o),
           Head(vs).exists, NEW q, NEW c, c.gen = Head(vs).gen
    PROVE  Lineage(vs, q, c)
<1>1. Len(vs) \in Nat \ {0} /\ Head(vs) = vs[1]
    BY Ends
<1>2. ASSUME NEW i \in 1 .. Len(vs), vs[i].exists
      PROVE  vs[i].status.observedGeneration <= c.gen /\ c.gen <= vs[i].gen
  <2>1. Follows(vs[1], vs[i])
    <3>1. CASE i = 1
        BY <1>1, <3>1 DEF Lineage
    <3>2. CASE 1 < i
      <4>1. <<vs[1], vs[i]>> \in Later
          BY <1>1, <3>2 DEF Lineage, Ordered
      <4> QED BY <4>1 DEF Later
    <3> QED BY <1>1, <3>1, <3>2
  <2> QED BY <1>1, <1>2, <2>1 DEF Follows
<1> QED BY <1>2 DEF Lineage

\* A pass goes on, or ends.
LEMMA LineageCarried ==
    ASSUME NEW vs, NEW p, NEW o, NEW q, NEW c, Lineage(vs, p, o),
           q = "idle" \/ (p # "idle" /\ c.gen = o.gen)
    PROVE  Lineage(vs, q, c)
    BY DEF Lineage

\* Between the cached version and the server's all versions exist if these two do.
LEMMA AllExist ==
    ASSUME NEW vs \in Seq(Obj), vs # <<>>, Unbroken(vs), vs[1].exists, vs[Len(vs)].exists,
           NEW i \in 1 .. Len(vs)
    PROVE  vs[i].exists
<1>1. Len(vs) \in Nat \ {0}
    BY Ends
<1>2. i = 1 \/ i = Len(vs) \/ (1 < i /\ i < Len(vs))
    BY <1>1
<1> QED BY <1>1, <1>2 DEF Unbroken

\* The patch that ends a pass: whichever fields it sends, what the server then holds
\* is of the generation of the pass.
LEMMA PatchLineage ==
    ASSUME StatusInvariant, Lineage(versions, pc, own), pc = "patchStatus",
           cached.exists, server.exists, StoreStatus
    PROVE  Lineage(versions', "idle", NoObject)
<1> DEFINE g == own.gen
           n == Len(versions)
<1>1. /\ TypeOK /\ own \in Obj
      /\ own.status.observedGeneration = g /\ OneGeneration(own.status)
      /\ own.status.conds["CredentialsValid"].status # "Unknown"
    BY PassType DEF Learnt
<1>2. /\ versions \in Seq(Obj) /\ versions # <<>> /\ n \in Nat \ {0}
      /\ cached = versions[1] /\ cached \in Obj
      /\ server = versions[n] /\ server \in Obj
      /\ 1 \in 1 .. n /\ n \in 1 .. n
      /\ \A i \in 1 .. n : versions[i] \in Obj
    BY <1>1, VersionsType
<1>3. PICK o : StatusWritten(o) /\ (Store(o) \/ StoreIfChanged(o))
    BY <1>1, StatusStored
<1>4. g \in Nat
    BY <1>1, ObjType
<1>5. \A i \in 1 .. n : versions[i].gen \in Nat /\ versions[i].status.observedGeneration \in Nat
    BY <1>2, ObjType
<1>6. \A i \in 1 .. n : versions[i].exists
    BY <1>2, AllExist DEF Lineage
<1>7. \A i \in 1 .. n : versions[i].status.observedGeneration <= g /\ g <= versions[i].gen
    BY <1>6 DEF Lineage
<1>8. \A i \in 1 .. n : Follows(versions[i], server)
    BY <1>2, FollowsOrder
<1>9. cached.status.observedGeneration = g => server.status.observedGeneration = g
  <2>1. cached.status.observedGeneration <= server.status.observedGeneration
      BY <1>2, <1>8 DEF Follows
  <2>2. server.status.observedGeneration <= g
      BY <1>2, <1>7
  <2> QED BY <1>2, <1>4, <1>5, <2>1, <2>2
<1>10. o.status.observedGeneration = g
    BY <1>1, <1>3, <1>9 DEF StatusWritten
<1>11. OneGeneration(o.status)
  <2>1. CASE o.status.conds = own.status.conds
      BY <1>1, <1>10, <2>1 DEF OneGeneration
  <2>2. CASE cached.status.conds = own.status.conds /\ o.status.conds = server.status.conds
    <3>1. "CredentialsValid" \in ClusterConditions
        BY DEF ClusterConditions
    <3>2. own.status.conds["CredentialsValid"] # NoCondition
        BY <1>1 DEF NoCondition
    <3>3. own.status.conds["CredentialsValid"].gen = g
        BY <1>1, <3>1, <3>2 DEF OneGeneration
    <3>4. OneGeneration(cached.status) /\ OneGeneration(server.status)
        BY <1>2 DEF Lineage
    <3>5. cached.status.observedGeneration = g
        BY <2>2, <3>1, <3>2, <3>3, <3>4 DEF OneGeneration
    <3> QED BY <1>9, <1>10, <2>2, <3>4, <3>5 DEF OneGeneration
  <2> QED BY <1>3, <2>1, <2>2 DEF StatusWritten
<1> HIDE DEF g, n
<1>12. o \in Obj /\ o.exists /\ o.gen = server.gen
    BY <1>3 DEF StatusWritten
<1>13. \A i \in 1 .. n : Follows(versions[i], o)
  <2> SUFFICES ASSUME NEW i \in 1 .. n PROVE Follows(versions[i], o)
      OBVIOUS
  <2>1. versions[i].gen <= o.gen
      BY <1>8, <1>12 DEF Follows
  <2> QED BY <1>7, <1>10, <2>1 DEF Follows
<1>14. Follows(o, o)
    BY <1>2, <1>4, <1>5, <1>7, <1>10, <1>12 DEF Follows
<1>15. CASE UNCHANGED versions
    BY <1>15, LineageCarried
<1>16. CASE versions' = Append(versions, o)
  <2>1. Lineage(versions', "idle", own)
      BY <1>2, <1>11, <1>12, <1>13, <1>14, <1>16, LineageStored DEF n
  <2> QED BY <2>1, LineageCarried
<1> QED BY <1>3, <1>15, <1>16 DEF StoreIfChanged, Store

\* Reconcile keeps the lineage, and does not run before there is an object.
LEMMA ReconcileLineage ==
    ASSUME StatusInvariant, Lineage(versions, pc, own), Reconcile
    PROVE  Lineage(versions', pc', own')
<1>1. /\ TypeOK /\ versions \in Seq(Obj) /\ versions # <<>> /\ cached = Head(versions)
      /\ cached \in Obj /\ own \in Obj
    BY InvariantParts, VersionsType DEF cached, StatusInvariant, LocalsOK
<1>2. CASE Start
  <2>1. UNCHANGED versions
      BY <1>2 DEF Start, Learn
  <2>2. CASE UNCHANGED <<pc, own>>
      BY <2>1, <2>2
  <2>3. CASE cached.exists /\ \E st : own' = [cached EXCEPT !.status = st]
    <3>1. own'.gen = cached.gen
        BY <1>1, <2>3 DEF Obj, K1sClusterObject, K1sClusterRecord
    <3> QED BY <1>1, <2>1, <2>3, <3>1, LineageStarted
  <2> QED BY <1>2, <2>2, <2>3 DEF Start, Learn
<1>3. CASE ReadBootstrap \/ Health \/ Healthz \/ Nodes \/ Discover
  <2>1. /\ pc # "idle" /\ UNCHANGED versions
        /\ \E st : own' = [own EXCEPT !.status = st]
      BY <1>3 DEF ReadBootstrap, Health, Healthz, Nodes, Discover, Learn, WriteStatus
  <2>2. own'.gen = own.gen
      BY <1>1, <2>1 DEF Obj, K1sClusterObject, K1sClusterRecord
  <2> QED BY <2>1, <2>2, LineageCarried
<1>4. CASE PatchStatus \/ PatchStatusFails
  <2>1. /\ pc = "patchStatus" /\ pc' = "idle" /\ own' = NoObject
        /\ UNCHANGED versions \/ (cached.exists /\ server.exists /\ StoreStatus)
      BY <1>4 DEF PatchStatus, PatchStatusFails, Return
  <2> QED BY <2>1, PatchLineage, LineageCarried
<1> QED BY <1>2, <1>3, <1>4 DEF Reconcile

LEMMA NothingFollows ==
    ASSUME NEW s \in Specs
    PROVE  /\ Follows(NoObject, NewObject(s)) /\ Follows(NewObject(s), NewObject(s))
           /\ OneGeneration(NewObject(s).status)
           /\ Follows(NoObject, NoObject)
<1>1. NoStatus.observedGeneration = 0
    BY DEF NoStatus
<1> QED BY <1>1, NoObjectType, NewObjectType, NothingExplained DEF Follows

\* Users create the object where there was none.
LEMMA CreationLineage ==
    ASSUME NEW vs \in Seq(Obj), vs # <<>>, NEW p, NEW o, Lineage(vs, p, o), Unborn(vs, p),
           NEW s \in Specs, NEW ws, ws = Append(vs, NewObject(s))
    PROVE  Lineage(ws, p, o)
<1>1. p = "idle" /\ \A i \in 1 .. Len(vs) : vs[i] = NoObject
    BY DEF Unborn
<1>2. NewObject(s) \in Obj
    BY NewObjectType
<1>3. \A i \in 1 .. Len(vs) : Follows(vs[i], NewObject(s)) /\ ~vs[i].exists
    BY <1>1, NothingFollows, NoObjectType
<1> QED BY <1>1, <1>2, <1>3, NothingFollows, LineageStored

\* Users change or remove an object that is there.
LEMMA ChangeLineage ==
    ASSUME NEW vs \in Seq(Obj), vs # <<>>, NEW p, NEW c \in Obj, Lineage(vs, p, c),
           NEW s, s = vs[Len(vs)], s.exists, NEW o \in Obj,
           \/ o.exists /\ o.status = s.status /\ o.gen = s.gen + 1
           \/ o = NoObject,
           NEW ws, ws = Append(vs, o)
    PROVE  Lineage(ws, p, c)
<1>1. CASE o = NoObject
  <2>1. ~o.exists /\ OneGeneration(o.status)
      BY <1>1, NoObjectType, NothingExplained
  <2>2. Follows(o, o) /\ \A i \in 1 .. Len(vs) : Follows(vs[i], o)
      BY <2>1 DEF Follows
  <2> QED BY <2>1, <2>2, LineageStored
<1>2. CASE o.exists /\ o.status = s.status /\ o.gen = s.gen + 1
  <2>1. /\ Len(vs) \in 1 .. Len(vs) /\ s \in Obj /\ s.gen \in Nat /\ c.gen \in Nat
        /\ s.status.observedGeneration \in Nat
        /\ \A i \in 1 .. Len(vs) : vs[i].gen \in Nat
      BY Ends, ObjType
  <2>2. \A i \in 1 .. Len(vs) : Follows(vs[i], s)
      BY FollowsOrder
  <2>3. OneGeneration(o.status)
      BY <1>2, <2>1 DEF Lineage
  <2>4. \A i \in 1 .. Len(vs) : Follows(vs[i], o)
      BY <1>2, <2>1, <2>2 DEF Follows
  <2>5. Follows(s, s)
      BY <2>1, <2>2
  <2>6. Follows(o, o)
      BY <1>2, <2>1, <2>5 DEF Follows
  <2>7. p # "idle" => o.status.observedGeneration <= c.gen /\ c.gen <= o.gen
      BY <1>2, <2>1 DEF Lineage
  <2> QED BY <2>3, <2>4, <2>6, <2>7, LineageStored
<1> QED BY <1>1, <1>2

LEMMA EnvironmentGeneration ==
    ASSUME StatusInvariant, GenerationInvariant, Environment
    PROVE  GenerationInvariant'
<1>1. /\ TypeOK /\ versions \in Seq(Obj) /\ versions # <<>> /\ own \in Obj
      /\ server = versions[Len(versions)] /\ lives \in Nat
    BY InvariantParts, VersionsType, ClusterAssumption
    DEF StatusInvariant, LocalsOK, OthersOK
<1>2. UNCHANGED <<pc, own>>
    BY <1>1, EnvironmentWrites
<1>3. CASE UNCHANGED <<versions, lives>>
    BY <1>2, <1>3 DEF GenerationInvariant
<1>4. ASSUME NEW s \in Specs, Store(NewObject(s)), lives' = lives + 1
      PROVE  GenerationInvariant'
  <2>1. CASE lives = 0
    <3>1. Lineage(versions, pc, own) /\ Unborn(versions, pc)
        BY <2>1 DEF GenerationInvariant
    <3>2. Lineage(versions', pc, own)
        BY <1>1, <1>4, <3>1, CreationLineage DEF Store
    <3> QED BY <1>1, <1>2, <1>4, <3>2 DEF GenerationInvariant
  <2>2. CASE lives # 0
      BY <1>1, <1>4, <2>2 DEF GenerationInvariant
  <2> QED BY <2>1, <2>2
<1>5. ASSUME NEW o \in Obj, Store(o), UNCHANGED lives, server.exists,
             Touched(o) \/ o = NoObject
      PROVE  GenerationInvariant'
  <2>1. lives # 0
      BY <1>1, <1>5, Ends, NoObjectType DEF GenerationInvariant, Unborn
  <2>2. CASE lives <= 1
    <3>1. Lineage(versions', pc, own)
        BY <1>1, <1>5, <2>2, ChangeLineage DEF GenerationInvariant, Store, Touched
    <3> QED BY <1>2, <1>5, <2>1, <3>1 DEF GenerationInvariant
  <2>3. CASE ~(lives <= 1)
      BY <1>5, <2>1, <2>3 DEF GenerationInvariant
  <2> QED BY <2>2, <2>3
<1> QED BY <1>1, <1>3, <1>4, <1>5, EnvironmentWrites

LEMMA ReconcileGeneration ==
    ASSUME StatusInvariant, GenerationInvariant, Reconcile
    PROVE  GenerationInvariant'
<1>1. TypeOK /\ versions # <<>> /\ versions \in Seq(Obj) /\ cached = versions[1]
    BY InvariantParts, VersionsType
<1>2. UNCHANGED lives
    BY DEF Reconcile, Start, ReadBootstrap, Health, Healthz, Nodes, Discover, Learn,
           PatchStatus, PatchStatusFails
<1>3. ASSUME lives = 0 PROVE Unborn(versions, pc)'
  <2>1. pc = "idle" /\ ~cached.exists
      BY <1>1, <1>3, Ends, NoObjectType DEF GenerationInvariant, Unborn
  <2>2. UNCHANGED <<versions, pc>>
      BY <2>1 DEF Reconcile, Start, ReadBootstrap, Health, Healthz, Nodes, Discover,
                  PatchStatus, PatchStatusFails
  <2> QED BY <1>3, <2>2 DEF GenerationInvariant
<1>4. lives <= 1 => Lineage(versions', pc', own')
    BY ReconcileLineage DEF GenerationInvariant
<1> QED BY <1>2, <1>3, <1>4 DEF GenerationInvariant

LEMMA ManagerGeneration ==
    ASSUME StatusInvariant, GenerationInvariant, Deliver \/ TimerFires \/ Resync \/ Crash
    PROVE  GenerationInvariant'
<1>1. TypeOK /\ versions # <<>> /\ versions \in Seq(Obj) /\ server = versions[Len(versions)]
    BY InvariantParts, VersionsType
<1>2. CASE Deliver
  <2>1. PICK k \in 2 .. Len(versions) : versions' = SubSeq(versions, k, Len(versions))
      BY <1>2 DEF Deliver
  <2>2. UNCHANGED <<pc, own, lives>>
      BY <1>2 DEF Deliver
  <2>3. lives <= 1 => Lineage(versions', pc, own)
      BY <1>1, <2>1, LineageDelivered DEF GenerationInvariant
  <2>4. \A i \in 1 .. Len(versions') :
            i + k - 1 \in 1 .. Len(versions) /\ versions'[i] = versions[i + k - 1]
      BY <1>1, <2>1, DeliveredElements
  <2>5. Unborn(versions, pc) => Unborn(versions', pc)
      BY <2>4 DEF Unborn
  <2> QED BY <2>2, <2>3, <2>5 DEF GenerationInvariant
<1>3. CASE TimerFires \/ Resync
    BY <1>3 DEF TimerFires, Resync, GenerationInvariant
<1>4. CASE Crash
  <2>1. versions' = <<versions[Len(versions)]>> /\ pc' = "idle" /\ own' = NoObject
        /\ UNCHANGED lives
      BY <1>1, <1>4 DEF Crash
  <2>2. lives <= 1 => Lineage(versions', pc', own')
      BY <1>1, <2>1, LineageRestarted DEF GenerationInvariant
  <2>3. Unborn(versions, pc) => Unborn(versions', pc')
      BY <1>1, <2>1, Ends DEF Unborn
  <2> QED BY <2>1, <2>2, <2>3 DEF GenerationInvariant
<1> QED BY <1>2, <1>3, <1>4

\* The order of versions and copies that keeps the generations together.
THEOREM GenerationInvariantHolds == Spec => []GenerationInvariant
<1>1. Init => GenerationInvariant
  <2> SUFFICES ASSUME Init PROVE GenerationInvariant
      OBVIOUS
  <2>1. versions = <<NoObject>> /\ pc = "idle"
      BY DEF Init, ControllerInit
  <2>2. Len(versions) = 1 /\ \A i \in 1 .. Len(versions) : versions[i] = NoObject
      BY <2>1
  <2>3. Ordered(versions, Later) /\ Unbroken(versions)
      BY <2>2 DEF Ordered, Unbroken
  <2>4. Follows(NoObject, NoObject) /\ OneGeneration(NoObject.status)
      BY NoObjectType, NothingExplained DEF Follows
  <2> QED BY <2>1, <2>2, <2>3, <2>4 DEF GenerationInvariant, Lineage, Unborn
<1>2. StatusInvariant /\ GenerationInvariant /\ [Next]_vars => GenerationInvariant'
  <2> SUFFICES ASSUME StatusInvariant, GenerationInvariant, [Next]_vars
               PROVE  GenerationInvariant'
      OBVIOUS
  <2>1. CASE UNCHANGED vars
      BY <2>1 DEF vars, GenerationInvariant
  <2> QED BY <2>1, ReconcileGeneration, EnvironmentGeneration, ManagerGeneration DEF Next
<1> QED BY <1>1, <1>2, StatusInvariantHolds, PTL DEF Spec

\* Of a cluster that was created once the published conditions are all of the
\* generation in observedGeneration, although the two are sent apart, each only if it
\* differs from a cached copy that may be old.
THEOREM StatusesAreOfOneGeneration == Spec => []StatusOfOneGeneration
<1>1. StatusInvariant /\ GenerationInvariant => StatusOfOneGeneration
  <2> SUFFICES ASSUME StatusInvariant, GenerationInvariant, lives = 1
               PROVE  OneGeneration(server.status)
      BY DEF StatusOfOneGeneration, OneGeneration
  <2>1. server = versions[Len(versions)] /\ Len(versions) \in 1 .. Len(versions)
      BY InvariantParts, VersionsType
  <2> QED BY <2>1 DEF GenerationInvariant, Lineage
<1> QED BY <1>1, StatusInvariantHolds, GenerationInvariantHolds, PTL
=============================================================================
