------------------------- MODULE K1sResourceSetReady -------------------------
(***************************************************************************)
(* The proof that a resource set which is Ready is deployed.               *)
(*                                                                         *)
(* The reconciler trusts two things that its stale copy says: a hash that  *)
(* equals that of the spec means "applied already", and Ready is written   *)
(* for the generation of the copy. The proof shows what makes that safe:   *)
(* the copies that are around (the cached version, the undelivered ones,   *)
(* the one being reconciled) stand in the order in which they were made,   *)
(* no hash and no Ready condition is ahead of the copy being reconciled,   *)
(* and a claim about the newest spec is therefore the claim of a reconcile *)
(* whose calls nobody has undone since.                                    *)
(***************************************************************************)
EXTENDS K1sResourceSetProofs

CONSTANT Rank  \* how far along the users' edits a list of manifests is

-----------------------------------------------------------------------------
(* Under which users and disturbances.                                     *)

\* a is b, or users come to b after a.
NoLater(a, b) == a = b \/ Rank[a] < Rank[b]

\* Users never go back to a list of manifests they have left: then a hash that is
\* too old could look like the right one.
ForwardEdits ==
    /\ Rank \in [Seq(Manifests) -> Nat]
    /\ \A s, t \in Specs : <<s, t>> \in Edits => NoLater(s.manifests, t.manifests)

\* No list holds two manifests for the same resource.
OneRevision ==
    \A s \in Specs : \A m, n \in Elements(s.manifests) : RefOf[m] = RefOf[n] => m = n

\* The object is created once and nobody else deletes its resources from k1s: the
\* reconciler never looks whether what it applied is still there.
SteadyUsers ==
    /\ ForwardEdits
    /\ OneRevision
    /\ MaxLives = 1
    /\ "outOfBand" \notin Faults

-----------------------------------------------------------------------------
(* The invariant. Its parts are about any versions vs, step p, copy o and  *)
(* state k of k1s, so that a step can be taken apart into its effects.     *)

Newest(vs) == vs[Len(vs)]

\* The copies from which a hash or a condition may still spread.
Copies(vs, p, o) == Elements(vs) \cup (IF p = "idle" THEN {} ELSE {o})

\* b is the same object as a, at the same time or later.
Before(a, b) ==
    (a.exists /\ b.exists) =>
        /\ a.gen <= b.gen
        /\ a.gen = b.gen => a.spec = b.spec
        /\ a.deleting => b.deleting
        /\ NoLater(a.spec.manifests, b.spec.manifests)

Later == {pair \in Obj \X Obj : Before(pair[1], pair[2])}

\* No reconcile has written to the object.
Blank(o) == o.hash = NoHash /\ o.status = NoStatus

\* The copies are in order, and an object that the cache does not show yet has not
\* been reconciled.
Lineage(vs, p, o) ==
    /\ Ordered(vs, Later)
    /\ Unbroken(vs)
    /\ p # "idle" => \A v \in Elements(vs) : Before(o, v)
    /\ (~Head(vs).exists /\ \E v \in Elements(vs) : v.exists)
       => p = "idle" /\ \A v \in Elements(vs) : Blank(v)

ReadyCondition(o) == o.status.conds["Ready"]

\* What the hash and the Ready condition of c say is no news for o.
Bounded(c, o) ==
    /\ \A s \in Specs : c.hash = hashManifestSet(s.manifests) =>
           NoLater(s.manifests, o.spec.manifests)
    /\ ReadyCondition(c).status = "True" => ReadyCondition(c).gen <= o.gen

Bounds(vs, p, o) ==
    \A c \in Copies(vs, p, o) :
        /\ Head(vs).exists => Bounded(c, Head(vs))
        /\ p # "idle" => Bounded(c, o)

\* c says that the spec of s is deployed.
Claims(c, s) ==
    \/ c.hash = hashManifestSet(s.spec.manifests)
    \/ ReadyCondition(c).status = "True" /\ ReadyCondition(c).gen = s.gen

DeployedIn(k, s) == \A m \in Elements(s.manifests) : k[RefOf[m]] = m

\* What a copy claims about the newest version is true.
Truth(vs, p, o, k) ==
    (Newest(vs).exists /\ ~Newest(vs).deleting) =>
        \A c \in Copies(vs, p, o) :
            Claims(c, Newest(vs)) => DeployedIn(k, Newest(vs).spec)

Honest(vs, p, o, k) == Lineage(vs, p, o) /\ Bounds(vs, p, o) /\ Truth(vs, p, o, k)

\* How far each loop has come.
Progress(p, o, k, list) ==
    /\ p = "deleteResources" => o.deleting
    /\ p = "prune" => RefOf[Head(list)] \notin desiredKeys(o.spec)
    /\ p = "apply" =>
          /\ Elements(list) \subseteq Elements(o.spec.manifests)
          /\ \A m \in Elements(o.spec.manifests) :
                RefOf[m] \in Refs /\ (m \in Elements(list) \/ k[RefOf[m]] = m)
    /\ p = "patchHash" => DeployedIn(k, o.spec)

\* Before the creation there is nothing.
Unborn(vs, p) == p = "idle" /\ \A v \in Elements(vs) : v = NoObject

ReadyInvariant ==
    /\ Honest(versions, pc, own, k1s)
    /\ Progress(pc, own, k1s, todo)
    /\ lives = 0 => Unborn(versions, pc)

-----------------------------------------------------------------------------
(* Lists, hashes and the order of copies.                                  *)

LEMMA NoLaterOrder ==
    ASSUME SteadyUsers, NEW a \in Seq(Manifests), NEW b \in Seq(Manifests),
           NEW c \in Seq(Manifests), NoLater(a, b), NoLater(b, c)
    PROVE  NoLater(a, c) /\ (c = a => b = a)
<1>1. Rank[a] \in Nat /\ Rank[b] \in Nat /\ Rank[c] \in Nat
    BY DEF SteadyUsers, ForwardEdits
<1> QED BY <1>1 DEF NoLater

LEMMA HashFacts ==
    /\ \A a, b : hashManifestSet(a) = hashManifestSet(b) => a = b
    /\ \A a : hashManifestSet(a) # NoHash
    BY DEF hashManifestSet, hashBytes, NoHash

LEMMA ReadyType ==
    ASSUME NEW o \in Obj
    PROVE  ReadyCondition(o).gen \in Nat
    BY ObjType DEF ReadyCondition, K1sResourceSetStatus, Conditions, SetConditions

\* An object nobody reconciled says nothing.
LEMMA BlankSaysNothing ==
    ASSUME NEW c, Blank(c)
    PROVE  /\ \A o : Bounded(c, o)
           /\ \A s : ~Claims(c, s)
<1>1. ReadyCondition(c).status = "Unknown"
    BY DEF Blank, ReadyCondition, NoStatus, SetConditions, NoCondition
<1> QED BY <1>1, HashFacts DEF Blank, Bounded, Claims

LEMMA BeforeSelf ==
    ASSUME NEW o \in Obj
    PROVE  Before(o, o)
    BY ObjType DEF Before, NoLater

LEMMA BeforeChain ==
    ASSUME SteadyUsers, NEW a \in Obj, NEW b \in Obj, NEW c \in Obj, b.exists,
           Before(a, b), Before(b, c)
    PROVE  Before(a, c)
<1> SUFFICES ASSUME a.exists, c.exists
             PROVE  /\ a.gen <= c.gen
                    /\ a.gen = c.gen => a.spec = c.spec
                    /\ a.deleting => c.deleting
                    /\ NoLater(a.spec.manifests, c.spec.manifests)
    BY DEF Before
<1>1. /\ a.gen \in Nat /\ b.gen \in Nat /\ c.gen \in Nat
      /\ a.spec.manifests \in Seq(Manifests)
      /\ b.spec.manifests \in Seq(Manifests)
      /\ c.spec.manifests \in Seq(Manifests)
    BY ObjType, SpecType
<1>2. NoLater(a.spec.manifests, c.spec.manifests)
    BY <1>1, NoLaterOrder DEF Before
<1>3. a.gen <= b.gen /\ b.gen <= c.gen
    BY DEF Before
<1>4. a.gen = c.gen => a.gen = b.gen /\ b.gen = c.gen
    BY <1>1, <1>3
<1> QED BY <1>1, <1>2, <1>3, <1>4 DEF Before

\* What is no news for a copy is none for a later one.
LEMMA BoundedLater ==
    ASSUME SteadyUsers, NEW c \in Obj, NEW a \in Obj, NEW b \in Obj, a.exists, b.exists,
           Before(a, b), Bounded(c, a)
    PROVE  Bounded(c, b)
<1>1. /\ a.gen \in Nat /\ b.gen \in Nat /\ a.gen <= b.gen
      /\ ReadyCondition(c).gen \in Nat
      /\ a.spec.manifests \in Seq(Manifests)
      /\ b.spec.manifests \in Seq(Manifests)
      /\ NoLater(a.spec.manifests, b.spec.manifests)
    BY ObjType, SpecType, ReadyType DEF Before
<1>2. ASSUME NEW s \in Specs, c.hash = hashManifestSet(s.manifests)
      PROVE  NoLater(s.manifests, b.spec.manifests)
  <2>1. s.manifests \in Seq(Manifests)
      BY ResourceAssumption DEF K1sResourceSetSpec
  <2>2. NoLater(s.manifests, a.spec.manifests)
      BY <1>2 DEF Bounded
  <2> QED BY <1>1, <2>1, <2>2, NoLaterOrder
<1>3. ReadyCondition(c).status = "True" => ReadyCondition(c).gen <= b.gen
    BY <1>1 DEF Bounded
<1> QED BY <1>2, <1>3 DEF Bounded

\* A claim about s that is no news for an earlier copy o: o has the same list.
LEMMA ClaimOfReader ==
    ASSUME SteadyUsers, NEW c \in Obj, NEW o \in Obj, NEW s \in Obj, o.exists, s.exists,
           Before(o, s), Bounded(c, o), Claims(c, s)
    PROVE  o.spec.manifests = s.spec.manifests
<1>1. /\ o.gen \in Nat /\ s.gen \in Nat /\ o.gen <= s.gen
      /\ o.spec.manifests \in Seq(Manifests)
      /\ s.spec.manifests \in Seq(Manifests)
      /\ s.spec \in Specs
      /\ NoLater(o.spec.manifests, s.spec.manifests)
    BY ObjType, SpecType DEF Before
<1>2. CASE c.hash = hashManifestSet(s.spec.manifests)
  <2>1. NoLater(s.spec.manifests, o.spec.manifests)
      BY <1>1, <1>2 DEF Bounded
  <2> QED BY <1>1, <2>1, NoLaterOrder
<1>3. CASE ReadyCondition(c).status = "True" /\ ReadyCondition(c).gen = s.gen
  <2>1. s.gen = o.gen
      BY <1>1, <1>3 DEF Bounded
  <2> QED BY <2>1 DEF Before
<1> QED BY <1>2, <1>3 DEF Claims

-----------------------------------------------------------------------------
(* The set of versions.                                                    *)

LEMMA Members ==
    ASSUME NEW vs \in Seq(Obj), vs # <<>>
    PROVE  /\ Elements(vs) \subseteq Obj
           /\ Elements(vs) = {vs[i] : i \in 1 .. Len(vs)}
           /\ Head(vs) \in Elements(vs)
           /\ Newest(vs) \in Elements(vs)
<1>1. /\ DOMAIN vs = 1 .. Len(vs)
      /\ Len(vs) \in Nat \ {0}
      /\ \A i \in 1 .. Len(vs) : vs[i] \in Obj
      /\ Head(vs) = vs[1]
    BY Ends
<1> QED BY <1>1 DEF Elements, Newest

LEMMA MembersStored ==
    ASSUME NEW vs \in Seq(Obj), vs # <<>>, NEW x \in Obj, NEW ws, ws = Append(vs, x)
    PROVE  /\ ws \in Seq(Obj)
           /\ ws # <<>>
           /\ Elements(ws) = Elements(vs) \cup {x}
           /\ Head(ws) = Head(vs)
           /\ Newest(ws) = x
<1>1. /\ ws \in Seq(Obj)
      /\ ws # <<>>
      /\ Len(ws) = Len(vs) + 1
      /\ \A i \in 1 .. Len(vs) : ws[i] = vs[i]
      /\ ws[Len(ws)] = x
      /\ Head(ws) = Head(vs)
    BY Stored
<1>2. Elements(vs) = {vs[i] : i \in 1 .. Len(vs)} /\ Len(vs) \in Nat
    BY Members
<1>3. Elements(ws) = {ws[i] : i \in 1 .. Len(vs) + 1}
    BY <1>1, Members
<1>4. Elements(ws) = Elements(vs) \cup {x}
  <2>1. \A i \in 1 .. Len(vs) + 1 : i \in 1 .. Len(vs) \/ i = Len(vs) + 1
      BY <1>2
  <2>2. \A i \in 1 .. Len(vs) : i \in 1 .. Len(vs) + 1
      BY <1>2
  <2>3. Len(vs) + 1 \in 1 .. Len(vs) + 1
      BY <1>2
  <2> QED BY <1>1, <1>2, <1>3, <2>1, <2>2, <2>3
<1> QED BY <1>1, <1>4 DEF Newest

LEMMA MembersDelivered ==
    ASSUME NEW vs \in Seq(Obj), vs # <<>>, NEW k \in 2 .. Len(vs),
           NEW ws, ws = SubSeq(vs, k, Len(vs))
    PROVE  /\ ws \in Seq(Obj)
           /\ ws # <<>>
           /\ Elements(ws) \subseteq Elements(vs)
           /\ Newest(ws) = Newest(vs)
           /\ Unbroken(vs) /\ Head(vs).exists /\ ~Head(ws).exists
              => \A v \in Elements(ws) : ~v.exists
<1>1. /\ ws \in Seq(Obj)
      /\ ws # <<>>
      /\ ws[Len(ws)] = vs[Len(vs)]
    BY Delivered
<1>2. /\ Len(ws) = Len(vs) - k + 1
      /\ \A i \in 1 .. Len(ws) : i + k - 1 \in 1 .. Len(vs) /\ ws[i] = vs[i + k - 1]
    BY DeliveredElements
<1>3. /\ Elements(vs) = {vs[i] : i \in 1 .. Len(vs)}
      /\ Elements(ws) = {ws[i] : i \in 1 .. Len(ws)}
    BY <1>1, Members
<1>4. /\ Len(vs) \in Nat \ {0} /\ Head(vs) = vs[1]
      /\ Len(ws) \in Nat \ {0} /\ Head(ws) = ws[1]
    BY <1>1, Ends
<1>5. ASSUME Unbroken(vs), Head(vs).exists, ~Head(ws).exists, NEW v \in Elements(ws)
      PROVE  ~v.exists
  <2>1. PICK i \in 1 .. Len(ws) : v = ws[i]
      BY <1>3, <1>5
  <2>2. ws[1] = vs[k] /\ v = vs[i + k - 1] /\ i + k - 1 \in 1 .. Len(vs)
      BY <1>2, <1>4, <2>1
  <2>3. CASE i = 1
      BY <1>4, <1>5, <2>1, <2>3
  <2>4. CASE i > 1
    <3>1. PICK n \in 1 .. Len(vs) : v = vs[n] /\ k < n
        BY <1>4, <2>1, <2>2, <2>4
    <3>2. 1 \in 1 .. Len(vs) /\ k \in 1 .. Len(vs) /\ 1 < k
        BY <1>4
    <3> QED BY <1>4, <1>5, <2>2, <3>1, <3>2 DEF Unbroken
  <2> QED BY <2>1, <2>3, <2>4
<1>6. Elements(ws) \subseteq Elements(vs)
    BY <1>2, <1>3
<1> QED BY <1>1, <1>5, <1>6 DEF Newest

\* The cached version comes before all others, and all before the newest.
LEMMA EndsBefore ==
    ASSUME NEW vs \in Seq(Obj), vs # <<>>, Ordered(vs, Later), NEW v \in Elements(vs)
    PROVE  Before(Head(vs), v) /\ Before(v, Newest(vs))
<1>1. /\ Len(vs) \in Nat \ {0}
      /\ Head(vs) = vs[1]
      /\ \A i \in 1 .. Len(vs) : vs[i] \in Obj
    BY Ends
<1>2. PICK i \in 1 .. Len(vs) : v = vs[i]
    BY Members
<1>3. \A x, y : <<x, y>> \in Later => Before(x, y)
    BY DEF Later
<1>4. Before(vs[1], v)
  <2>1. CASE i = 1
      BY <1>1, <1>2, <2>1, BeforeSelf
  <2>2. CASE i > 1
    <3>1. 1 \in 1 .. Len(vs) /\ 1 < i
        BY <1>1, <2>2
    <3>2. <<vs[1], vs[i]>> \in Later
        BY <3>1 DEF Ordered
    <3> QED BY <1>2, <1>3, <3>2
  <2> QED BY <1>1, <1>2, <2>1, <2>2
<1>5. Before(v, vs[Len(vs)])
  <2>1. CASE i = Len(vs)
      BY <1>1, <1>2, <2>1, BeforeSelf
  <2>2. CASE i < Len(vs)
    <3>1. Len(vs) \in 1 .. Len(vs)
        BY <1>1
    <3>2. <<vs[i], vs[Len(vs)]>> \in Later
        BY <2>2, <3>1 DEF Ordered
    <3> QED BY <1>2, <1>3, <3>2
  <2> QED BY <1>1, <1>2, <2>1, <2>2
<1> QED BY <1>1, <1>4, <1>5 DEF Newest

-----------------------------------------------------------------------------
(* The effects of the steps on the versions.                               *)

\* x is s after a write of the environment or of a reconciler at step p with copy o.
Revised(s, x, p, o) ==
    /\ s.exists
    /\ x.exists
    /\ \/ x.gen = s.gen /\ x.deleting = s.deleting /\ x.spec = s.spec
       \/ x.gen = s.gen + 1 /\ x.deleting = s.deleting /\ <<s.spec, x.spec>> \in Edits
       \/ x.gen = s.gen + 1 /\ x.deleting /\ x.spec = s.spec
    /\ \/ x.hash = s.hash
       \/ p = "patchHash" /\ x.hash = hashManifestSet(o.spec.manifests)
    /\ \/ x.status = s.status
       \/ p = "patchStatus" /\ ReadyCondition(x) \in {ReadyCondition(s), ReadyCondition(o)}

LEMMA RevisedBefore ==
    ASSUME SteadyUsers, NEW s \in Obj, NEW x \in Obj, NEW p, NEW o, Revised(s, x, p, o)
    PROVE  Before(s, x)
<1>1. s.gen \in Nat /\ s.spec \in Specs /\ x.spec \in Specs
    BY ObjType, SpecType DEF Revised
<1>2. NoLater(s.spec.manifests, x.spec.manifests)
    BY <1>1 DEF Revised, SteadyUsers, ForwardEdits, NoLater
<1> QED BY <1>1, <1>2 DEF Revised, Before

\* A new version of which what precedes says all.
LEMMA LineageStored ==
    ASSUME SteadyUsers, NEW vs \in Seq(Obj), vs # <<>>, NEW x \in Obj, NEW p, NEW o \in Obj,
           Lineage(vs, p, o), Newest(vs).exists, Before(Newest(vs), x),
           p = "idle" /\ Blank(Newest(vs)) => Blank(x),
           NEW ws, ws = Append(vs, x)
    PROVE  Lineage(ws, p, o)
<1>1. /\ Elements(vs) \subseteq Obj
      /\ Newest(vs) \in Elements(vs)
      /\ Elements(vs) = {vs[i] : i \in 1 .. Len(vs)}
    BY Members
<1>2. /\ Elements(ws) = Elements(vs) \cup {x}
      /\ Head(ws) = Head(vs)
    BY MembersStored
<1>3. \A v \in Elements(vs) : Before(v, x)
    BY <1>1, EndsBefore, BeforeChain DEF Lineage
<1>4. Ordered(ws, Later)
  <2>1. \A i \in 1 .. Len(vs) : <<vs[i], x>> \in Later
      BY <1>1, <1>3 DEF Later
  <2>2. Ordered(vs, Later)
      BY DEF Lineage
  <2> QED BY <2>1, <2>2, OrderedStored
<1>5. Unbroken(ws)
    BY UnbrokenStored DEF Lineage, Newest
<1>6. p # "idle" => \A v \in Elements(ws) : Before(o, v)
    BY <1>1, <1>2, BeforeChain DEF Lineage
<1>7. (~Head(ws).exists /\ \E v \in Elements(ws) : v.exists)
      => p = "idle" /\ \A v \in Elements(ws) : Blank(v)
    BY <1>1, <1>2 DEF Lineage
<1> QED BY <1>4, <1>5, <1>6, <1>7 DEF Lineage

LEMMA HonestStored ==
    ASSUME SteadyUsers, NEW vs \in Seq(Obj), vs # <<>>, NEW x \in Obj, NEW p, NEW o \in Obj,
           NEW k, p # "idle" => o.exists, Honest(vs, p, o, k),
           Revised(Newest(vs), x, p, o), p = "patchHash" => DeployedIn(k, o.spec),
           NEW ws, ws = Append(vs, x)
    PROVE  Honest(ws, p, o, k)
<1> DEFINE s == Newest(vs)
<1>1. Lineage(vs, p, o) /\ Bounds(vs, p, o) /\ Truth(vs, p, o, k)
    BY DEF Honest
<1>2. /\ Elements(vs) \subseteq Obj /\ s \in Elements(vs) /\ Head(vs) \in Elements(vs)
      /\ s \in Obj /\ Head(vs) \in Obj
    BY Members
<1>3. /\ Elements(ws) = Elements(vs) \cup {x}
      /\ Head(ws) = Head(vs)
      /\ Newest(ws) = x
    BY MembersStored
<1>4. /\ Copies(ws, p, o) = Copies(vs, p, o) \cup {x}
      /\ s \in Copies(vs, p, o)
      /\ p # "idle" => o \in Copies(vs, p, o)
      /\ Copies(vs, p, o) \subseteq Obj
    BY <1>2, <1>3 DEF Copies
<1>5. s.exists /\ x.exists /\ Before(s, x)
    BY <1>2, RevisedBefore DEF Revised
<1>6. Lineage(ws, p, o)
  <2>1. p = "idle" /\ Blank(s) => Blank(x)
      BY DEF Revised, Blank
  <2> QED BY <1>1, <1>5, <2>1, LineageStored
<1>7. Bounds(ws, p, o)
  <2>1. ASSUME NEW b \in Obj, b.exists, p # "idle" => Before(o, b),
               \A c \in Copies(vs, p, o) : Bounded(c, b)
        PROVE  Bounded(x, b)
    <3>1. /\ Bounded(s, b)
          /\ p # "idle" => Bounded(o, b)
        BY <1>4, <2>1
    <3>2. \A t \in Specs : x.hash = hashManifestSet(t.manifests) =>
              NoLater(t.manifests, b.spec.manifests)
      <4>1. CASE x.hash = s.hash
          BY <3>1, <4>1 DEF Bounded
      <4>2. CASE p = "patchHash" /\ x.hash = hashManifestSet(o.spec.manifests)
        <5>1. NoLater(o.spec.manifests, b.spec.manifests)
            BY <2>1, <4>2 DEF Before
        <5> QED BY <4>2, <5>1, HashFacts
      <4> QED BY <4>1, <4>2 DEF Revised
    <3>3. ReadyCondition(x).status = "True" => ReadyCondition(x).gen <= b.gen
      <4>1. \/ ReadyCondition(x) = ReadyCondition(s)
            \/ p # "idle" /\ ReadyCondition(x) = ReadyCondition(o)
          BY DEF Revised, ReadyCondition
      <4> QED BY <3>1, <4>1 DEF Bounded
    <3> QED BY <3>2, <3>3 DEF Bounded
  <2>2. Head(vs).exists => Bounded(x, Head(vs))
      BY <1>1, <1>2, <2>1 DEF Bounds, Lineage
  <2>3. p # "idle" => Bounded(x, o)
      BY <1>1, <2>1, BeforeSelf DEF Bounds
  <2> QED BY <1>1, <1>3, <1>4, <2>2, <2>3 DEF Bounds
<1>8. Truth(ws, p, o, k)
  <2> SUFFICES ASSUME ~x.deleting, NEW c \in Copies(ws, p, o), Claims(c, x)
               PROVE  DeployedIn(k, x.spec)
      BY <1>3 DEF Truth
  <2>1. ~s.deleting
      BY <1>5 DEF Before
  <2>2. c \in Obj
      BY <1>4
  <2>3. Head(vs).exists \/ Blank(c)
      BY <1>1, <1>2, <1>4, <1>5, <1>6, <1>3 DEF Lineage, Copies
  <2>4. Head(vs).exists /\ Before(Head(vs), x) /\ Bounded(c, Head(vs))
    <3>1. Head(vs).exists
        BY <2>3, BlankSaysNothing
    <3>2. Bounded(c, Head(vs))
        BY <1>3, <1>7, <3>1 DEF Bounds
    <3>3. Before(Head(vs), x)
        BY <1>1, <1>2, <1>5, EndsBefore, BeforeChain DEF Lineage
    <3> QED BY <3>1, <3>2, <3>3
  <2>5. Head(vs).spec.manifests = x.spec.manifests
      BY <1>2, <1>5, <2>2, <2>4, ClaimOfReader
  <2>6. s.spec.manifests = x.spec.manifests
    <3>1. /\ NoLater(Head(vs).spec.manifests, s.spec.manifests)
          /\ NoLater(s.spec.manifests, x.spec.manifests)
        BY <1>1, <1>2, <1>5, <2>4, EndsBefore DEF Lineage, Before
    <3>2. /\ Head(vs).spec.manifests \in Seq(Manifests)
          /\ s.spec.manifests \in Seq(Manifests)
          /\ x.spec.manifests \in Seq(Manifests)
        BY <1>2, <1>5, <2>4, SpecType
    <3> QED BY <2>5, <3>1, <3>2, NoLaterOrder
  <2>7. CASE \E d \in Copies(vs, p, o) : Claims(d, s)
      BY <1>1, <1>5, <2>1, <2>6, <2>7 DEF Truth, DeployedIn
  <2>8. CASE p = "patchHash" /\ o.spec.manifests = x.spec.manifests
      BY <2>8 DEF DeployedIn
  <2>9. CASE ReadyCondition(c).status = "True" /\ ReadyCondition(c).gen = x.gen
    <3>1. x.gen = s.gen
      <4>1. /\ Head(vs).gen \in Nat /\ s.gen \in Nat /\ x.gen \in Nat
            /\ Head(vs).gen <= s.gen /\ s.gen <= x.gen
            /\ x.gen <= Head(vs).gen
          BY <1>1, <1>2, <1>5, <2>4, <2>9, EndsBefore, ObjType DEF Lineage, Before, Bounded
      <4> QED BY <4>1
    <3>2. \E d \in Copies(vs, p, o) : ReadyCondition(d) = ReadyCondition(c)
        BY <1>4 DEF Revised, ReadyCondition
    <3> QED BY <2>7, <2>9, <3>1, <3>2 DEF Claims
  <2>10. CASE c.hash = hashManifestSet(x.spec.manifests)
    <3>1. \/ \E d \in Copies(vs, p, o) : d.hash = c.hash
          \/ p = "patchHash" /\ c.hash = hashManifestSet(o.spec.manifests)
        BY <1>4 DEF Revised
    <3> QED BY <2>6, <2>7, <2>8, <2>10, <3>1, HashFacts DEF Claims
  <2> QED BY <2>9, <2>10 DEF Claims
<1> QED BY <1>6, <1>7, <1>8 DEF Honest

LEMMA NoObjectBlank == Blank(NoObject)
    BY DEF Blank, NoObject

\* The object goes.
LEMMA HonestGone ==
    ASSUME SteadyUsers, NEW vs \in Seq(Obj), vs # <<>>, NEW p, NEW o \in Obj, NEW k,
           Honest(vs, p, o, k), Newest(vs).exists,
           NEW ws, ws = Append(vs, NoObject)
    PROVE  Honest(ws, p, o, k)
<1>0. NoObject \in Obj /\ ~NoObject.exists
    BY NoObjectType
<1>1. Lineage(vs, p, o) /\ Bounds(vs, p, o)
    BY DEF Honest
<1>2. /\ Elements(ws) = Elements(vs) \cup {NoObject}
      /\ Head(ws) = Head(vs)
      /\ Newest(ws) = NoObject
    BY <1>0, MembersStored
<1>3. Lineage(ws, p, o)
    BY <1>0, <1>1, NoObjectBlank, LineageStored DEF Before
<1>4. Bounds(ws, p, o)
    BY <1>1, <1>2, NoObjectBlank, BlankSaysNothing DEF Bounds, Copies
<1>5. Truth(ws, p, o, k)
    BY <1>0, <1>2 DEF Truth
<1> QED BY <1>3, <1>4, <1>5 DEF Honest

\* The object is created.
LEMMA HonestBorn ==
    ASSUME NEW vs \in Seq(Obj), vs # <<>>, NEW p, NEW o, NEW k, Unborn(vs, p),
           NEW s \in Specs, NEW ws, ws = Append(vs, NewObject(s)), Unbroken(vs)
    PROVE  Honest(ws, p, o, k)
<1> DEFINE x == NewObject(s)
<1>0. NoObject \in Obj /\ ~NoObject.exists /\ x \in Obj /\ Blank(x)
    BY NoObjectType, NewObjectType DEF NewObject, NoObject, Blank
<1> HIDE DEF x
<1>1. /\ Elements(vs) = {vs[i] : i \in 1 .. Len(vs)}
      /\ Head(vs) \in Elements(vs)
    BY Members
<1>2. /\ Elements(ws) = Elements(vs) \cup {x}
      /\ Head(ws) = Head(vs)
      /\ Newest(ws) = x
      /\ ws \in Seq(Obj)
    BY <1>0, MembersStored DEF x
<1>3. /\ \A v \in Elements(vs) : ~v.exists
      /\ \A v \in Elements(ws) : Blank(v)
      /\ Copies(ws, p, o) = Elements(ws)
      /\ p = "idle"
    BY <1>0, <1>2, NoObjectBlank DEF Unborn, Copies
<1>4. Ordered(ws, Later)
  <2>1. \A i \in 1 .. Len(vs) : vs[i] \in Obj /\ ~vs[i].exists
      BY <1>1, <1>3, Ends
  <2>2. \A i \in 1 .. Len(vs) : <<vs[i], x>> \in Later
      BY <1>0, <2>1 DEF Later, Before
  <2>3. Ordered(vs, Later)
      BY <2>1 DEF Ordered, Later, Before
  <2> QED BY <1>0, <2>2, <2>3, OrderedStored DEF x
<1>5. Unbroken(ws)
    BY <1>0, <1>1, <1>3, UnbrokenStored DEF x
<1>6. Lineage(ws, p, o)
    BY <1>3, <1>4, <1>5 DEF Lineage
<1>7. Bounds(ws, p, o) /\ Truth(ws, p, o, k)
    BY <1>3, BlankSaysNothing DEF Bounds, Truth
<1> QED BY <1>6, <1>7 DEF Honest

\* The cache catches up, by one version or by several.
LEMMA HonestDelivered ==
    ASSUME SteadyUsers, NEW vs \in Seq(Obj), vs # <<>>, NEW p, NEW o \in Obj, NEW k,
           Honest(vs, p, o, k), NEW n \in 2 .. Len(vs), NEW ws, ws = SubSeq(vs, n, Len(vs))
    PROVE  Honest(ws, p, o, k)
<1>1. Lineage(vs, p, o) /\ Bounds(vs, p, o) /\ Truth(vs, p, o, k)
    BY DEF Honest
<1>2. /\ ws \in Seq(Obj)
      /\ ws # <<>>
      /\ Elements(ws) \subseteq Elements(vs)
      /\ Newest(ws) = Newest(vs)
      /\ Head(vs).exists /\ ~Head(ws).exists => \A v \in Elements(ws) : ~v.exists
    BY <1>1, MembersDelivered DEF Lineage
<1>3. Copies(ws, p, o) \subseteq Copies(vs, p, o)
    BY <1>2 DEF Copies
<1>4. /\ Head(ws) \in Elements(ws)
      /\ Elements(vs) \subseteq Obj
      /\ Head(vs) \in Elements(vs)
    BY <1>2, Members
<1>5. Lineage(ws, p, o)
  <2>1. Ordered(ws, Later) /\ Unbroken(ws)
      BY <1>1, RelationsDelivered DEF Lineage
  <2>2. p # "idle" => \A v \in Elements(ws) : Before(o, v)
      BY <1>1, <1>2 DEF Lineage
  <2>3. ASSUME ~Head(ws).exists, NEW v \in Elements(ws), v.exists
        PROVE  p = "idle" /\ \A w \in Elements(ws) : Blank(w)
      BY <1>1, <1>2, <2>3 DEF Lineage
  <2> QED BY <2>1, <2>2, <2>3 DEF Lineage
<1>6. Bounds(ws, p, o)
  <2> SUFFICES ASSUME NEW c \in Copies(ws, p, o), Head(ws).exists
               PROVE  Bounded(c, Head(ws))
      BY <1>1, <1>3 DEF Bounds
  <2>1. CASE Head(vs).exists
    <3>1. Before(Head(vs), Head(ws))
        BY <1>1, <1>2, <1>4, EndsBefore DEF Lineage
    <3>2. Bounded(c, Head(vs)) /\ c \in Obj
        BY <1>1, <1>3, <1>4, <2>1 DEF Bounds, Copies
    <3> QED BY <1>2, <1>4, <2>1, <3>1, <3>2, BoundedLater
  <2>2. CASE ~Head(vs).exists
    <3>1. Blank(c)
        BY <1>1, <1>2, <1>4, <2>2 DEF Lineage, Copies
    <3> QED BY <3>1, BlankSaysNothing
  <2> QED BY <2>1, <2>2
<1>7. Truth(ws, p, o, k)
    BY <1>1, <1>2, <1>3 DEF Truth
<1> QED BY <1>5, <1>6, <1>7 DEF Honest

-----------------------------------------------------------------------------
(* The effects of the steps on the reconciler's copy and on k1s.           *)

\* Reconcile returns.
LEMMA HonestIdle ==
    ASSUME NEW vs, NEW p, NEW o, NEW k, Honest(vs, p, o, k), NEW q
    PROVE  Honest(vs, "idle", q, k)
<1>1. Copies(vs, "idle", q) \subseteq Copies(vs, p, o)
    BY DEF Copies
<1> QED BY <1>1 DEF Honest, Lineage, Bounds, Truth

\* The manager restarts.
LEMMA HonestRestarted ==
    ASSUME SteadyUsers, NEW vs \in Seq(Obj), vs # <<>>, NEW p, NEW o \in Obj, NEW k,
           Honest(vs, p, o, k), NEW q \in Obj, NEW ws, ws = <<Newest(vs)>>
    PROVE  Honest(ws, "idle", q, k)
<1>1. Honest(vs, "idle", q, k)
    BY HonestIdle
<1>2. CASE Len(vs) = 1
  <2>1. ws = vs
      BY <1>2 DEF Newest
  <2> QED BY <1>1, <2>1
<1>3. CASE Len(vs) \in 2 .. Len(vs)
  <2>1. ws = SubSeq(vs, Len(vs), Len(vs))
      BY <1>3 DEF Newest
  <2> QED BY <1>1, <1>3, <2>1, HonestDelivered
<1> QED BY <1>2, <1>3, Ends

\* Reconcile begins with the cached object.
LEMMA HonestEntered ==
    ASSUME NEW vs \in Seq(Obj), vs # <<>>, NEW o, NEW k, Honest(vs, "idle", o, k),
           Head(vs).exists, NEW p
    PROVE  Honest(vs, p, Head(vs), k)
<1>1. Head(vs) \in Elements(vs)
    BY Members
<1>2. /\ Copies(vs, p, Head(vs)) = Elements(vs)
      /\ Copies(vs, "idle", o) = Elements(vs)
    BY <1>1 DEF Copies
<1>3. \A v \in Elements(vs) : Before(Head(vs), v)
    BY EndsBefore DEF Honest, Lineage
<1> QED BY <1>2, <1>3 DEF Honest, Lineage, Bounds, Truth

\* Reconcile goes on with its copy, or with one of another status: with the same
\* Ready condition, with one that is not True, or with a true one.
LEMMA HonestRewritten ==
    ASSUME NEW vs \in Seq(Obj), vs # <<>>, NEW p, NEW o \in Obj, NEW k, Honest(vs, p, o, k),
           p # "idle", o.exists, NEW q, NEW w \in Obj,
           w.exists = o.exists, w.gen = o.gen, w.deleting = o.deleting, w.spec = o.spec,
           w.hash = o.hash,
           \/ ReadyCondition(w) = ReadyCondition(o)
           \/ ReadyCondition(w).status # "True"
           \/ /\ ReadyCondition(w).gen = o.gen
              /\ (Newest(vs).exists /\ ~Newest(vs).deleting /\ Newest(vs).gen = o.gen)
                 => DeployedIn(k, o.spec)
    PROVE  Honest(vs, q, w, k)
<1>1. Lineage(vs, p, o) /\ Bounds(vs, p, o) /\ Truth(vs, p, o, k)
    BY DEF Honest
<1>2. /\ Elements(vs) \subseteq Obj
      /\ Newest(vs) \in Elements(vs)
      /\ Head(vs) \in Elements(vs)
    BY Members
<1>3. Copies(vs, q, w) \subseteq Elements(vs) \cup {w} /\ o \in Copies(vs, p, o)
      /\ Elements(vs) \subseteq Copies(vs, p, o)
    BY DEF Copies
<1>4. \A v : Before(w, v) <=> Before(o, v)
    BY DEF Before
<1>5. Lineage(vs, q, w)
    BY <1>1, <1>4 DEF Lineage
<1>6. \A c : Bounded(c, w) <=> Bounded(c, o)
    BY DEF Bounded
<1>7. ASSUME NEW b \in Obj, b.exists, Before(o, b), Bounded(o, b)
      PROVE  Bounded(w, b)
    BY <1>7 DEF Bounded, Before
<1>8. Bounds(vs, q, w)
  <2>1. Bounded(w, o)
      BY <1>1, <1>3, <1>7, BeforeSelf DEF Bounds
  <2>2. Head(vs).exists => Bounded(w, Head(vs))
      BY <1>1, <1>2, <1>3, <1>7 DEF Bounds, Lineage
  <2> QED BY <1>1, <1>3, <1>6, <2>1, <2>2 DEF Bounds
<1>9. Truth(vs, q, w, k)
  <2> SUFFICES ASSUME Newest(vs).exists, ~Newest(vs).deleting, Claims(w, Newest(vs))
               PROVE  DeployedIn(k, Newest(vs).spec)
      BY <1>1, <1>3 DEF Truth
  <2>1. Before(o, Newest(vs))
      BY <1>1, <1>2 DEF Lineage
  <2>2. CASE Claims(o, Newest(vs))
      BY <1>1, <1>3, <2>2 DEF Truth
  <2>3. CASE ~Claims(o, Newest(vs))
    <3>1. o.gen = Newest(vs).gen /\ DeployedIn(k, o.spec)
        BY <2>3 DEF Claims
    <3> QED BY <2>1, <3>1 DEF Before
  <2> QED BY <2>2, <2>3
<1> QED BY <1>5, <1>8, <1>9 DEF Honest

\* A call to k1s that a deletion makes, or that undoes nothing of the copy's spec.
LEMMA HonestCall ==
    ASSUME SteadyUsers, NEW vs \in Seq(Obj), vs # <<>>, NEW p, NEW o \in Obj, NEW k,
           Honest(vs, p, o, k), p # "idle", o.exists, NEW l,
           o.deleting \/ \A m \in Elements(o.spec.manifests) : k[RefOf[m]] = m => l[RefOf[m]] = m
    PROVE  Honest(vs, p, o, l)
<1>1. Lineage(vs, p, o) /\ Bounds(vs, p, o) /\ Truth(vs, p, o, k)
    BY DEF Honest
<1>2. Newest(vs) \in Obj /\ Before(o, Newest(vs)) /\ Copies(vs, p, o) \subseteq Obj
    BY <1>1, Members DEF Lineage, Copies
<1>3. Truth(vs, p, o, l)
  <2> SUFFICES ASSUME Newest(vs).exists, ~Newest(vs).deleting,
                      NEW c \in Copies(vs, p, o), Claims(c, Newest(vs))
               PROVE  DeployedIn(l, Newest(vs).spec)
      BY DEF Truth
  <2>1. DeployedIn(k, Newest(vs).spec)
      BY <1>1 DEF Truth
  <2>2. ~o.deleting
      BY <1>2 DEF Before
  <2>3. o.spec.manifests = Newest(vs).spec.manifests
      BY <1>1, <1>2, ClaimOfReader DEF Bounds
  <2> QED BY <2>1, <2>2, <2>3 DEF DeployedIn
<1> QED BY <1>1, <1>3 DEF Honest

-----------------------------------------------------------------------------
(* The steps of Reconcile.                                                 *)

\* The Ready condition of the statuses that Reconcile computes.
LEMMA ComputedReady ==
    ASSUME NEW o \in Obj, o.exists
    PROVE  /\ credentialsMissing(o).conds["Ready"] = ReadyCondition(o)
           /\ deleteFailed(o).conds["Ready"] = ReadyCondition(o)
           /\ policyDeniedStatus(o).conds["Ready"].status # "True"
           /\ \A n : reconciled(o, n, FALSE).conds["Ready"].status # "True"
           /\ \A n : reconciled(o, n, TRUE).conds["Ready"].gen = o.gen
<1>1. o.status \in K1sResourceSetStatus /\ o.status.conds \in Conditions
    BY ObjType DEF K1sResourceSetStatus
<1>2. credentialsMissing(o).conds["Ready"] = ReadyCondition(o)
    BY <1>1 DEF credentialsMissing, setCondition, ReadyCondition, Conditions, SetConditions,
                K1sResourceSetStatus
<1>3. deleteFailed(o).conds["Ready"] = ReadyCondition(o)
    BY <1>1 DEF deleteFailed, setCondition, ReadyCondition, Conditions, SetConditions,
                K1sResourceSetStatus
<1>4. policyDeniedStatus(o).conds["Ready"].status # "True"
    BY <1>1 DEF policyDeniedStatus, SetConditions, K1sResourceSetStatus
<1>5. ASSUME NEW n PROVE reconciled(o, n, FALSE).conds["Ready"].status # "True"
    BY <1>1 DEF reconciled, SetConditions, K1sResourceSetStatus, conditionStatus
<1>6. ASSUME NEW n PROVE reconciled(o, n, TRUE).conds["Ready"].gen = o.gen
    BY <1>1 DEF reconciled, SetConditions, K1sResourceSetStatus, conditionStatus
<1> QED BY <1>2, <1>3, <1>4, <1>5, <1>6, Zenon

\* Reconcile turns to its last patch.
LEMMA HonestWriteStatus ==
    ASSUME NEW vs \in Seq(Obj), vs # <<>>, NEW p, NEW o \in Obj, NEW k, Honest(vs, p, o, k),
           p # "idle", o.exists, NEW s \in K1sResourceSetStatus, NEW r, WriteStatus(o, s, r),
           \/ s.conds["Ready"] = ReadyCondition(o)
           \/ s.conds["Ready"].status # "True"
           \/ /\ s.conds["Ready"].gen = o.gen
              /\ (Newest(vs).exists /\ ~Newest(vs).deleting /\ Newest(vs).gen = o.gen)
                 => DeployedIn(k, o.spec)
    PROVE  Honest(vs, pc', own', k) /\ pc' = "patchStatus"
<1> DEFINE w == [o EXCEPT !.status = s]
<1>1. /\ w \in Obj
      /\ w.exists = o.exists
      /\ w.gen = o.gen
      /\ w.hash = o.hash
      /\ w.deleting = o.deleting
      /\ w.spec = o.spec
      /\ w.status = s
    BY WithStatus
<1>2. own' = w /\ pc' = "patchStatus"
    BY DEF WriteStatus
<1> HIDE DEF w
<1>3. ReadyCondition(w) = s.conds["Ready"]
    BY <1>1 DEF ReadyCondition
<1>4. Honest(vs, "patchStatus", w, k)
    BY <1>1, <1>3, HonestRewritten
<1> QED BY <1>2, <1>4

\* Nothing is claimed but the patch.
LEMMA NoLoop ==
    ASSUME NEW p, p \notin {"deleteResources", "prune", "apply", "patchHash"},
           NEW o, NEW k, NEW list
    PROVE  Progress(p, o, k, list)
    BY DEF Progress

\* The apply loop begins, or is not needed.
LEMMA HonestApplyNext ==
    ASSUME SteadyUsers, NEW vs \in Seq(Obj), vs # <<>>, NEW p, NEW o \in Obj, NEW k,
           Honest(vs, p, o, k), p # "idle", o.exists, ~policyDenied(o.spec),
           manifestsAccepted(o.spec), ApplyNext(o)
    PROVE  Honest(vs, pc', own', k) /\ Progress(pc', own', k, todo')
<1>1. CASE ~shouldApply(o)
  <2>1. WriteStatus(o, reconciled(o, Len(o.spec.manifests), TRUE), "poll")
      BY <1>1 DEF ApplyNext
  <2>2. reconciled(o, Len(o.spec.manifests), TRUE) \in K1sResourceSetStatus
    <3>1. Len(o.spec.manifests) \in Nat
        BY SpecType
    <3> QED BY <3>1, ComputedStatus
  <2>3. ASSUME Newest(vs).exists, ~Newest(vs).deleting, Newest(vs).gen = o.gen
        PROVE  DeployedIn(k, o.spec)
    <3>1. Before(o, Newest(vs)) /\ o \in Copies(vs, p, o)
        BY Members DEF Honest, Lineage, Copies
    <3>2. o.spec = Newest(vs).spec
        BY <2>3, <3>1 DEF Before
    <3>3. Claims(o, Newest(vs))
        BY <1>1, <3>2 DEF shouldApply, Claims
    <3> QED BY <2>3, <3>1, <3>2, <3>3 DEF Honest, Truth
  <2>4. reconciled(o, Len(o.spec.manifests), TRUE).conds["Ready"].gen = o.gen
      BY ComputedReady
  <2>5. Honest(vs, pc', own', k) /\ pc' = "patchStatus"
      BY <2>1, <2>2, <2>3, <2>4, HonestWriteStatus
  <2> QED BY <2>5, NoLoop
<1>2. CASE shouldApply(o)
  <2>1. /\ pc' = IF o.spec.manifests = <<>> THEN "patchHash" ELSE "apply"
        /\ own' = o
        /\ todo' = o.spec.manifests
      BY <1>2 DEF ApplyNext
  <2>2. Honest(vs, pc', own', k)
      BY <2>1, HonestRewritten
  <2>3. \A m \in Elements(o.spec.manifests) : RefOf[m] \in Refs
      BY SpecType, AcceptedWithinCap
  <2>4. Elements(<<>>) = {}
      BY DEF Elements
  <2>5. Progress(pc', own', k, todo')
      BY <2>1, <2>3, <2>4 DEF Progress, DeployedIn
  <2> QED BY <2>2, <2>5
<1> QED BY <1>1, <1>2

LEMMA StartReady ==
    ASSUME SteadyUsers, TypeOK, ReadyInvariant, Start
    PROVE  Honest(versions, pc', own', k1s) /\ Progress(pc', own', k1s, todo')
<1>1. /\ versions \in Seq(Obj) /\ versions # <<>>
      /\ cached = Head(versions) /\ cached \in Obj
      /\ pc = "idle"
      /\ Honest(versions, "idle", own, k1s)
    BY VersionsType DEF VersionsOK, cached, Start, ReadyInvariant
<1>2. cached.exists => \A p : Honest(versions, p, cached, k1s)
    BY <1>1, HonestEntered
<1>3. CASE ReturnAtOnce
    BY <1>1, <1>3, NoLoop DEF ReturnAtOnce
<1>4. CASE MissingCredentials
    BY <1>1, <1>2, <1>4, ComputedStatus, ComputedReady, HonestWriteStatus, NoLoop
    DEF MissingCredentials
<1>5. CASE BeginDelete
  <2>1. own' = cached /\ pc' \in DeleteSteps /\ cached.exists /\ cached.deleting
      BY <1>5 DEF BeginDelete, Enter, deletionStep, DeleteSteps
  <2> QED BY <1>2, <2>1 DEF Progress, DeleteSteps
<1>6. CASE BeginAddFinalizer
    BY <1>2, <1>6, NoLoop DEF BeginAddFinalizer, Enter
<1>7. CASE DenyPolicy
    BY <1>1, <1>2, <1>7, ComputedStatus, ComputedReady, HonestWriteStatus, NoLoop
    DEF DenyPolicy, Reconcilable
<1>8. CASE RejectManifest
    BY <1>1, <1>2, <1>8, ComputedStatus, ComputedReady, HonestWriteStatus, NoLoop
    DEF RejectManifest, Reconcilable
<1>9. CASE BeginReconcile
  <2>1. cached.exists /\ ~policyDenied(cached.spec) /\ manifestsAccepted(cached.spec)
      BY <1>9 DEF BeginReconcile, Reconcilable
  <2>2. CASE ApplyNext(cached)
    <3>1. Honest(versions, "prune", cached, k1s)
        BY <1>2, <2>1
    <3> QED BY <1>1, <2>1, <2>2, <3>1, HonestApplyNext
  <2>3. CASE toPrune(cached) # <<>> /\ Enter("prune") /\ todo' = toPrune(cached)
    <3>1. RefOf[Head(todo')] \notin desiredKeys(cached.spec)
        BY <1>1, <2>3, ObjType, SkipDesired DEF toPrune
    <3> QED BY <1>2, <2>1, <2>3, <3>1 DEF Enter, Progress
  <2> QED BY <1>9, <2>2, <2>3 DEF BeginReconcile
<1> QED BY <1>3, <1>4, <1>5, <1>6, <1>7, <1>8, <1>9 DEF Start

\* A call that fails ends with a status that claims nothing new.
LEMMA FailsReady ==
    ASSUME SteadyUsers, TypeOK, own.exists, pc # "idle", NEW k, Honest(versions, pc, own, k),
           NEW n \in Nat,
           \/ WriteStatus(own, deleteFailed(own), "error")
           \/ WriteStatus(own, reconciled(own, n, FALSE), "poll")
    PROVE  Honest(versions, pc', own', k) /\ Progress(pc', own', k, todo')
<1>1. versions \in Seq(Obj) /\ versions # <<>> /\ own \in Obj
    BY VersionsType, TypeParts DEF VersionsOK, LocalsOK
<1>2. Honest(versions, pc', own', k) /\ pc' = "patchStatus"
  <2>1. CASE WriteStatus(own, deleteFailed(own), "error")
      BY <1>1, <2>1, ComputedStatus, ComputedReady, HonestWriteStatus
  <2>2. CASE WriteStatus(own, reconciled(own, n, FALSE), "poll")
      BY <1>1, <2>2, ComputedStatus, ComputedReady, HonestWriteStatus
  <2> QED BY <2>1, <2>2
<1> QED BY <1>2, NoLoop

LEMMA LoopReady ==
    ASSUME SteadyUsers, TypeOK, CapInvariant, ReadyInvariant,
           \/ DeleteResource \/ DeleteResourceFails \/ Prune \/ PruneFails
           \/ Apply \/ ApplyFails
    PROVE  Honest(versions, pc', own', k1s') /\ Progress(pc', own', k1s', todo')
<1>1. /\ versions \in Seq(Obj) /\ versions # <<>>
      /\ own \in Obj
      /\ own.exists
      /\ pc # "idle"
      /\ todo \in Seq(Manifests)
      /\ todo # <<>>
      /\ LocalsOK
      /\ k1s \in [Refs -> Manifests \cup {NoManifest}]
    BY VersionsType, TypeParts
    DEF VersionsOK, LocalsOK, DeleteResource, DeleteResourceFails, Prune, PruneFails, Apply,
        ApplyFails
<1>2. /\ Head(todo) \in Manifests
      /\ Elements(todo) = {Head(todo)} \cup Elements(Tail(todo))
      /\ Tail(todo) \in Seq(Manifests)
      /\ Len(todo) \in Nat
    BY <1>1, LoopStep
<1>3. Honest(versions, pc, own, k1s) /\ Progress(pc, own, k1s, todo)
    BY DEF ReadyInvariant
<1>4. 0 \in Nat
    OBVIOUS
<1>5. CASE DeleteResource \/ DeleteResourceFails
  <2>1. own.deleting
      BY <1>3, <1>5 DEF DeleteResource, DeleteResourceFails, Progress
  <2>2. Honest(versions, pc, own, k1s')
      BY <1>1, <1>3, <2>1, HonestCall
  <2>3. CASE DeleteResource
    <3>1. own' = own /\ pc' \in DeleteSteps
        BY <2>3 DEF DeleteResource, Goto, DeleteSteps
    <3>2. Honest(versions, pc', own', k1s')
        BY <1>1, <2>2, <3>1, HonestRewritten
    <3>3. Progress(pc', own', k1s', todo')
        BY <2>1, <3>1 DEF Progress, DeleteSteps
    <3> QED BY <3>2, <3>3
  <2>4. CASE DeleteResourceFails
      BY <1>1, <1>4, <2>2, <2>4, FailsReady DEF DeleteResourceFails
  <2> QED BY <1>5, <2>3, <2>4
<1>6. CASE Prune \/ PruneFails
  <2>1. /\ pc = "prune"
        /\ UNCHANGED k1s \/ Remove(Head(todo))
        /\ RefOf[Head(todo)] \notin desiredKeys(own.spec)
        /\ ~policyDenied(own.spec)
        /\ manifestsAccepted(own.spec)
      BY <1>3, <1>6 DEF Prune, PruneFails, Progress, CapInvariant, LoopWithinCap
  <2>2. \A m \in Elements(own.spec.manifests) :
            RefOf[m] \in Refs /\ RefOf[m] # RefOf[Head(todo)]
      BY <1>1, <2>1, SpecType, AcceptedWithinCap DEF desiredKeys
  <2>3. \A m \in Elements(own.spec.manifests) : k1s'[RefOf[m]] = k1s[RefOf[m]]
      BY <1>1, <2>1, <2>2 DEF Remove
  <2>4. Honest(versions, pc, own, k1s')
      BY <1>1, <1>3, <2>3, HonestCall
  <2>5. CASE PruneFails
      BY <1>1, <1>4, <2>4, <2>5, FailsReady DEF PruneFails
  <2>6. CASE Prune
    <3> DEFINE rest == skipDesired(own.spec, Tail(todo))
    <3>1. rest # <<>> => RefOf[Head(rest)] \notin desiredKeys(own.spec)
        BY <1>2, SkipDesired
    <3>2. \/ ApplyNext(own)
          \/ rest # <<>> /\ todo' = rest /\ UNCHANGED <<pc, own, ret>>
        BY <2>6 DEF Prune
    <3> HIDE DEF rest
    <3>3. CASE ApplyNext(own)
        BY <1>1, <2>1, <2>4, <3>3, HonestApplyNext
    <3>4. CASE rest # <<>> /\ todo' = rest /\ UNCHANGED <<pc, own, ret>>
        BY <2>1, <2>4, <3>1, <3>4 DEF Progress
    <3> QED BY <3>2, <3>3, <3>4
  <2> QED BY <1>6, <2>5, <2>6
<1>7. CASE Apply \/ ApplyFails
  <2>1. pc = "apply" /\ (UNCHANGED k1s \/ Deploy(Head(todo)))
      BY <1>7 DEF Apply, ApplyFails
  <2>2. /\ Elements(todo) \subseteq Elements(own.spec.manifests)
        /\ \A m \in Elements(own.spec.manifests) :
              RefOf[m] \in Refs /\ (m \in Elements(todo) \/ k1s[RefOf[m]] = m)
      BY <1>3, <2>1 DEF Progress
  <2>3. /\ own.spec \in Specs
        /\ \A m \in Elements(own.spec.manifests) :
              RefOf[m] = RefOf[Head(todo)] => m = Head(todo)
      BY <1>1, <1>2, <2>2, SpecType DEF SteadyUsers, OneRevision
  <2>4. \A m \in Elements(own.spec.manifests) : k1s[RefOf[m]] = m => k1s'[RefOf[m]] = m
      BY <1>1, <2>1, <2>2, <2>3 DEF Deploy
  <2>5. Honest(versions, pc, own, k1s')
      BY <1>1, <1>3, <2>4, HonestCall
  <2>6. CASE ApplyFails
    <3>1. Len(own.spec.manifests) \in Nat /\ Len(todo) <= Len(own.spec.manifests)
        BY <1>1, <2>1, SpecType DEF LocalsOK
    <3>2. Len(own.spec.manifests) - Len(todo) \in Nat
        BY <1>2, <3>1
    <3> QED BY <1>1, <2>5, <2>6, <3>2, FailsReady DEF ApplyFails
  <2>7. CASE Apply
    <3>1. /\ own' = own
          /\ todo' = Tail(todo)
          /\ \/ Tail(todo) = <<>> /\ pc' = "patchHash"
             \/ Tail(todo) # <<>> /\ pc' = "apply"
          /\ Deploy(Head(todo))
        BY <2>1, <2>7 DEF Apply, Goto
    <3>2. Honest(versions, pc', own', k1s')
        BY <1>1, <2>5, <3>1, HonestRewritten
    <3>3. k1s'[RefOf[Head(todo)]] = Head(todo)
        BY <1>1, <1>2, <2>2, <3>1 DEF Deploy
    <3>4. \A m \in Elements(own.spec.manifests) : m \in Elements(Tail(todo)) \/ k1s'[RefOf[m]] = m
        BY <1>2, <2>2, <2>4, <3>3
    <3>5. Tail(todo) = <<>> => Elements(Tail(todo)) = {}
        BY DEF Elements
    <3>6. Progress(pc', own', k1s', todo')
        BY <1>2, <2>2, <3>1, <3>4, <3>5 DEF Progress, DeployedIn
    <3> QED BY <3>2, <3>6
  <2> QED BY <1>7, <2>6, <2>7
<1> QED BY <1>5, <1>6, <1>7

\* A write of the reconciler, before anything else that its step does.
LEMMA WritesReady ==
    ASSUME SteadyUsers, TypeOK, ReadyInvariant, Reconcile
    PROVE  Honest(versions', pc, own, k1s)
<1>1. /\ versions \in Seq(Obj) /\ versions # <<>>
      /\ own \in Obj
      /\ pc # "idle" => own.exists
      /\ server = Newest(versions) /\ server \in Obj
      /\ Honest(versions, pc, own, k1s)
      /\ pc = "patchHash" => DeployedIn(k1s, own.spec)
    BY VersionsType, TypeParts
    DEF VersionsOK, LocalsOK, ReadyInvariant, Progress, server, Newest
<1>2. ASSUME NEW x \in Obj, Store(x) \/ StoreIfChanged(x),
             Revised(server, x, pc, own) \/ (server.exists /\ x = NoObject)
      PROVE  Honest(versions', pc, own, k1s)
  <2>1. CASE UNCHANGED versions
      BY <1>1, <2>1
  <2>2. CASE versions' = Append(versions, x)
      BY <1>1, <1>2, <2>2, HonestStored, HonestGone
  <2> QED BY <1>2, <2>1, <2>2 DEF Store, StoreIfChanged
<1>3. CASE UNCHANGED versions
    BY <1>1, <1>3
<1>4. CASE /\ patchFinalizersAllowed(server, cached, wantedFinalizers)
           /\ StoreIfChanged(afterFinalizers)
  <2>1. server.exists
      BY <1>4 DEF patchFinalizersAllowed
  <2>2. afterFinalizers = NoObject \/ Revised(server, afterFinalizers, pc, own)
      BY <1>1, <2>1
      DEF afterFinalizers, patchFinalizers, Revised, Obj, K1sResourceSetObject,
          K1sResourceSetRecord
  <2> QED BY <1>2, <1>4, <2>1, <2>2, FinalizersStored
<1>5. CASE /\ pc = "patchHash"
           /\ server.exists
           /\ StoreIfChanged(afterHash(manifestHash))
  <2>1. own.exists
      BY <1>1, <1>5
  <2>2. Revised(server, afterHash(manifestHash), pc, own)
      BY <1>5, <2>1, HashStored DEF Revised, manifestHash
  <2> QED BY <1>2, <1>5, <2>1, <2>2, HashStored
<1>6. CASE pc = "patchStatus" /\ server.exists /\ StoreStatus
  <2>1. PICK resent \in BOOLEAN, x \in Obj :
            /\ Store(x) \/ StoreIfChanged(x)
            /\ x.exists = server.exists
            /\ x.gen = server.gen
            /\ x.deleting = server.deleting
            /\ x.hash = server.hash
            /\ x.spec = server.spec
            /\ x.status = patchStatus(server.status, cached.status, own.status, resent)
      BY <1>6, StatusStored
  <2>2. x.status.conds \in {server.status.conds, own.status.conds}
    <3>1. "conds" \in DOMAIN server.status
        BY <1>1, ObjType DEF K1sResourceSetStatus
    <3> QED BY <2>1, <3>1 DEF patchStatus, mergeField
  <2>3. Revised(server, x, pc, own)
      BY <1>6, <2>1, <2>2 DEF Revised, ReadyCondition
  <2> QED BY <1>2, <2>1, <2>3
<1> QED BY <1>3, <1>4, <1>5, <1>6, ReconcileWrites

LEMMA PatchReady ==
    ASSUME SteadyUsers, TypeOK, ReadyInvariant, Reconcile,
           \/ PatchFinalizers \/ PatchFinalizersFails
           \/ PatchHash
           \/ PatchHashFails(manifestHash) \/ PatchStatus \/ PatchStatusFails
    PROVE  Honest(versions', pc', own', k1s') /\ Progress(pc', own', k1s', todo')
<1>1. /\ Honest(versions', pc, own, k1s)
      /\ versions' \in Seq(Obj) /\ versions' # <<>>
      /\ own \in Obj
      /\ pc # "idle" => own.exists
  <2>1. TypeOK'
      BY ReconcileType
  <2>2. VersionsOK'
      BY <2>1 DEF TypeOK, VersionsOK, Obj
  <2>3. versions' # <<>>
      BY <2>2, SetBoundAssumption DEF VersionsOK
  <2> QED BY <2>2, <2>3, WritesReady, TypeParts DEF VersionsOK, LocalsOK
<1>2. UNCHANGED k1s
    BY DEF PatchFinalizers, PatchFinalizersFails, PatchHash, PatchHashFails, PatchStatus,
           PatchStatusFails
<1>3. CASE PatchHash
  <2>1. /\ pc = "patchHash"
        /\ own.exists
        /\ WriteStatus(own, reconciled(own, Len(own.spec.manifests), TRUE), "poll")
      BY <1>1, <1>3 DEF PatchHash
  <2>2. DeployedIn(k1s, own.spec)
      BY <2>1 DEF ReadyInvariant, Progress
  <2>3. Len(own.spec.manifests) \in Nat
      BY <1>1, <2>1, SpecType
  <2>4. /\ reconciled(own, Len(own.spec.manifests), TRUE) \in K1sResourceSetStatus
        /\ reconciled(own, Len(own.spec.manifests), TRUE).conds["Ready"].gen = own.gen
      BY <1>1, <2>1, <2>3, ComputedStatus, ComputedReady
  <2>5. Honest(versions', pc', own', k1s) /\ pc' = "patchStatus"
      BY <1>1, <2>1, <2>2, <2>4, HonestWriteStatus
  <2> QED BY <1>2, <2>5, NoLoop
<1>4. CASE ~PatchHash
  <2>1. pc' = "idle"
      BY <1>4 DEF PatchFinalizers, PatchFinalizersFails, PatchHashFails, PatchStatus,
                  PatchStatusFails, Return
  <2>2. Honest(versions', pc', own', k1s)
      BY <1>1, <2>1, HonestIdle
  <2> QED BY <1>2, <2>1, <2>2, NoLoop
<1> QED BY <1>3, <1>4

\* Before the creation Reconcile finds nothing to do.
LEMMA UnbornReconcile ==
    ASSUME TypeOK, Unborn(versions, pc), Reconcile
    PROVE  UNCHANGED <<versions, pc>>
<1>1. ~cached.exists /\ pc = "idle"
  <2>1. cached \in Elements(versions)
      BY VersionsType, Members DEF VersionsOK, cached
  <2> QED BY <2>1, NoObjectType DEF Unborn
<1>2. Start
    BY <1>1 DEF Reconcile, DeleteResource, DeleteResourceFails, Prune, PruneFails, Apply,
                ApplyFails, PatchFinalizers, PatchFinalizersFails, PatchHash, PatchHashFails,
                PatchStatus, PatchStatusFails
<1>3. ReturnAtOnce
    BY <1>1, <1>2 DEF Start, MissingCredentials, BeginDelete, BeginAddFinalizer, DenyPolicy,
                      RejectManifest, BeginReconcile, Reconcilable, Enter
<1> QED BY <1>2, <1>3 DEF Start, ReturnAtOnce

LEMMA ReconcileReady ==
    ASSUME SteadyUsers, TypeOK, CapInvariant, ReadyInvariant, Reconcile
    PROVE  ReadyInvariant'
<1>1. Honest(versions', pc', own', k1s') /\ Progress(pc', own', k1s', todo')
  <2>1. CASE Start
    <3>1. UNCHANGED <<versions, k1s>>
        BY <2>1 DEF Start
    <3> QED BY <2>1, <3>1, StartReady
  <2>2. CASE DeleteResource \/ DeleteResourceFails \/ Prune \/ PruneFails \/ Apply \/ ApplyFails
    <3>1. UNCHANGED versions
        BY <2>2 DEF DeleteResource, DeleteResourceFails, Prune, PruneFails, Apply, ApplyFails
    <3> QED BY <2>2, <3>1, LoopReady
  <2> QED BY <2>1, <2>2, PatchReady DEF Reconcile
<1>2. lives' = lives
    BY DEF Reconcile, Start, DeleteResource, DeleteResourceFails, Prune, PruneFails, Apply,
           ApplyFails, PatchFinalizers, PatchFinalizersFails, PatchHash, PatchHashFails,
           PatchStatus, PatchStatusFails
<1>3. lives' = 0 => Unborn(versions', pc')
    BY <1>2, UnbornReconcile DEF ReadyInvariant
<1> QED BY <1>1, <1>3 DEF ReadyInvariant

-----------------------------------------------------------------------------
(* The steps around Reconcile, and the theorem.                            *)

LEMMA EnvironmentReady ==
    ASSUME SteadyUsers, TypeOK, ReadyInvariant, Environment, UNCHANGED todo
    PROVE  ReadyInvariant'
<1>1. UNCHANGED <<pc, own, k1s, todo>>
    BY EnvironmentFrame DEF SteadyUsers
<1>2. /\ versions \in Seq(Obj) /\ versions # <<>>
      /\ own \in Obj
      /\ pc # "idle" => own.exists
      /\ server = Newest(versions) /\ server \in Elements(versions)
      /\ Honest(versions, pc, own, k1s)
      /\ pc = "patchHash" => DeployedIn(k1s, own.spec)
      /\ lives \in Nat
    BY VersionsType, TypeParts, Members, SetBoundAssumption
    DEF VersionsOK, LocalsOK, ReadyInvariant, Progress, server, Newest
<1>3. CASE UNCHANGED versions
  <2>1. lives' = lives \/ lives' = lives + 1
      BY DEF Environment, Create, CreateObject, Edit, EditObject, Delete, AddForeign,
             RemoveForeign, LoseCredentials, RestoreCredentials, OutOfBandDelete
  <2>2. lives' = 0 => lives = 0
      BY <1>2, <2>1
  <2> QED BY <1>1, <1>3, <2>2 DEF ReadyInvariant
<1>4. ASSUME NEW x \in Obj, EnvironmentWrite(x)
      PROVE  ReadyInvariant'
  <2>1. versions' = Append(versions, x)
      BY <1>4 DEF EnvironmentWrite, Store
  <2>2. CASE Born(x) /\ lives < MaxLives /\ lives' = lives + 1
    <3>1. lives = 0 /\ lives' # 0
        BY <1>2, <2>2 DEF SteadyUsers
    <3>2. PICK s \in Specs : x = NewObject(s)
        BY <2>2 DEF Born
    <3>3. Unborn(versions, pc) /\ Unbroken(versions)
        BY <1>2, <3>1 DEF ReadyInvariant, Honest, Lineage
    <3>4. Honest(versions', pc, own, k1s)
        BY <1>2, <2>1, <3>2, <3>3, HonestBorn
    <3> QED BY <1>1, <3>1, <3>4 DEF ReadyInvariant
  <2>3. CASE (Gone(x) \/ Touched(x)) /\ UNCHANGED lives
    <3>1. server.exists
        BY <2>3 DEF Gone, Touched
    <3>2. lives # 0
        BY <1>2, <3>1, NoObjectType DEF ReadyInvariant, Unborn
    <3>3. CASE Gone(x)
      <4>1. Honest(versions', pc, own, k1s)
          BY <1>2, <2>1, <3>1, <3>3, HonestGone DEF Gone
      <4> QED BY <1>1, <2>3, <3>2, <4>1 DEF ReadyInvariant
    <3>4. CASE Touched(x)
      <4>1. Revised(server, x, pc, own)
          BY <3>4 DEF Touched, Revised
      <4>2. Honest(versions', pc, own, k1s)
          BY <1>2, <2>1, <4>1, HonestStored
      <4> QED BY <1>1, <2>3, <3>2, <4>2 DEF ReadyInvariant
    <3> QED BY <2>3, <3>3, <3>4
  <2> QED BY <1>4, <2>2, <2>3 DEF EnvironmentWrite
<1> QED BY <1>3, <1>4, EnvironmentWrites

LEMMA ManagerReady ==
    ASSUME SteadyUsers, TypeOK, ReadyInvariant, Manager, UNCHANGED todo
    PROVE  ReadyInvariant'
<1>1. /\ versions \in Seq(Obj) /\ versions # <<>>
      /\ own \in Obj
      /\ Honest(versions, pc, own, k1s)
    BY VersionsType, TypeParts DEF VersionsOK, LocalsOK, ReadyInvariant
<1>2. CASE Deliver
  <2>1. PICK n \in 2 .. Len(versions) : versions' = SubSeq(versions, n, Len(versions))
      BY <1>2 DEF Deliver
  <2>2. Honest(versions', pc, own, k1s)
      BY <1>1, <2>1, HonestDelivered
  <2>3. Elements(versions') \subseteq Elements(versions)
      BY <1>1, <2>1, MembersDelivered
  <2> QED BY <1>2, <2>2, <2>3 DEF Deliver, ReadyInvariant, Unborn
<1>3. CASE TimerFires \/ Resync
    BY <1>3 DEF TimerFires, Resync, ReadyInvariant
<1> QED BY <1>2, <1>3 DEF Manager

LEMMA CrashReady ==
    ASSUME SteadyUsers, TypeOK, ReadyInvariant, Crash, todo' = <<>>
    PROVE  ReadyInvariant'
<1>1. /\ versions \in Seq(Obj) /\ versions # <<>>
      /\ own \in Obj
      /\ server = Newest(versions)
      /\ Honest(versions, pc, own, k1s)
    BY VersionsType, TypeParts
    DEF VersionsOK, LocalsOK, ReadyInvariant, server, Newest
<1>2. /\ versions' = <<Newest(versions)>>
      /\ pc' = "idle" /\ own' = NoObject /\ UNCHANGED <<k1s, lives>>
    BY <1>1 DEF Crash
<1>3. Honest(versions', pc', own', k1s')
    BY <1>1, <1>2, NoObjectType, HonestRestarted
<1>4. Elements(versions') = {Newest(versions)}
    BY <1>2 DEF Elements
<1>5. Newest(versions) \in Elements(versions)
    BY <1>1, Members
<1> QED BY <1>2, <1>3, <1>4, <1>5, NoLoop DEF ReadyInvariant, Unborn

LEMMA InitReady ==
    ASSUME Init
    PROVE  ReadyInvariant
<1>1. versions = <<NoObject>> /\ pc = "idle"
    BY DEF Init, ControllerInit
<1>2. Elements(versions) = {NoObject} /\ Head(versions) = NoObject /\ Len(versions) = 1
    BY <1>1 DEF Elements
<1>3. Copies(versions, pc, own) = {NoObject} /\ Newest(versions) = NoObject
    BY <1>1, <1>2 DEF Copies, Newest
<1>4. Lineage(versions, pc, own)
    BY <1>1, <1>2, NoObjectType DEF Lineage, Ordered, Unbroken
<1>5. Bounds(versions, pc, own) /\ Truth(versions, pc, own, k1s)
    BY <1>1, <1>2, <1>3, NoObjectType DEF Bounds, Truth
<1> QED BY <1>1, <1>2, <1>4, <1>5, NoLoop DEF ReadyInvariant, Honest, Unborn

\* The invariant holds in every behaviour in which the object is created once,
\* users do not return to a list they have left, and nobody else deletes from k1s.
THEOREM ReadyInvariantHolds ==
    ASSUME SteadyUsers
    PROVE  Spec => []ReadyInvariant
<1>1. Init => ReadyInvariant
    BY InitReady
<1>2. TypeOK /\ CapInvariant /\ ReadyInvariant /\ [Next]_vars => ReadyInvariant'
  <2> SUFFICES ASSUME TypeOK, CapInvariant, ReadyInvariant, [Next]_vars
               PROVE  ReadyInvariant'
      OBVIOUS
  <2>1. CASE UNCHANGED vars
      BY <2>1 DEF vars, ReadyInvariant
  <2>2. CASE Reconcile
      BY <2>2, ReconcileReady
  <2>3. CASE Environment /\ UNCHANGED todo
      BY <2>3, EnvironmentReady
  <2>4. CASE Manager /\ UNCHANGED todo
      BY <2>4, ManagerReady
  <2>5. CASE Crash /\ todo' = <<>>
      BY <2>5, CrashReady
  <2>6. CASE Next
      BY <2>2, <2>3, <2>4, <2>5, <2>6, Zenon DEF Next
  <2> QED BY <2>1, <2>6
<1> QED BY <1>1, <1>2, SetTypeCorrect, CapInvariantHolds, PTL DEF Spec

\* Ready=True for the current generation means that k1s runs every manifest of the
\* set: for any number of manifests and edits, any lag of the cache, and any number
\* of failed calls, lost replies, lost credentials and restarts between two calls.
THEOREM ReadySetsAreDeployed ==
    ASSUME SteadyUsers
    PROVE  Spec => []ReadyMeansDeployed
<1>1. TypeOK /\ ReadyInvariant => ReadyMeansDeployed
  <2> SUFFICES ASSUME TypeOK, ReadyInvariant, LiveSet(server), ReadyNow(server)
               PROVE  Deployed(server.spec)
      BY DEF ReadyMeansDeployed
  <2>1. server = Newest(versions) /\ server \in Copies(versions, pc, own)
      BY VersionsType, Members DEF VersionsOK, server, Newest, Copies
  <2>2. Claims(server, server)
      BY DEF ReadyNow, Claims, ReadyCondition
  <2>3. server.exists /\ ~server.deleting
      BY DEF LiveSet
  <2>4. DeployedIn(k1s, server.spec)
      BY <2>1, <2>2, <2>3 DEF ReadyInvariant, Honest, Truth
  <2> QED BY <2>4 DEF DeployedIn, Deployed
<1> QED BY <1>1, SetTypeCorrect, ReadyInvariantHolds, PTL
=============================================================================
