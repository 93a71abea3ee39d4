---------------------------- MODULE VersionLemmas ----------------------------
(***************************************************************************)
(* Facts about a sequence of versions of an object: the one in the cache,  *)
(* those not yet delivered, and last the one the API server holds. They    *)
(* are about any set Obj of objects, and so serve every reconciler; that   *)
(* all versions have a property is stated by taking for Obj the set of the *)
(* objects that have it.                                                   *)
(***************************************************************************)
EXTENDS KubeObject, TLAPS

-----------------------------------------------------------------------------
(* What a write, a delivery and a restart make of the versions.            *)

\* There is a first and a last version.
LEMMA Ends ==
    ASSUME NEW Obj, NEW vs \in Seq(Obj), vs # <<>>
    PROVE  /\ Len(vs) \in Nat \ {0}
           /\ \A i \in 1 .. Len(vs) : vs[i] \in Obj
           /\ Head(vs) = vs[1]
           /\ Head(vs) \in Obj
           /\ vs[Len(vs)] \in Obj
    OBVIOUS

\* A write makes o the last version and keeps the others (Store).
LEMMA Stored ==
    ASSUME NEW Obj, NEW vs \in Seq(Obj), vs # <<>>, NEW o \in Obj,
           NEW ws, ws = Append(vs, o)
    PROVE  /\ ws \in Seq(Obj)
           /\ ws # <<>>
           /\ Len(ws) = Len(vs) + 1
           /\ \A i \in 1 .. Len(vs) : ws[i] = vs[i]
           /\ ws[Len(ws)] = o
           /\ Head(ws) = Head(vs)
    OBVIOUS

\* A delivery drops a prefix (Deliver).
LEMMA DeliveredElements ==
    ASSUME NEW Obj, NEW vs \in Seq(Obj), NEW k \in 2 .. Len(vs),
           NEW ws, ws = SubSeq(vs, k, Len(vs))
    PROVE  /\ Len(ws) = Len(vs) - k + 1
           /\ \A i \in 1 .. Len(ws) : i + k - 1 \in 1 .. Len(vs) /\ ws[i] = vs[i + k - 1]
<1>1. Len(vs) \in Nat /\ Len(ws) = Len(vs) - k + 1
    OBVIOUS
<1> QED BY <1>1

\* ... and keeps the last version.
LEMMA Delivered ==
    ASSUME NEW Obj, NEW vs \in Seq(Obj), NEW k \in 2 .. Len(vs),
           NEW ws, ws = SubSeq(vs, k, Len(vs))
    PROVE  /\ ws \in Seq(Obj)
           /\ ws # <<>>
           /\ Len(ws) < Len(vs)
           /\ ws[Len(ws)] = vs[Len(vs)]
<1>1. /\ Len(vs) \in Nat
      /\ Len(ws) = Len(vs) - k + 1
      /\ \A i \in 1 .. Len(ws) : ws[i] = vs[i + k - 1]
    BY DeliveredElements
<1>2. ws \in Seq(Obj)
    OBVIOUS
<1>3. Len(ws) # 0 /\ Len(ws) < Len(vs) /\ ws[Len(ws)] = vs[Len(vs)]
    BY <1>1
<1>4. ws # <<>>
    BY <1>2, <1>3
<1> QED BY <1>2, <1>3, <1>4

\* A restart keeps only the last version (Crash).
LEMMA Restarted ==
    ASSUME NEW Obj, NEW vs \in Seq(Obj), vs # <<>>, NEW ws, ws = <<vs[Len(vs)]>>
    PROVE  /\ ws \in Seq(Obj)
           /\ ws # <<>>
           /\ Len(ws) = 1
           /\ Head(ws) = vs[Len(vs)]
           /\ ws[Len(ws)] = vs[Len(vs)]
<1>1. vs[Len(vs)] \in Obj
    OBVIOUS
<1> QED BY <1>1

-----------------------------------------------------------------------------
(* The order in which guards come and go.                                  *)

\* A single version is in order either way unless it is guarded and live.
LEMMA OneVersion ==
    ASSUME NEW vs, Len(vs) = 1
    PROVE  OnlyGained(vs)
    BY DEF OnlyGained

\* A write that keeps the guard, and keeps a guarded deletion one.
LEMMA GainedStored ==
    ASSUME NEW Obj, NEW vs \in Seq(Obj), vs # <<>>, OnlyGained(vs), NEW o \in Obj,
           LET s == vs[Len(vs)]
           IN  Guarded(s) => Guarded(o) /\ (s.deleting => o.deleting)
    PROVE  OnlyGained(Append(vs, o))
<1> DEFINE n == Len(vs)
           ws == Append(vs, o)
<1>1. /\ n \in Nat \ {0}
      /\ Len(ws) = n + 1
      /\ \A i \in 1 .. n : ws[i] = vs[i]
      /\ ws[n + 1] = o
    OBVIOUS
<1>2. \A i \in 1 .. n : Guarded(vs[i]) =>
          /\ Guarded(vs[n])
          /\ vs[i].deleting => vs[n].deleting
    BY <1>1 DEF OnlyGained
<1> HIDE DEF ws
<1> SUFFICES ASSUME NEW i \in 1 .. n + 1, NEW j \in 1 .. n + 1, i < j, Guarded(ws[i])
             PROVE  Guarded(ws[j]) /\ (ws[i].deleting => ws[j].deleting)
    BY <1>1, Zenon DEF OnlyGained, ws
<1>3. CASE j \in 1 .. n
  <2>1. i \in 1 .. n /\ ws[i] = vs[i] /\ ws[j] = vs[j]
      BY <1>1, <1>3
  <2> QED BY <1>3, <2>1 DEF OnlyGained
<1>4. CASE j = n + 1
  <2>1. i \in 1 .. n /\ ws[i] = vs[i] /\ ws[j] = o
      BY <1>1, <1>4
  <2> QED BY <1>2, <2>1
<1> QED BY <1>1, <1>3, <1>4

\* A write that adds no guard, and leaves no guarded live object.
LEMMA LostStored ==
    ASSUME NEW Obj, NEW vs \in Seq(Obj), vs # <<>>, OnlyLost(vs), NEW o \in Obj,
           Guarded(o) => Guarded(vs[Len(vs)]) /\ o.deleting
    PROVE  OnlyLost(Append(vs, o))
<1> DEFINE n == Len(vs)
           ws == Append(vs, o)
<1>1. /\ n \in Nat \ {0}
      /\ Len(ws) = n + 1
      /\ \A i \in 1 .. n : ws[i] = vs[i]
      /\ ws[n + 1] = o
    OBVIOUS
<1>2. \A i \in 1 .. n : Guarded(vs[n]) => Guarded(vs[i])
    BY <1>1 DEF OnlyLost
<1> HIDE DEF ws
<1>3. ASSUME NEW i \in 1 .. n + 1 PROVE ~GuardedLive(ws[i])
  <2>1. CASE i \in 1 .. n
      BY <1>1, <2>1 DEF OnlyLost
  <2>2. CASE i = n + 1
      BY <1>1, <2>2 DEF GuardedLive
  <2> QED BY <1>1, <2>1, <2>2
<1>4. ASSUME NEW i \in 1 .. n + 1, NEW j \in 1 .. n + 1, i < j, Guarded(ws[j])
      PROVE  Guarded(ws[i])
  <2>1. i \in 1 .. n /\ ws[i] = vs[i]
      BY <1>1, <1>4
  <2>2. CASE j \in 1 .. n
      BY <1>1, <1>4, <2>1, <2>2 DEF OnlyLost
  <2>3. CASE j = n + 1
      BY <1>1, <1>2, <1>4, <2>1, <2>3
  <2> QED BY <1>1, <2>2, <2>3
<1> QED BY <1>1, <1>3, <1>4, Zenon DEF OnlyLost, ws

\* A write of o over s that keeps the guard, and keeps a guarded deletion one.
SameGuard(s, o) ==
    /\ Guarded(o) <=> Guarded(s)
    /\ Guarded(o) /\ s.deleting => o.deleting

LEMMA GuardKept ==
    ASSUME NEW Obj, NEW vs \in Seq(Obj), vs # <<>>, NEW o \in Obj,
           SameGuard(vs[Len(vs)], o), NEW ws, ws = Append(vs, o)
    PROVE  /\ OnlyGained(vs) => OnlyGained(ws)
           /\ OnlyLost(vs) => OnlyLost(ws)
<1>1. OnlyGained(vs) => OnlyGained(ws)
    BY GainedStored DEF SameGuard
<1>2. OnlyLost(vs) => ~GuardedLive(vs[Len(vs)])
    BY Ends DEF OnlyLost
<1>3. OnlyLost(vs) => OnlyLost(ws)
    BY <1>2, LostStored DEF SameGuard, GuardedLive
<1> QED BY <1>1, <1>3

\* What the order says when the first version is guarded or is not: a deletion
\* may start, the guard may be added, the last version is guarded.
LEMMA FirstVersion ==
    ASSUME NEW Obj, NEW vs \in Seq(Obj), vs # <<>>, OnlyGained(vs) \/ OnlyLost(vs)
    PROVE  /\ Guarded(vs[1]) /\ vs[1].deleting => OnlyLost(vs)
           /\ ~Guarded(vs[1]) => OnlyGained(vs)
           /\ GuardedLive(vs[1]) => Guarded(vs[Len(vs)])
<1>1. Len(vs) \in Nat \ {0}
    BY Ends
<1>2. ASSUME Guarded(vs[1]), vs[1].deleting, OnlyGained(vs) PROVE OnlyLost(vs)
  <2>1. \A i \in 1 .. Len(vs) : Guarded(vs[i]) /\ vs[i].deleting
      BY <1>1, <1>2 DEF OnlyGained
  <2> QED BY <2>1 DEF OnlyLost, GuardedLive
<1>3. ASSUME ~Guarded(vs[1]), OnlyLost(vs) PROVE OnlyGained(vs)
  <2>1. \A i \in 1 .. Len(vs) : ~Guarded(vs[i])
      BY <1>1, <1>3 DEF OnlyLost
  <2> QED BY <2>1 DEF OnlyGained
<1>4. ASSUME GuardedLive(vs[1]) PROVE Guarded(vs[Len(vs)])
  <2>1. OnlyGained(vs)
      BY <1>1, <1>4 DEF OnlyLost
  <2> QED BY <1>1, <1>4, <2>1 DEF OnlyGained, GuardedLive
<1> QED BY <1>2, <1>3, <1>4

\* The versions left after a delivery are in the same order.
LEMMA OrderDelivered ==
    ASSUME NEW Obj, NEW vs \in Seq(Obj), vs # <<>>, NEW k \in 2 .. Len(vs),
           NEW ws, ws = SubSeq(vs, k, Len(vs))
    PROVE  /\ OnlyGained(vs) => OnlyGained(ws)
           /\ OnlyLost(vs) => OnlyLost(ws)
<1>1. /\ Len(vs) \in Nat \ {0}
      /\ Len(ws) = Len(vs) - k + 1
      /\ \A i \in 1 .. Len(ws) : i + k - 1 \in 1 .. Len(vs) /\ ws[i] = vs[i + k - 1]
    BY DeliveredElements
<1>2. ASSUME NEW i \in 1 .. Len(ws), NEW j \in 1 .. Len(ws), i < j
      PROVE  /\ i + k - 1 \in 1 .. Len(vs)
             /\ j + k - 1 \in 1 .. Len(vs)
             /\ i + k - 1 < j + k - 1
             /\ ws[i] = vs[i + k - 1]
             /\ ws[j] = vs[j + k - 1]
    BY <1>1, <1>2
<1>3. OnlyGained(vs) => OnlyGained(ws)
  <2> SUFFICES ASSUME OnlyGained(vs),
                      NEW i \in 1 .. Len(ws), NEW j \in 1 .. Len(ws), i < j
               PROVE  /\ Guarded(ws[i]) => Guarded(ws[j])
                      /\ Guarded(ws[i]) /\ ws[i].deleting => ws[j].deleting
      BY DEF OnlyGained
  <2> QED BY <1>2 DEF OnlyGained
<1>4. OnlyLost(vs) => OnlyLost(ws)
  <2> SUFFICES ASSUME OnlyLost(vs) PROVE OnlyLost(ws)
      OBVIOUS
  <2>1. \A i \in 1 .. Len(ws) : ~GuardedLive(ws[i])
      BY <1>1 DEF OnlyLost
  <2>2. ASSUME NEW i \in 1 .. Len(ws), NEW j \in 1 .. Len(ws), i < j, Guarded(ws[j])
        PROVE  Guarded(ws[i])
      BY <1>2, <2>2 DEF OnlyLost
  <2> QED BY <2>1, <2>2 DEF OnlyLost
<1> QED BY <1>3, <1>4

-----------------------------------------------------------------------------
(* Relations between earlier and later versions.                           *)

\* Each version is related by R to every later one.
Ordered(vs, R) ==
    \A i, j \in 1 .. Len(vs) : i < j => <<vs[i], vs[j]>> \in R

\* Between two versions that exist there is none that does not: the object did not
\* go and come back.
Unbroken(vs) ==
    \A i, j, k \in 1 .. Len(vs) :
        i < j /\ j < k /\ vs[i].exists /\ vs[k].exists => vs[j].exists

LEMMA OrderedStored ==
    ASSUME NEW Obj, NEW vs \in Seq(Obj), vs # <<>>, NEW o \in Obj, NEW R, Ordered(vs, R),
           \A i \in 1 .. Len(vs) : <<vs[i], o>> \in R, NEW ws, ws = Append(vs, o)
    PROVE  Ordered(ws, R)
<1> DEFINE n == Len(vs)
<1>1. /\ n \in Nat \ {0}
      /\ Len(ws) = n + 1
      /\ \A i \in 1 .. n : ws[i] = vs[i]
      /\ ws[n + 1] = o
    OBVIOUS
<1> HIDE DEF n
<1> SUFFICES ASSUME NEW i \in 1 .. n + 1, NEW j \in 1 .. n + 1, i < j
             PROVE  <<ws[i], ws[j]>> \in R
    BY <1>1 DEF Ordered
<1>2. i \in 1 .. n /\ ws[i] = vs[i]
    BY <1>1
<1>3. CASE j \in 1 .. n
  <2>1. ws[j] = vs[j]
      BY <1>1, <1>3
  <2> QED BY <1>2, <1>3, <2>1 DEF Ordered, n
<1>4. CASE j = n + 1
  <2>1. ws[j] = o
      BY <1>1, <1>4
  <2>2. <<vs[i], o>> \in R
      BY <1>2 DEF n
  <2> QED BY <1>2, <2>1, <2>2, Zenon
<1>5. j \in 1 .. n \/ j = n + 1
    BY <1>1
<1> QED BY <1>3, <1>4, <1>5, Zenon

LEMMA UnbrokenStored ==
    ASSUME NEW Obj, NEW vs \in Seq(Obj), vs # <<>>, NEW o \in Obj, Unbroken(vs),
           \/ ~o.exists
           \/ vs[Len(vs)].exists
           \/ \A i \in 1 .. Len(vs) : ~vs[i].exists,
           NEW ws, ws = Append(vs, o)
    PROVE  Unbroken(ws)
<1> DEFINE n == Len(vs)
<1>1. /\ n \in Nat \ {0}
      /\ Len(ws) = n + 1
      /\ \A i \in 1 .. n : ws[i] = vs[i]
      /\ ws[n + 1] = o
    OBVIOUS
<1> HIDE DEF n
<1> SUFFICES ASSUME NEW i \in 1 .. n + 1, NEW j \in 1 .. n + 1, NEW k \in 1 .. n + 1,
                    i < j, j < k, ws[i].exists, ws[k].exists
             PROVE  ws[j].exists
    BY <1>1 DEF Unbroken
<1>2. i \in 1 .. n /\ j \in 1 .. n /\ ws[i] = vs[i] /\ ws[j] = vs[j]
    BY <1>1
<1>3. CASE k \in 1 .. n
  <2>1. ws[k] = vs[k]
      BY <1>1, <1>3
  <2> QED BY <1>2, <1>3, <2>1 DEF Unbroken, n
<1>4. CASE k = n + 1
  <2>1. o.exists /\ vs[n].exists
      BY <1>1, <1>2, <1>4 DEF n
  <2>2. CASE j = n
      BY <1>2, <2>1, <2>2
  <2>3. CASE j < n
      BY <1>1, <1>2, <2>1, <2>3 DEF Unbroken, n
  <2> QED BY <1>1, <1>2, <2>2, <2>3
<1> QED BY <1>1, <1>3, <1>4

LEMMA RelationsDelivered ==
    ASSUME NEW Obj, NEW vs \in Seq(Obj), NEW k \in 2 .. Len(vs), NEW R,
           NEW ws, ws = SubSeq(vs, k, Len(vs))
    PROVE  /\ Ordered(vs, R) => Ordered(ws, R)
           /\ Unbroken(vs) => Unbroken(ws)
<1>1. /\ Len(vs) \in Nat
      /\ Len(ws) = Len(vs) - k + 1
      /\ \A i \in 1 .. Len(ws) : i + k - 1 \in 1 .. Len(vs) /\ ws[i] = vs[i + k - 1]
    BY DeliveredElements
<1>2. \A i, j \in 1 .. Len(ws) : i < j => i + k - 1 < j + k - 1
    BY <1>1
<1>3. Ordered(vs, R) => Ordered(ws, R)
  <2> SUFFICES ASSUME Ordered(vs, R), NEW i \in 1 .. Len(ws), NEW j \in 1 .. Len(ws), i < j
               PROVE  <<ws[i], ws[j]>> \in R
      BY DEF Ordered
  <2> QED BY <1>1, <1>2 DEF Ordered
<1>4. Unbroken(vs) => Unbroken(ws)
  <2> SUFFICES ASSUME Unbroken(vs), NEW h \in 1 .. Len(ws), NEW i \in 1 .. Len(ws),
                      NEW j \in 1 .. Len(ws), h < i, i < j, ws[h].exists, ws[j].exists
               PROVE  ws[i].exists
      BY DEF Unbroken
  <2>1. PICK a \in 1 .. Len(vs), b \in 1 .. Len(vs), c \in 1 .. Len(vs) :
            /\ a < b /\ b < c
            /\ ws[h] = vs[a] /\ ws[i] = vs[b] /\ ws[j] = vs[c]
      BY <1>1, <1>2
  <2> QED BY <2>1 DEF Unbroken
<1> QED BY <1>3, <1>4
=============================================================================
