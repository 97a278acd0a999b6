--------------------------- MODULE FormatsProofs ----------------------------
(***************************************************************************)
(* The tree that the interface reads from a stats reply, for every tree    *)
(* and every number of objects.                                            *)
(***************************************************************************)
EXTENDS Formats, SequenceFacts

-----------------------------------------------------------------------------
(* The objects above an object                                             *)

\* Above goes up a step at a time.
LEMMA UpTrace ==
    ASSUME NEW i, NEW f
    PROVE  \E g : /\ g[0] = {i}
                  /\ \A n \in 1 .. MaxObjects :
                        g[n] = g[n - 1] \cup { f[j] : j \in g[n - 1] \ {0} }
                  /\ Above(i, f) = g[MaxObjects] \ {i}
<1>0. MaxObjects \in Nat
  BY FormatsAssumption
<1> DEFINE Grow(U) == U \cup { f[j] : j \in U \ {0} }
           Step(h, m) == [n \in 0 .. m |-> IF n = 0 THEN {i} ELSE Grow(h[n - 1])]
           g == CHOOSE h : h = Step(h, MaxObjects)
<1>1. Above(i, f) = g[MaxObjects] \ {i}
  BY DEF Above
<1> HIDE DEF Grow
<1>2. \E h : h = Step(h, MaxObjects)
  <2> DEFINE T == { m \in Nat : \E h : h = Step(h, m) }
  <2>1. 0 \in T
    <3> DEFINE e == [n \in 0 .. 0 |-> {i}]
    <3>1. e = Step(e, 0)
      OBVIOUS
    <3> HIDE DEF e, Step
    <3> QED
      BY <3>1
  <2>2. ASSUME NEW m \in Nat, m \in T PROVE m + 1 \in T
    <3>1. PICK h : h = Step(h, m)
      BY <2>2
    <3> DEFINE k == [n \in 0 .. m + 1 |-> IF n = m + 1 THEN Grow(h[m]) ELSE h[n]]
    <3>2. ASSUME NEW n \in 0 .. m + 1
          PROVE  k[n] = IF n = 0 THEN {i} ELSE Grow(k[n - 1])
      <4>1. CASE n = m + 1
        <5>1. n # 0 /\ n - 1 = m /\ m \in 0 .. m + 1 /\ m # m + 1
          BY <4>1
        <5>2. k[n] = Grow(h[m]) /\ k[m] = h[m]
          BY <4>1, <5>1
        <5> HIDE DEF k
        <5> QED
          BY <5>1, <5>2
      <4>2. CASE n # m + 1
        <5>1. n \in 0 .. m /\ (n # 0 => n - 1 \in 0 .. m + 1 /\ n - 1 # m + 1)
          BY <4>2
        <5>2. k[n] = h[n] /\ (n # 0 => k[n - 1] = h[n - 1])
          BY <4>2, <5>1
        <5>3. h[n] = IF n = 0 THEN {i} ELSE Grow(h[n - 1])
          BY <3>1, <5>1
        <5> HIDE DEF k
        <5> QED
          BY <5>2, <5>3
      <4> QED
        BY <4>1, <4>2
    <3>3. k = Step(k, m + 1)
      <4> SUFFICES \A n \in 0 .. m + 1 : k[n] = IF n = 0 THEN {i} ELSE Grow(k[n - 1])
        BY Zenon
      <4> HIDE DEF k
      <4> QED
        BY <3>2
    <3> HIDE DEF k, Step
    <3> QED
      BY <3>3
  <2>3. Nat \subseteq T
    <3> HIDE DEF T
    <3> QED
      BY <2>1, <2>2, SetInduction
  <2> QED
    BY <1>0, <2>3
<1>3. g = Step(g, MaxObjects)
  <2> HIDE DEF Step
  <2> QED
    BY <1>2
<1> HIDE DEF g
<1>4. \A n \in 0 .. MaxObjects : g[n] = IF n = 0 THEN {i} ELSE Grow(g[n - 1])
  BY <1>3
<1>5. g[0] = {i} /\ \A n \in 1 .. MaxObjects : g[n] = Grow(g[n - 1])
  BY <1>0, <1>4
<1> QED
  BY <1>1, <1>5 DEF Grow

\* U is the least set that holds i and, with an object, its parent.
LeastUp(U, i, f, m) ==
    /\ i \in U /\ U \subseteq 0 .. m
    /\ \A j \in U \ {0} : f[j] \in U
    /\ \A C : i \in C /\ (\A j \in C \ {0} : f[j] \in C) => U \subseteq C

\* When parents come before their children, MaxObjects steps are enough for it.
LEMMA AboveFacts ==
    ASSUME NEW m \in 0 .. MaxObjects, NEW i \in 1 .. m, NEW f \in [1 .. m -> 0 .. m],
           \A j \in 1 .. m : f[j] < j
    PROVE  \E U : Above(i, f) = U \ {i} /\ LeastUp(U, i, f, m)
<1>0. MaxObjects \in Nat /\ m \in Nat /\ m <= MaxObjects
  BY FormatsAssumption
<1>1. PICK g : /\ g[0] = {i}
               /\ \A n \in 1 .. MaxObjects :
                     g[n] = g[n - 1] \cup { f[j] : j \in g[n - 1] \ {0} }
               /\ Above(i, f) = g[MaxObjects] \ {i}
  BY UpTrace
<1> DEFINE P(n) == /\ i \in g[n] /\ g[n] \subseteq 0 .. m
                   /\ \A j \in g[n] \ {0} : f[j] \in g[n] \/ j + n <= i
           T == { n \in 0 .. MaxObjects : P(n) }
<1>2. \A n \in 0 .. MaxObjects : n \in T
  <2>1. 0 \in T
    BY <1>0, <1>1
  <2>2. ASSUME NEW n \in 1 .. MaxObjects, n - 1 \in T PROVE n \in T
    <3> DEFINE old == g[n - 1]
               new == g[n]
    <3>1. /\ i \in old /\ old \subseteq 0 .. m
          /\ \A j \in old \ {0} : f[j] \in old \/ j + n - 1 <= i
      BY <2>2
    <3>2. new = old \cup { f[j] : j \in old \ {0} }
      BY <1>1
    <3> HIDE DEF old, new
    <3>3. \A j \in old \ {0} : j \in 1 .. m /\ f[j] \in 0 .. m /\ f[j] < j /\ f[j] \in new
      BY <1>0, <3>1, <3>2
    <3>4. i \in new /\ new \subseteq 0 .. m
      BY <3>1, <3>2, <3>3
    <3>5. ASSUME NEW j \in new \ {0} PROVE f[j] \in new \/ j + n <= i
      <4>1. CASE j \in old
        BY <3>3, <4>1
      <4>2. CASE j \notin old
        <5>1. PICK l \in old \ {0} : j = f[l]
          BY <3>2, <4>2
        <5>2. l + n - 1 <= i /\ j < l /\ l \in Int /\ j \in Int
          BY <3>1, <3>3, <4>2, <5>1
        <5> QED
          BY <5>2
      <4> QED
        BY <4>1, <4>2
    <3>6. P(n)
      BY <3>4, <3>5 DEF new
    <3> QED
      BY <3>6
  <2> HIDE DEF T
  <2> QED
    BY <1>0, <2>1, <2>2, InductionUpTo
<1> DEFINE U == g[MaxObjects]
<1>3. /\ i \in U /\ U \subseteq 0 .. m /\ \A j \in U \ {0} : f[j] \in U
  <2>1. P(MaxObjects)
    BY <1>0, <1>2
  <2>2. ASSUME NEW j \in U \ {0} PROVE ~(j + MaxObjects <= i)
    <3>1. j \in 1 .. m /\ i <= MaxObjects
      BY <1>0, <2>1
    <3> QED
      BY <1>0, <3>1
  <2> QED
    BY <2>1, <2>2
<1>4. ASSUME NEW C, i \in C, \A j \in C \ {0} : f[j] \in C PROVE U \subseteq C
  <2> DEFINE V == { n \in 0 .. MaxObjects : g[n] \subseteq C }
  <2>1. 0 \in V
    BY <1>0, <1>1, <1>4
  <2>2. ASSUME NEW n \in 1 .. MaxObjects, n - 1 \in V PROVE n \in V
    <3>1. g[n - 1] \subseteq C /\ g[n] = g[n - 1] \cup { f[j] : j \in g[n - 1] \ {0} }
      BY <1>1, <2>2
    <3>2. g[n] \subseteq C
      BY <1>4, <3>1
    <3> QED
      BY <3>2
  <2>3. \A n \in 0 .. MaxObjects : n \in V
    <3> HIDE DEF V
    <3> QED
      BY <1>0, <2>1, <2>2, InductionUpTo
  <2> QED
    BY <1>0, <2>3
<1>5. Above(i, f) = U \ {i}
  BY <1>1
<1> HIDE DEF U
<1>6. LeastUp(U, i, f, m)
  BY <1>3, <1>4 DEF LeastUp
<1> QED
  BY <1>5, <1>6

-----------------------------------------------------------------------------
(* The walk and the reader                                                 *)

Object == [type : 0 .. 3, parent : Nat, read : Nat]

\* Where an object was read: below its parent, or below a package of the same node.
WellRead(i) ==
    /\ objs[i].parent \in 0 .. i - 1 /\ objs[i].read \in 0 .. i - 1
    /\ objs[i].type = 0 => objs[i].read = objs[i].parent
    /\ objs[i].type = 2 => objs[i].parent # 0 /\ objs[objs[i].parent].type = 3
    /\ \/ objs[i].read = objs[i].parent
       \/ /\ objs[i].read # 0 /\ objs[objs[i].read].type = 2
          /\ objs[objs[i].read].parent = objs[i].parent

\* The open objects that are no cpu.
Inner == IF Len(open) > 0 /\ objs[open[Len(open)]].type = 0 THEN Len(open) - 1 ELSE Len(open)

\* The open objects are a way down the tree, and the reader's parent is the last of them
\* that is no cpu.
WalkInv ==
    /\ objs \in Seq(Object) /\ Len(objs) <= MaxObjects
    /\ open \in Seq(Nat) /\ Len(open) <= 4
    /\ \A k \in 1 .. Len(open) : open[k] \in 1 .. Len(objs)
    /\ Len(open) > 0 => objs[open[1]].type = 3
    /\ \A k \in 2 .. Len(open) : /\ objs[open[k]].parent = open[k - 1]
                                 /\ objs[open[k]].type \in ChildTypes(objs[open[k - 1]].type)
    /\ parent = IF Inner = 0 THEN 0 ELSE open[Inner]
    /\ \A i \in 1 .. Len(objs) : WellRead(i)

\* What hangs below an object is of a lower type.
LEMMA ChildTypesFacts ==
    ASSUME NEW u \in 0 .. 3, NEW t \in ChildTypes(u)
    PROVE  /\ t \in 0 .. 2 /\ u \in 1 .. 3 /\ t < u
           /\ t = 0 => u = 1
           /\ t = 2 => u = 3
           /\ u # 3 => t = u - 1
           /\ u = 3 => t # 0
<1>1. u = 0 \/ u = 1 \/ u = 2 \/ u = 3
  OBVIOUS
<1> QED
  BY <1>1 DEF ChildTypes

\* The types on the way down, where the reader is, and where it was.
LEMMA OpenFacts ==
    ASSUME WalkInv, NEW k \in 1 .. Len(open), objs[open[k]].type # 0
    PROVE  /\ Inner \in 1 .. 3 /\ k <= Inner /\ parent = open[Inner]
           /\ \A j \in 1 .. Inner : open[j] \in 1 .. Len(objs) /\ objs[open[j]].type \in 1 .. 3
           /\ objs[open[1]].type = 3
           /\ Inner >= 2 => objs[open[2]].type \in {1, 2} /\ objs[open[2]].parent = open[1]
           /\ Inner = 3 => /\ objs[open[2]].type = 2 /\ objs[open[3]].type = 1
                           /\ objs[open[3]].parent = open[2]
<1> DEFINE L == Len(open)
           ty(j) == objs[open[j]].type
<1>1. objs \in Seq(Object) /\ open \in Seq(Nat) /\ L \in Nat /\ L <= 4
  BY DEF WalkInv
<1>2. \A j \in 1 .. L : open[j] \in 1 .. Len(objs) /\ ty(j) \in 0 .. 3
  <2> SUFFICES ASSUME NEW j \in 1 .. L
               PROVE  open[j] \in 1 .. Len(objs) /\ ty(j) \in 0 .. 3
    OBVIOUS
  <2>1. open[j] \in 1 .. Len(objs)
    BY DEF WalkInv
  <2>2. \A x \in 1 .. Len(objs) : objs[x] \in Object
    BY <1>1
  <2>3. objs[open[j]] \in Object
    BY <2>1, <2>2
  <2> QED
    BY <2>1, <2>3 DEF Object
<1>3. /\ L > 0 => ty(1) = 3
      /\ \A j \in 2 .. L : objs[open[j]].parent = open[j - 1] /\ ty(j) \in ChildTypes(ty(j - 1))
      /\ Inner = IF L > 0 /\ ty(L) = 0 THEN L - 1 ELSE L
      /\ parent = IF Inner = 0 THEN 0 ELSE open[Inner]
  BY DEF WalkInv, Inner
<1>4. k \in 1 .. L /\ ty(k) # 0
  OBVIOUS
<1> HIDE DEF L, ty
<1>5. L \in 1 .. 4 /\ ty(1) = 3
  BY <1>1, <1>3, <1>4
<1>6. \A j \in 2 .. L : /\ ty(j) \in 0 .. 2 /\ ty(j - 1) \in 1 .. 3
                        /\ ty(j - 1) # 3 => ty(j) = ty(j - 1) - 1
                        /\ ty(j - 1) = 3 => ty(j) # 0
  <2> SUFFICES ASSUME NEW j \in 2 .. L
               PROVE  /\ ty(j) \in 0 .. 2 /\ ty(j - 1) \in 1 .. 3
                      /\ ty(j - 1) # 3 => ty(j) = ty(j - 1) - 1
                      /\ ty(j - 1) = 3 => ty(j) # 0
    OBVIOUS
  <2>1. j - 1 \in 1 .. L
    BY <1>5
  <2>2. ty(j - 1) \in 0 .. 3 /\ ty(j) \in ChildTypes(ty(j - 1))
    BY <1>2, <1>3, <2>1
  <2> QED
    BY <2>2, ChildTypesFacts
<1>7. /\ L >= 2 => ty(2) \in {1, 2}
      /\ L >= 3 => ty(2) \in 1 .. 3 /\ ty(3) = ty(2) - 1
      /\ L >= 4 => ty(3) \in 1 .. 3 /\ ty(4) = ty(3) - 1
  <2>1. L >= 2 => 2 \in 2 .. L /\ 2 - 1 = 1
    BY <1>5
  <2>2. L >= 3 => 3 \in 2 .. L /\ 3 - 1 = 2
    BY <1>5
  <2>3. L >= 4 => 4 \in 2 .. L /\ 4 - 1 = 3
    BY <1>5
  <2>4. L >= 2 => ty(2) \in {1, 2}
    BY <1>5, <1>6, <2>1
  <2>5. L >= 3 => ty(2) \in 1 .. 3 /\ ty(3) = ty(2) - 1
    BY <1>5, <1>6, <2>2, <2>4
  <2>6. L >= 4 => ty(3) \in 1 .. 3 /\ ty(4) = ty(3) - 1
    BY <1>5, <1>6, <2>3, <2>4, <2>5
  <2> QED
    BY <2>4, <2>5, <2>6
<1>8. L = 1 \/ L = 2 \/ L = 3 \/ L = 4
  BY <1>5
<1>9. Inner \in 1 .. 3 /\ Inner <= L /\ k <= Inner
  <2>1. Inner = IF ty(L) = 0 THEN L - 1 ELSE L
    BY <1>3, <1>5
  <2>2. Inner \in 1 .. 3 /\ Inner <= L
    BY <1>5, <1>7, <1>8, <2>1
  <2>3. k <= Inner
    BY <1>4, <1>5, <2>1
  <2> QED
    BY <2>2, <2>3
<1>10. parent = open[Inner]
  BY <1>3, <1>9
<1>11. \A j \in 1 .. Inner : open[j] \in 1 .. Len(objs) /\ ty(j) \in 1 .. 3
  <2> SUFFICES ASSUME NEW j \in 1 .. Inner
               PROVE  open[j] \in 1 .. Len(objs) /\ ty(j) \in 1 .. 3
    OBVIOUS
  <2>1. j \in 1 .. L
    BY <1>5, <1>9
  <2>2. open[j] \in 1 .. Len(objs) /\ ty(j) \in 0 .. 3
    BY <1>2, <2>1
  <2>3. ty(j) # 0
    <3>1. CASE j = L
      <4>1. Inner = L
        BY <1>5, <1>9, <3>1
      <4> QED
        BY <1>3, <1>5, <3>1, <4>1
    <3>2. CASE j # L
      <4>1. j + 1 \in 2 .. L /\ (j + 1) - 1 = j
        BY <1>5, <2>1, <3>2
      <4>2. ty(j) \in 1 .. 3
        BY <1>6, <4>1
      <4> QED
        BY <4>2
    <3> QED
      BY <3>1, <3>2
  <2> QED
    BY <2>2, <2>3
<1>12. Inner >= 2 => ty(2) \in {1, 2} /\ objs[open[2]].parent = open[1]
  <2>1. Inner >= 2 => L >= 2 /\ 2 \in 2 .. L /\ 2 - 1 = 1
    BY <1>5, <1>9
  <2> QED
    BY <1>3, <1>7, <2>1
<1>13. Inner = 3 => ty(2) = 2 /\ ty(3) = 1 /\ objs[open[3]].parent = open[2]
  <2>1. Inner = 3 => L >= 3 /\ 3 \in 2 .. L /\ 3 - 1 = 2 /\ 3 \in 1 .. Inner
    BY <1>5, <1>9
  <2>2. Inner = 3 => ty(3) # 0 /\ objs[open[3]].parent = open[2]
    BY <1>3, <1>11, <2>1
  <2> QED
    BY <1>5, <1>7, <2>1, <2>2
<1> QED
  BY <1>5, <1>9, <1>10, <1>11, <1>12, <1>13 DEF ty


\* The parent the reader finds for a child, of type t, of the open object k.
LEMMA ReadParentFacts ==
    ASSUME WalkInv, NEW k \in 1 .. Len(open), NEW t \in ChildTypes(objs[open[k]].type)
    PROVE  /\ t \in 0 .. 2 /\ ReadParent(t) \in 1 .. Len(objs)
           /\ t = 0 => ReadParent(t) = open[k]
           /\ t = 2 => objs[open[k]].type = 3
           /\ \/ ReadParent(t) = open[k]
              \/ /\ objs[ReadParent(t)].type = 2
                 /\ objs[ReadParent(t)].parent = open[k]
<1> DEFINE q == open[k]
           N == Len(objs)
<1>0. objs[q].type \in 0 .. 3 /\ q \in 1 .. N
  <2>1. objs \in Seq(Object) /\ q \in 1 .. N
    BY DEF WalkInv
  <2>2. \A x \in 1 .. N : objs[x] \in Object
    BY <2>1
  <2> HIDE DEF q, N
  <2>3. objs[q] \in Object
    BY <2>1, <2>2
  <2> QED
    BY <2>1, <2>3 DEF Object
<1>1. /\ t \in 0 .. 2 /\ objs[q].type \in 1 .. 3 /\ t < objs[q].type
      /\ t = 0 => objs[q].type = 1
      /\ t = 2 => objs[q].type = 3
  BY <1>0, ChildTypesFacts
<1>2. /\ Inner \in 1 .. 3 /\ k <= Inner /\ parent = open[Inner]
      /\ \A j \in 1 .. Inner : open[j] \in 1 .. N /\ objs[open[j]].type \in 1 .. 3
      /\ objs[open[1]].type = 3
      /\ Inner >= 2 => objs[open[2]].type \in {1, 2} /\ objs[open[2]].parent = open[1]
      /\ Inner = 3 => /\ objs[open[2]].type = 2 /\ objs[open[3]].type = 1
                      /\ objs[open[3]].parent = open[2]
  <2>1. objs[open[k]].type # 0
    BY <1>1
  <2> QED
    BY <2>1, OpenFacts
<1>3. ReadParent(t) = IF t >= objs[parent].type THEN objs[parent].read ELSE parent
  BY <1>1 DEF ReadParent, TypeOf
<1>4. \A i \in 1 .. N : WellRead(i)
  BY DEF WalkInv
<1> HIDE DEF N
<1>5. CASE k = Inner
  <2>1. ReadParent(t) = q
    <3>1. parent = q
      BY <1>2, <1>5
    <3> HIDE DEF q
    <3> QED
      BY <1>1, <1>3, <3>1
  <2> QED
    BY <1>0, <1>1, <2>1 DEF N
<1>6. CASE k = 1 /\ Inner = 2
  <2> DEFINE p == open[2]
  <2>1. /\ p \in 1 .. N /\ objs[p].type \in {1, 2} /\ objs[p].parent = q /\ WellRead(p)
        /\ parent = p /\ objs[q].type = 3
    BY <1>2, <1>4, <1>6
  <2>2. t # 0
    BY <1>1, <2>1
  <2> HIDE DEF p
  <2>3. CASE t >= objs[p].type
    <3>1. ReadParent(t) = objs[p].read
      BY <1>3, <2>1, <2>3
    <3>2. /\ \/ objs[p].read = q
             \/ /\ objs[p].read # 0 /\ objs[objs[p].read].type = 2
                /\ objs[objs[p].read].parent = q
          /\ objs[p].read \in 0 .. p - 1
      BY <2>1 DEF WellRead
    <3>3. ReadParent(t) \in 1 .. N
      <4> DEFINE r == objs[p].read
      <4>1. r \in 0 .. p - 1 /\ (r = q \/ r # 0) /\ p \in 1 .. N /\ q \in 1 .. N /\ N \in Nat
        <5>1. N \in Nat
          BY DEF N, WalkInv
        <5> QED
          BY <1>0, <2>1, <3>2, <5>1 DEF N
      <4> HIDE DEF r, q
      <4>2. r \in 1 .. N
        BY <4>1
      <4> QED
        BY <3>1, <4>2 DEF r
    <3> QED
      BY <1>1, <2>1, <2>2, <3>1, <3>2, <3>3 DEF N
  <2>4. CASE ~(t >= objs[p].type)
    <3>1. ReadParent(t) = p
      BY <1>3, <2>1, <2>4
    <3>2. objs[p].type = 2
      BY <1>1, <2>1, <2>2, <2>4
    <3> QED
      BY <1>1, <2>1, <2>2, <3>1, <3>2 DEF N
  <2> QED
    BY <2>3, <2>4
<1>7. CASE k < Inner /\ Inner = 3
  <2> DEFINE c == open[3]
             p == open[2]
  <2>1. /\ c \in 1 .. N /\ p \in 1 .. N /\ objs[c].type = 1 /\ objs[p].type = 2
        /\ objs[c].parent = p /\ objs[p].parent = open[1] /\ parent = c
        /\ WellRead(c)
    BY <1>2, <1>4, <1>7
  <2>2. k = 1 \/ k = 2
    BY <1>7
  <2>3. t # 0
    BY <1>1, <1>2, <1>7, <2>1, <2>2
  <2> HIDE DEF c, p
  <2>4. objs[c].read = p
    <3> DEFINE r == objs[c].read
    <3>1. /\ r \in 0 .. c - 1
          /\ r = p \/ (r # 0 /\ objs[r].type = 2 /\ objs[r].parent = p)
      BY <2>1 DEF WellRead
    <3> HIDE DEF r
    <3>2. r # 0 => r \in 1 .. N
      <4>1. N \in Nat
        BY DEF N, WalkInv
      <4> QED
        BY <2>1, <3>1, <4>1
    <3>3. r # 0 /\ objs[r].type = 2 => objs[objs[r].parent].type = 3
      BY <1>4, <3>2 DEF WellRead
    <3>4. r = p
      BY <2>1, <3>1, <3>3
    <3> QED
      BY <3>4 DEF r
  <2>5. ReadParent(t) = p
    BY <1>1, <1>3, <2>1, <2>3, <2>4
  <2>6. CASE k = 2
    BY <1>1, <2>1, <2>3, <2>5, <2>6 DEF p, N
  <2>7. CASE k = 1
    BY <1>1, <2>1, <2>3, <2>5, <2>7 DEF N
  <2> QED
    BY <2>2, <2>6, <2>7
<1>8. k = Inner \/ (k = 1 /\ Inner = 2) \/ (k < Inner /\ Inner = 3)
  BY <1>2
<1> QED
  BY <1>5, <1>6, <1>7, <1>8

\* One object more.
LEMMA WalkStep ==
    ASSUME WalkInv, get_object_stat
    PROVE  WalkInv'
<1>0. PICK k \in 0 .. Len(open) :
        \E t \in IF k = 0 THEN {3} ELSE ChildTypes(TypeOf(open[k])) :
          /\ objs' = Append(objs, [type |-> t, parent |-> IF k = 0 THEN 0 ELSE open[k],
                                   read |-> ReadParent(t)])
          /\ open' = Append(SubSeq(open, 1, k), Len(objs) + 1)
          /\ parent' = IF t = 0 THEN ReadParent(t) ELSE Len(objs) + 1
  BY Zenon DEF get_object_stat
<1>1. PICK t \in IF k = 0 THEN {3} ELSE ChildTypes(TypeOf(open[k])) :
        /\ objs' = Append(objs, [type |-> t, parent |-> IF k = 0 THEN 0 ELSE open[k],
                                 read |-> ReadParent(t)])
        /\ open' = Append(SubSeq(open, 1, k), Len(objs) + 1)
        /\ parent' = IF t = 0 THEN ReadParent(t) ELSE Len(objs) + 1
  BY <1>0, Zenon
<1> DEFINE N == Len(objs)
           L == Len(open)
           above == IF k = 0 THEN 0 ELSE open[k]
           read == ReadParent(t)
           obj == [type |-> t, parent |-> above, read |-> read]
<1>2. /\ objs \in Seq(Object) /\ N \in Nat /\ N <= MaxObjects
      /\ open \in Seq(Nat) /\ L \in Nat /\ L <= 4 /\ MaxObjects \in Nat
      /\ \A j \in 1 .. L : open[j] \in 1 .. N
      /\ \A i \in 1 .. N : WellRead(i)
  BY FormatsAssumption DEF WalkInv
<1>3. N + 1 <= MaxObjects
  <2>1. N < MaxObjects
    BY DEF get_object_stat
  <2> QED
    BY <1>2, <2>1
\* What is new of it.
<1>4. /\ t \in 0 .. 3 /\ above \in 0 .. N /\ read \in 0 .. N
      /\ t = 0 => read = above /\ k # 0
      /\ t = 2 => above # 0 /\ objs[above].type = 3
      /\ read = above \/ (read # 0 /\ objs[read].type = 2 /\ objs[read].parent = above)
      /\ k = 0 => t = 3
      /\ k # 0 => t \in ChildTypes(objs[open[k]].type)
  <2>1. CASE k = 0
    <3>1. t = 3 /\ above = 0 /\ read = 0
      BY <2>1 DEF ReadParent
    <3> QED
      BY <1>2, <2>1, <3>1
  <2>2. CASE k # 0
    <3>1. k \in 1 .. L /\ t \in ChildTypes(objs[open[k]].type) /\ above = open[k]
      BY <1>2, <2>2 DEF TypeOf
    <3>2. /\ t \in 0 .. 2 /\ read \in 1 .. N
          /\ t = 0 => read = open[k]
          /\ t = 2 => objs[open[k]].type = 3
          /\ \/ read = open[k]
             \/ /\ objs[read].type = 2 /\ objs[read].parent = open[k]
      BY <3>1, ReadParentFacts
    <3>3. above \in 1 .. N
      BY <1>2, <3>1
    <3> HIDE DEF N, L, above, read
    <3>4. t \in 0 .. 3 /\ above \in 0 .. N /\ read \in 0 .. N /\ above # 0 /\ read # 0
      BY <1>2, <3>2, <3>3
    <3> QED
      BY <2>2, <3>1, <3>2, <3>4
  <2> QED
    BY <2>1, <2>2
<1>5. obj \in Object /\ obj.type = t /\ obj.parent = above /\ obj.read = read
  <2> HIDE DEF above, read, N
  <2>1. above \in Nat /\ read \in Nat
    BY <1>2, <1>4
  <2> QED
    BY <1>4, <2>1 DEF Object
<1>6. /\ objs' \in Seq(Object) /\ Len(objs') = N + 1
      /\ \A i \in 1 .. N : objs'[i] = objs[i]
      /\ objs'[N + 1] = obj
  <2>1. objs' = Append(objs, obj)
    BY <1>1
  <2> HIDE DEF obj
  <2> QED
    BY <1>2, <1>5, <2>1
<1> HIDE DEF obj
<1>7. \A i \in 1 .. Len(objs') : WellRead(i)'
  <2> SUFFICES ASSUME NEW i \in 1 .. Len(objs') PROVE WellRead(i)'
    OBVIOUS
  <2> HIDE DEF N, above, read
  <2>1. CASE i \in 1 .. N
    <3>1. WellRead(i) /\ objs'[i] = objs[i]
      BY <1>2, <1>6, <2>1
    <3> DEFINE a == objs[i].parent
               r == objs[i].read
    <3>2. a \in 0 .. i - 1 /\ r \in 0 .. i - 1
      BY <3>1 DEF WellRead
    <3>3. (a # 0 => objs'[a] = objs[a]) /\ (r # 0 => objs'[r] = objs[r])
      <4>1. (a # 0 => a \in 1 .. N) /\ (r # 0 => r \in 1 .. N)
        <5> HIDE DEF a, r
        <5> QED
          BY <1>2, <2>1, <3>2
      <4> QED
        BY <1>6, <4>1
    <3> QED
      BY <3>1, <3>3 DEF WellRead
  <2>2. CASE i = N + 1
    <3>1. /\ objs'[i].type = t /\ objs'[i].parent = above /\ objs'[i].read = read
      BY <1>5, <1>6, <2>2
    <3>2. (above # 0 => objs'[above] = objs[above]) /\ (read # 0 => objs'[read] = objs[read])
      <4>1. (above # 0 => above \in 1 .. N) /\ (read # 0 => read \in 1 .. N)
        BY <1>2, <1>4
      <4> QED
        BY <1>6, <4>1
    <3>3. above \in 0 .. i - 1 /\ read \in 0 .. i - 1
      BY <1>2, <1>4, <2>2
    <3> QED
      BY <1>4, <3>1, <3>2, <3>3 DEF WellRead
  <2> QED
    BY <1>2, <1>6, <2>1, <2>2
\* The way down to it.
<1>8. k # 0 => k <= 3 /\ k \in 1 .. L /\ objs[open[k]].type # 0
  <2> SUFFICES ASSUME k # 0 PROVE k <= 3 /\ k \in 1 .. L /\ objs[open[k]].type # 0
    OBVIOUS
  <2>1. k \in 1 .. L
    BY <1>2
  <2>2. objs[open[k]].type # 0
    BY <1>4 DEF ChildTypes
  <2>3. Inner \in 1 .. 3 /\ k <= Inner
    BY <2>1, <2>2, OpenFacts
  <2> QED
    BY <2>1, <2>2, <2>3
<1>9. /\ open' \in Seq(Nat) /\ Len(open') = k + 1 /\ k \in 0 .. 3
      /\ \A j \in 1 .. k : open'[j] = open[j] /\ j \in 1 .. L
      /\ open'[k + 1] = N + 1
  <2> DEFINE o == SubSeq(open, 1, k)
  <2>1. o \in Seq(Nat) /\ Len(o) = k /\ \A j \in 1 .. k : o[j] = open[j] /\ j \in 1 .. L
    <3>1. k \in Nat /\ k <= L /\ \A j \in 1 .. k : j \in 1 .. L
      BY <1>2
    <3>2. \A j \in 1 .. k : open[j] \in Nat
      BY <1>2, <3>1
    <3>3. /\ o \in Seq(Nat) /\ Len(o) = IF 1 <= k THEN k - 1 + 1 ELSE 0
          /\ \A j \in 1 .. k - 1 + 1 : o[j] = open[1 + j - 1]
      BY <3>1, <3>2, SubSeqProperties
    <3> HIDE DEF o
    <3> QED
      BY <3>1, <3>3
  <2>2. open' = Append(o, N + 1)
    BY <1>1
  <2> HIDE DEF o, N
  <2>3. k \in 0 .. 3
    BY <1>2, <1>8
  <2>4. open' \in Seq(Nat) /\ Len(open') = Len(o) + 1 /\ open'[Len(o) + 1] = N + 1
        /\ \A j \in 1 .. Len(o) : open'[j] = o[j]
    <3> DEFINE e == N + 1
    <3>1. e \in Nat
      BY <1>2
    <3> HIDE DEF e
    <3>2. open' = Append(o, e)
      BY <2>2 DEF e
    <3>3. open' \in Seq(Nat) /\ Len(open') = Len(o) + 1 /\ open'[Len(o) + 1] = e
          /\ \A j \in 1 .. Len(o) : open'[j] = o[j]
      BY <2>1, <3>1, <3>2
    <3> QED
      BY <3>3 DEF e
  <2> QED
    BY <2>1, <2>3, <2>4
<1>10. \A j \in 1 .. Len(open') : open'[j] \in 1 .. Len(objs')
  <2> HIDE DEF N, L
  <2> SUFFICES ASSUME NEW j \in 1 .. Len(open') PROVE open'[j] \in 1 .. Len(objs')
    OBVIOUS
  <2>1. CASE j \in 1 .. k
    <3>1. open'[j] \in 1 .. N
      BY <1>2, <1>9, <2>1
    <3> QED
      BY <1>2, <1>6, <3>1
  <2>2. CASE j = k + 1
    BY <1>2, <1>6, <1>9, <2>2
  <2> QED
    BY <1>9, <2>1, <2>2
<1>11. \A j \in 1 .. k : objs'[open'[j]] = objs[open[j]]
  BY <1>2, <1>6, <1>9
<1>12. objs'[open'[1]].type = 3
  <2>1. CASE k = 0
    BY <1>4, <1>5, <1>6, <1>9, <2>1
  <2>2. CASE k # 0
    <3>1. objs[open[1]].type = 3 /\ 1 \in 1 .. k
      BY <1>2, <1>8, <2>2 DEF WalkInv
    <3> QED
      BY <1>11, <3>1
  <2> QED
    BY <2>1, <2>2
<1>13. ASSUME NEW j \in 2 .. Len(open')
       PROVE  /\ objs'[open'[j]].parent = open'[j - 1]
              /\ objs'[open'[j]].type \in ChildTypes(objs'[open'[j - 1]].type)
  <2>1. j - 1 \in 1 .. k /\ k # 0 /\ (j \in 1 .. k \/ j = k + 1)
    BY <1>9
  <2>2. open'[j - 1] = open[j - 1] /\ objs'[open'[j - 1]] = objs[open[j - 1]]
    BY <1>9, <1>11, <2>1
  <2>3. CASE j \in 1 .. k
    <3>1. objs'[open'[j]] = objs[open[j]] /\ j \in 2 .. L
      BY <1>8, <1>9, <1>11, <2>1, <2>3
    <3>2. /\ objs[open[j]].parent = open[j - 1]
          /\ objs[open[j]].type \in ChildTypes(objs[open[j - 1]].type)
      BY <3>1 DEF WalkInv
    <3> QED
      BY <2>2, <3>1, <3>2
  <2>4. CASE j = k + 1
    <3>1. objs'[open'[j]].parent = above /\ objs'[open'[j]].type = t /\ j - 1 = k
      <4>1. open'[j] = N + 1 /\ j - 1 = k
        BY <1>9, <2>4
      <4> HIDE DEF N, above
      <4> QED
        BY <1>5, <1>6, <4>1
    <3> QED
      BY <1>4, <2>1, <2>2, <3>1
  <2> QED
    BY <2>1, <2>3, <2>4
<1>14. parent' = IF Inner' = 0 THEN 0 ELSE open'[Inner']
  <2>1. objs'[open'[k + 1]].type = t
    BY <1>5, <1>6, <1>9
  <2>2. Len(open') = k + 1 /\ k \in 0 .. 3
    BY <1>9
  <2>3. Inner' = IF t = 0 THEN k ELSE k + 1
    BY <2>1, <2>2 DEF Inner
  <2>4. CASE t = 0
    <3>1. parent' = read /\ read = above /\ k # 0
      BY <1>1, <1>4, <2>4
    <3>2. open'[k] = open[k] /\ above = open[k]
      BY <1>9, <3>1
    <3> QED
      BY <2>3, <2>4, <3>1, <3>2
  <2>5. CASE t # 0
    <3>1. parent' = N + 1 /\ open'[k + 1] = N + 1 /\ k + 1 # 0
      BY <1>1, <1>9, <2>5
    <3> QED
      BY <2>3, <2>5, <3>1
  <2> QED
    BY <2>4, <2>5
<1> HIDE DEF N, L
<1>15. Len(open') <= 4 /\ Len(objs') <= MaxObjects
  BY <1>3, <1>6, <1>9
<1> QED
  BY <1>6, <1>7, <1>9, <1>10, <1>12, <1>13, <1>14, <1>15 DEF WalkInv

\* What the reader shows is what was walked, and packages beside it.
LEMMA WalkRead ==
    ASSUME WalkInv
    PROVE  TreeRead
<1> DEFINE N == Len(objs)
<1>1. N \in 0 .. MaxObjects
  BY FormatsAssumption DEF WalkInv
<1>2. \A j \in 1 .. N : /\ WellRead(j) /\ objs[j].parent \in 0 .. j - 1
                        /\ objs[j].read \in 0 .. j - 1
  BY DEF WalkInv, WellRead
<1> DEFINE D == DaemonParent
           R == ShownParent
<1> HIDE DEF N
<1>3. /\ D \in [1 .. N -> 0 .. N] /\ R \in [1 .. N -> 0 .. N]
      /\ \A j \in 1 .. N : D[j] = objs[j].parent /\ R[j] = objs[j].read
      /\ \A j \in 1 .. N : D[j] < j /\ R[j] < j
  <2>1. D = [j \in 1 .. N |-> objs[j].parent] /\ R = [j \in 1 .. N |-> objs[j].read]
    BY DEF DaemonParent, ShownParent, N
  <2>2. \A j \in 1 .. N : /\ objs[j].parent \in 0 .. N /\ objs[j].read \in 0 .. N
                          /\ objs[j].parent < j /\ objs[j].read < j
    BY <1>1, <1>2
  <2> QED
    BY <2>1, <2>2
<1> HIDE DEF D, R
<1> SUFFICES ASSUME NEW i \in 1 .. N
             PROVE  /\ Above(i, D) \subseteq Above(i, R)
                    /\ \A j \in Above(i, R) \ Above(i, D) : TypeOf(j) = 2
  BY DEF TreeRead, N, D, R
<1>4. PICK U : Above(i, D) = U \ {i} /\ LeastUp(U, i, D, N)
  BY <1>1, <1>3, AboveFacts
<1>4a. /\ i \in U /\ U \subseteq 0 .. N /\ \A j \in U \ {0} : D[j] \in U
      /\ \A C : i \in C /\ (\A j \in C \ {0} : D[j] \in C) => U \subseteq C
  BY <1>4, Zenon DEF LeastUp
<1>5. PICK V : Above(i, R) = V \ {i} /\ LeastUp(V, i, R, N)
  BY <1>1, <1>3, AboveFacts
<1>5a. /\ i \in V /\ V \subseteq 0 .. N /\ \A j \in V \ {0} : R[j] \in V
      /\ \A C : i \in C /\ (\A j \in C \ {0} : R[j] \in C) => V \subseteq C
  BY <1>5, Zenon DEF LeastUp
<1>6. \A j \in 1 .. N : \/ R[j] = D[j]
                        \/ /\ R[j] # 0 /\ objs[R[j]].type = 2 /\ D[R[j]] = D[j]
                           /\ R[j] \in 1 .. N
  <2> SUFFICES ASSUME NEW j \in 1 .. N, R[j] # D[j]
               PROVE  /\ R[j] # 0 /\ objs[R[j]].type = 2 /\ D[R[j]] = D[j] /\ R[j] \in 1 .. N
    OBVIOUS
  <2>1. R[j] # 0 /\ objs[R[j]].type = 2 /\ objs[R[j]].parent = D[j]
    BY <1>2, <1>3 DEF WellRead
  <2>2. R[j] \in 1 .. N
    BY <1>1, <1>3, <2>1
  <2> QED
    BY <1>3, <2>1, <2>2
\* Below what holds it.
<1>7. U \subseteq V
  <2> DEFINE T == { n \in 0 .. N : \A j \in V \ {0} : j <= n => D[j] \in V }
  <2>1. 0 \in T
    BY <1>1, <1>5a
  <2>2. ASSUME NEW n \in 1 .. N, n - 1 \in T PROVE n \in T
    <3> SUFFICES ASSUME NEW j \in V \ {0}, j <= n PROVE D[j] \in V
      OBVIOUS
    <3>1. j \in 1 .. N /\ R[j] \in V
      BY <1>1, <1>5a
    <3>2. CASE R[j] = D[j]
      BY <3>1, <3>2
    <3>3. CASE R[j] # D[j]
      <4>1. R[j] # 0 /\ D[R[j]] = D[j] /\ R[j] \in 1 .. N /\ R[j] < j
        BY <1>3, <1>6, <3>1, <3>3
      <4>2. R[j] <= n - 1
        BY <3>1, <4>1
      <4>3. D[R[j]] \in V
        BY <2>2, <3>1, <4>1, <4>2
      <4> QED
        BY <4>1, <4>3
    <3> QED
      BY <3>2, <3>3
  <2>3. \A n \in 0 .. N : n \in T
    <3>1. N \in Nat
      BY <1>1
    <3> HIDE DEF T
    <3> QED
      BY <2>1, <2>2, <3>1, InductionUpTo
  <2>4. \A j \in V \ {0} : D[j] \in V
    <3>1. N \in T
      BY <1>1, <2>3
    <3> QED
      BY <1>1, <1>5a, <3>1
  <2> QED
    BY <1>4a, <1>5a, <2>4
\* Nothing else but packages above it.
<1>8. ASSUME NEW j \in V, j \notin U PROVE TypeOf(j) = 2
  <2> DEFINE E == U \cup { p \in 1 .. N : objs[p].type = 2 /\ D[p] \in U }
  <2>1. ASSUME NEW l \in E \ {0} PROVE R[l] \in E
    <3>1. l \in 1 .. N /\ D[l] \in U
      BY <1>1, <1>4a, <2>1
    <3>2. CASE R[l] = D[l]
      BY <3>1, <3>2
    <3>3. CASE R[l] # D[l]
      <4>1. R[l] \in 1 .. N /\ objs[R[l]].type = 2 /\ D[R[l]] = D[l]
        BY <1>6, <3>1, <3>3
      <4> QED
        BY <3>1, <4>1
    <3> QED
      BY <3>2, <3>3
  <2>2. i \in E
    BY <1>4a
  <2>3. V \subseteq E
    <3> HIDE DEF E
    <3> QED
      BY <1>5a, <2>1, <2>2
  <2>4. objs[j].type = 2
    BY <1>8, <2>3
  <2> QED
    BY <2>4 DEF TypeOf
<1> QED
  BY <1>4, <1>5, <1>7, <1>8

\* The tree that parse_into_tree makes of what get_object_stat wrote has every object
\* below those that hold it, and nothing else above an object but packages of its node:
\* for every tree and every number of objects.
THEOREM TreeAlwaysRead == Spec => []TreeRead
<1>1. Init => WalkInv
  <2> SUFFICES ASSUME Init PROVE WalkInv
    OBVIOUS
  <2>1. objs = <<>> /\ open = <<>> /\ parent = 0 /\ Len(objs) = 0 /\ Len(open) = 0
    BY DEF Init
  <2>2. MaxObjects \in Nat /\ Inner = 0
    BY <2>1, FormatsAssumption DEF Inner
  <2> QED
    BY <2>1, <2>2 DEF WalkInv
<1>2. WalkInv /\ [Next]_vars => WalkInv'
  <2> SUFFICES ASSUME WalkInv, [Next]_vars PROVE WalkInv'
    OBVIOUS
  <2>1. CASE get_object_stat
    BY <2>1, WalkStep
  <2>2. CASE Type \/ ReadWritten \/ UNCHANGED vars
    <3>1. UNCHANGED <<objs, open, parent>>
      BY <2>2 DEF Type, ReadWritten, Read, vars
    <3> QED
      BY <3>1 DEF WalkInv, WellRead, Inner
  <2> QED
    BY <2>1, <2>2 DEF Next
<1>3. WalkInv => TreeRead
  BY WalkRead
<1> QED
  BY <1>1, <1>2, <1>3, PTL DEF Spec
=============================================================================
