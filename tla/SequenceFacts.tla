--------------------------- MODULE SequenceFacts ---------------------------
(***************************************************************************)
(* What the list operations of the balancer do to the set of entries of a  *)
(* GList and to the absence of duplicates.                                 *)
(***************************************************************************)
EXTENDS Integers, SequencesExt, SequenceTheorems, WellFoundedInduction, TLAPS

\* A function on 1 .. n is a sequence.
LEMMA FunctionIsSeq ==
    ASSUME NEW S, NEW n \in Nat, NEW s \in [1 .. n -> S]
    PROVE  s \in Seq(S)
  BY SMT

\* Taking the head off a list without duplicates takes exactly that entry out.
LEMMA TailFacts ==
    ASSUME NEW S, NEW s \in Seq(S), s # <<>>
    PROVE  /\ Head(s) \in S
           /\ Head(s) \in Range(s)
           /\ Tail(s) \in Seq(S)
           /\ Range(Tail(s)) \subseteq Range(s)
           /\ Range(s) = Range(Tail(s)) \cup {Head(s)}
           /\ IsInjective(s) => /\ IsInjective(Tail(s))
                                /\ Head(s) \notin Range(Tail(s))
<1>1. /\ Len(s) \in Nat /\ Len(s) >= 1 /\ DOMAIN s = 1 .. Len(s)
      /\ Head(s) = s[1]
      /\ Tail(s) \in Seq(S) /\ Len(Tail(s)) = Len(s) - 1
      /\ DOMAIN Tail(s) = 1 .. (Len(s) - 1)
      /\ \A k \in 1 .. (Len(s) - 1) : Tail(s)[k] = s[k + 1]
  OBVIOUS
<1>2. Head(s) \in S /\ Head(s) \in Range(s)
  BY <1>1 DEF Range
<1>3. Range(Tail(s)) \subseteq Range(s)
  BY <1>1 DEF Range
<1>4. Range(s) \subseteq Range(Tail(s)) \cup {Head(s)}
  <2>1. SUFFICES ASSUME NEW k \in 1 .. Len(s), k # 1
                 PROVE  s[k] \in Range(Tail(s))
    BY <1>1 DEF Range
  <2>2. k - 1 \in 1 .. (Len(s) - 1) /\ Tail(s)[k - 1] = s[k]
    BY <1>1, <2>1
  <2> QED
    BY <1>1, <2>2 DEF Range
<1>5. ASSUME IsInjective(s)
      PROVE  IsInjective(Tail(s)) /\ Head(s) \notin Range(Tail(s))
  BY <1>1, <1>5 DEF IsInjective, Range
<1> QED
  BY <1>1, <1>2, <1>3, <1>4, <1>5

\* g_list_append adds exactly one entry.
LEMMA AppendFacts ==
    ASSUME NEW S, NEW s \in Seq(S), NEW e \in S
    PROVE  /\ Append(s, e) \in Seq(S)
           /\ Range(Append(s, e)) = Range(s) \cup {e}
           /\ IsInjective(s) /\ e \notin Range(s) => IsInjective(Append(s, e))
<1>1. /\ Append(s, e) \in Seq(S) /\ Len(s) \in Nat
      /\ DOMAIN s = 1 .. Len(s)
      /\ DOMAIN Append(s, e) = 1 .. (Len(s) + 1)
      /\ \A k \in 1 .. Len(s) : Append(s, e)[k] = s[k]
      /\ Append(s, e)[Len(s) + 1] = e
  OBVIOUS
<1>2. Range(Append(s, e)) \subseteq Range(s) \cup {e}
  BY <1>1 DEF Range
<1>3. Range(s) \cup {e} \subseteq Range(Append(s, e))
  <2>1. Range(s) \subseteq Range(Append(s, e))
    <3>1. SUFFICES ASSUME NEW k \in 1 .. Len(s)
                   PROVE  s[k] \in Range(Append(s, e))
      BY <1>1 DEF Range
    <3>2. k \in 1 .. (Len(s) + 1) /\ Append(s, e)[k] = s[k]
      BY <1>1
    <3> QED
      BY <1>1, <3>2 DEF Range
  <2>2. Len(s) + 1 \in 1 .. (Len(s) + 1)
    BY <1>1
  <2> QED
    BY <1>1, <2>1, <2>2 DEF Range
<1>4. ASSUME IsInjective(s), e \notin Range(s)
      PROVE  IsInjective(Append(s, e))
  BY <1>1, <1>4 DEF IsInjective, Range
<1> QED
  BY <1>1, <1>2, <1>3, <1>4

\* g_list_remove on a list without duplicates takes the entry out for good.
LEMMA RemoveFirstFacts ==
    ASSUME NEW S, NEW s \in Seq(S), IsInjective(s), NEW e
    PROVE  /\ RemoveFirst(s, e) \in Seq(S)
           /\ Range(RemoveFirst(s, e)) = Range(s) \ {e}
           /\ IsInjective(RemoveFirst(s, e))
<1>1. Len(s) \in Nat /\ DOMAIN s = 1 .. Len(s)
  OBVIOUS
<1>2. CASE \A k \in 1 .. Len(s) : s[k] # e
  BY <1>1, <1>2 DEF RemoveFirst, Range
<1>3. CASE \E k \in 1 .. Len(s) : s[k] = e
  <2>1. PICK k \in 1 .. Len(s) : s[k] = e
    BY <1>3
  <2>2. { j \in 1 .. Len(s) : s[j] = e } = {k}
    BY <1>1, <2>1 DEF IsInjective
  <2>3. SelectInSeq(s, LAMBDA v : v = e) = k
    BY <2>1, <2>2 DEF SelectInSeq, Min
  <2> DEFINE u == SubSeq(s, 1, k - 1)
             v == SubSeq(s, k + 1, Len(s))
             t == u \o v
  <2>4. RemoveFirst(s, e) = t
    BY <1>3, <2>3 DEF RemoveFirst, RemoveAt
  <2>a. /\ u \in Seq(S) /\ Len(u) = k - 1
        /\ \A j \in 1 .. (k - 1) : u[j] = s[j]
    BY <1>1, <2>1, SubSeqProperties
  <2>b. /\ v \in Seq(S)
        /\ Len(v) = IF k + 1 <= Len(s) THEN Len(s) - (k + 1) + 1 ELSE 0
        /\ \A j \in 1 .. Len(s) - (k + 1) + 1 : v[j] = s[k + 1 + j - 1]
    <3>1. \A j \in k + 1 .. Len(s) : s[j] \in S
      BY <1>1, <2>1
    <3>2. k + 1 \in Int /\ Len(s) \in Int
      BY <1>1, <2>1
    <3> QED
      BY <3>1, <3>2, SubSeqProperties
  <2> HIDE DEF u, v
  <2>c. /\ t \in Seq(S) /\ Len(t) = Len(u) + Len(v)
        /\ \A j \in 1 .. Len(u) + Len(v) :
              t[j] = IF j <= Len(u) THEN u[j] ELSE v[j - Len(u)]
    BY <2>a, <2>b, ConcatProperties
  <2>d. DOMAIN t = 1 .. Len(t)
    BY <2>c, LenProperties
  <2> HIDE DEF t
  <2>e. Len(v) = Len(s) - k
    BY <1>1, <2>1, <2>b
  <2>f. ASSUME NEW j \in 1 .. (Len(s) - k)
        PROVE  v[j] = s[k + j]
    <3>1. k + 1 + j - 1 = k + j /\ j \in 1 .. Len(s) - (k + 1) + 1
      BY <1>1, <2>1
    <3> QED
      BY <2>b, <3>1
  <2>5. /\ t \in Seq(S) /\ Len(t) = Len(s) - 1 /\ DOMAIN t = 1 .. (Len(s) - 1)
        /\ \A j \in 1 .. (Len(s) - 1) : t[j] = IF j < k THEN s[j] ELSE s[j + 1]
    <3>1. t \in Seq(S) /\ Len(t) = Len(s) - 1 /\ DOMAIN t = 1 .. (Len(s) - 1)
      BY <1>1, <2>1, <2>a, <2>c, <2>d, <2>e
    <3>2. ASSUME NEW j \in 1 .. (Len(s) - 1), j < k
          PROVE  t[j] = s[j]
      <4>1. /\ j \in 1 .. Len(u) + Len(v) /\ j <= Len(u)
            /\ j \in 1 .. (k - 1)
        BY <1>1, <2>1, <2>a, <2>e, <3>2
      <4>2. t[j] = u[j]
        BY <2>c, <4>1
      <4> QED
        BY <2>a, <4>1, <4>2
    <3>3. ASSUME NEW j \in 1 .. (Len(s) - 1), ~(j < k)
          PROVE  t[j] = s[j + 1]
      <4>1. j - (k - 1) \in 1 .. (Len(s) - k) /\ k + (j - (k - 1)) = j + 1
        BY <1>1, <2>1, <3>3
      <4>2. v[j - (k - 1)] = s[j + 1]
        BY <2>f, <4>1
      <4>3. j \in 1 .. Len(u) + Len(v) /\ ~(j <= Len(u))
        BY <1>1, <2>1, <2>a, <2>e, <3>3
      <4>4. t[j] = v[j - Len(u)]
        BY <2>c, <4>3
      <4>5. t[j] = v[j - (k - 1)]
        BY <2>a, <4>4
      <4> QED
        BY <4>2, <4>5
    <3> QED
      BY <3>1, <3>2, <3>3
  <2>6. Range(t) \subseteq Range(s) \ {e}
    BY <1>1, <2>1, <2>5, SMTT(30) DEF Range, IsInjective
  <2>7. ASSUME NEW j \in 1 .. Len(s), j # k
        PROVE  s[j] \in Range(t)
    <3>1. CASE j < k
      <4>1. j \in 1 .. (Len(s) - 1) /\ t[j] = s[j]
        BY <1>1, <2>1, <2>5, <3>1
      <4> QED
        BY <2>5, <4>1 DEF Range
    <3>2. CASE j > k
      <4>1. j - 1 \in 1 .. (Len(s) - 1) /\ t[j - 1] = s[j]
        BY <1>1, <2>1, <2>5, <3>2
      <4> QED
        BY <2>5, <4>1 DEF Range
    <3> QED
      BY <2>7, <3>1, <3>2
  <2>8. IsInjective(t)
    BY <1>1, <2>1, <2>5, SMTT(30) DEF IsInjective
  <2>9. Range(t) = Range(s) \ {e}
    BY <1>1, <2>1, <2>6, <2>7 DEF Range
  <2> QED
    BY <2>4, <2>5, <2>8, <2>9
<1> QED
  BY <1>2, <1>3

\* A list read through a permutation of its indices has the same entries.
LEMMA PermutationFacts ==
    ASSUME NEW S, NEW s \in Seq(S),
           NEW p \in Bijection(1 .. Len(s), 1 .. Len(s)),
           NEW t, t = [k \in 1 .. Len(s) |-> s[p[k]]]
    PROVE  /\ t \in Seq(S) /\ Len(t) = Len(s)
           /\ Range(t) = Range(s)
           /\ IsInjective(s) => IsInjective(t)
<1>1. /\ Len(s) \in Nat /\ DOMAIN s = 1 .. Len(s)
      /\ p \in [1 .. Len(s) -> 1 .. Len(s)]
      /\ \A a, b \in 1 .. Len(s) : p[a] = p[b] => a = b
      /\ \A b \in 1 .. Len(s) : \E a \in 1 .. Len(s) : p[a] = b
  BY DEF Bijection, Injection, Surjection, IsInjective
<1>2. /\ t \in Seq(S) /\ Len(t) = Len(s) /\ DOMAIN t = 1 .. Len(s)
  BY <1>1
<1>3. Range(t) \subseteq Range(s)
  BY <1>1, <1>2 DEF Range
<1>4. ASSUME NEW b \in 1 .. Len(s)
      PROVE  s[b] \in Range(t)
  <2>1. PICK a \in 1 .. Len(s) : p[a] = b
    BY <1>1
  <2> QED
    BY <1>2, <2>1 DEF Range
<1>5. Range(s) \subseteq Range(t)
  <2>1. SUFFICES ASSUME NEW x \in Range(s) PROVE x \in Range(t)
    OBVIOUS
  <2>2. PICK b \in 1 .. Len(s) : x = s[b]
    BY <1>1 DEF Range
  <2> QED
    BY <1>4, <2>2
<1>6. ASSUME IsInjective(s), NEW a \in 1 .. Len(s), NEW b \in 1 .. Len(s),
             t[a] = t[b]
      PROVE  a = b
  <2>1. p[a] \in DOMAIN s /\ p[b] \in DOMAIN s /\ s[p[a]] = s[p[b]]
    BY <1>1, <1>6
  <2>2. p[a] = p[b]
    BY <1>6, <2>1 DEF IsInjective
  <2> QED
    BY <1>1, <2>2
<1>7. IsInjective(s) => IsInjective(t)
  BY <1>2, <1>6 DEF IsInjective
<1> QED
  BY <1>2, <1>3, <1>5, <1>7

-----------------------------------------------------------------------------
(* Induction.  The rules of the library take a predicate; these take the   *)
(* set of numbers that satisfy it.                                         *)

\* A set of numbers that is bounded from below has a least one.
LEMMA LeastNumber ==
    ASSUME NEW T, T \subseteq Int, T # {}, NEW b \in Int, \A x \in T : b <= x
    PROVE  \E m \in T : \A k \in T : m <= k
<1> DEFINE N == { x - b : x \in T }
<1>0. \A x \in T : x \in Int /\ x - b \in Nat
  OBVIOUS
<1>1. N \subseteq Nat /\ N # {}
  BY <1>0
<1>2. \E n \in N : \A k \in N : ~(<<k, n>> \in OpToRel(<, Nat))
  BY <1>1, WFMin, NatLessThanWellFounded
<1>3. PICK n \in N : \A k \in N : ~(<<k, n>> \in OpToRel(<, Nat))
  BY <1>2
<1>4. ASSUME NEW k \in N PROVE n <= k
  <2>1. k \in Nat /\ n \in Nat
    BY <1>1
  <2>2. ~(k < n)
    BY <1>3, <2>1 DEF OpToRel
  <2> QED
    BY <2>1, <2>2
<1>5. PICK m \in T : n = m - b
  BY <1>3
<1>6. ASSUME NEW k \in T PROVE m <= k
  <2>1. k - b \in N
    OBVIOUS
  <2>2. m - b <= k - b
    BY <1>4, <1>5, <2>1
  <2> QED
    BY <2>2
<1> QED
  BY <1>6

\* A set with 0 that has with a number its successor has them all.
LEMMA SetInduction ==
    ASSUME NEW T, 0 \in T, \A n \in Nat : n \in T => n + 1 \in T
    PROVE  Nat \subseteq T
<1> DEFINE U == Nat \ T
<1> SUFFICES ASSUME NEW n \in U PROVE FALSE
  OBVIOUS
<1>0. U \subseteq Int /\ U # {} /\ 0 \in Int /\ \A x \in U : 0 <= x
  OBVIOUS
<1>1. PICK m \in U : \A k \in U : m <= k
  <2> HIDE DEF U
  <2> QED
    BY <1>0, LeastNumber
<1>2. m # 0 /\ m - 1 \in Nat /\ m - 1 \notin U
  BY <1>1
<1> QED
  BY <1>2

\* The same up to a number.
LEMMA InductionUpTo ==
    ASSUME NEW n \in Nat, NEW T, 0 \in T, \A i \in 1 .. n : i - 1 \in T => i \in T
    PROVE  \A i \in 0 .. n : i \in T
<1> DEFINE U == { i \in Nat : i <= n => i \in T }
<1>1. 0 \in U
  OBVIOUS
<1>2. ASSUME NEW i \in Nat, i \in U PROVE i + 1 \in U
  <2> SUFFICES ASSUME i + 1 <= n PROVE i + 1 \in T
    OBVIOUS
  <2>1. i + 1 \in 1 .. n /\ (i + 1) - 1 = i /\ i \in T
    BY <1>2
  <2> QED
    BY <2>1
<1>3. Nat \subseteq U
  <2> HIDE DEF U
  <2> QED
    BY <1>1, <1>2, SetInduction
<1> QED
  BY <1>3

\* The greatest of some numbers up to n.
LEMMA MaxFacts ==
    ASSUME NEW n \in Int, NEW s, s \subseteq 0 .. n, s # {}
    PROVE  Max(s) \in s /\ \A x \in s : x <= Max(s)
<1> DEFINE T == { n - x : x \in s }
<1>0. \A x \in s : x \in Int /\ n - x \in Int /\ 0 <= n - x
  <2> SUFFICES ASSUME NEW x \in s PROVE x \in Int /\ n - x \in Int /\ 0 <= n - x
    OBVIOUS
  <2>1. x \in 0 .. n
    OBVIOUS
  <2> QED
    BY <2>1
<1>1. T \subseteq Int /\ T # {} /\ 0 \in Int /\ \A x \in T : 0 <= x
  <2>1. T # {}
    <3>1. PICK x \in s : TRUE
      OBVIOUS
    <3>2. n - x \in T
      OBVIOUS
    <3> QED
      BY <3>2
  <2>2. \A t \in T : t \in Int /\ 0 <= t
    BY <1>0
  <2> QED
    BY <2>1, <2>2
<1>2. PICK m \in T : \A k \in T : m <= k
  <2> HIDE DEF T
  <2> QED
    BY <1>1, LeastNumber
<1>3. PICK y \in s : m = n - y
  BY <1>2
<1>4. \A x \in s : y >= x
  <2> SUFFICES ASSUME NEW x \in s PROVE y >= x
    OBVIOUS
  <2>1. n - x \in T /\ x \in Int /\ y \in Int
    BY <1>3
  <2> QED
    BY <1>2, <1>3, <2>1
<1> HIDE DEF T
<1>5. \E x \in s : \A z \in s : x >= z
  BY <1>3, <1>4
<1>6. /\ Max(s) \in s /\ \A x \in s : Max(s) >= x
  BY <1>5 DEF Max
<1>7. \A x \in s : x \in Int
  OBVIOUS
<1> QED
  BY <1>6, <1>7

-----------------------------------------------------------------------------
(* Lists of lists                                                          *)

\* Joining two lists joins their entries.
LEMMA ConcatFacts ==
    ASSUME NEW S, NEW s \in Seq(S), NEW t \in Seq(S)
    PROVE  /\ s \o t \in Seq(S) /\ Range(s \o t) = Range(s) \cup Range(t)
           /\ Len(s) \in Nat /\ Len(t) \in Nat /\ Len(s \o t) = Len(s) + Len(t)
           /\ \A k \in 1 .. Len(s) + Len(t) :
                 (s \o t)[k] = IF k <= Len(s) THEN s[k] ELSE t[k - Len(s)]
<1>1. /\ s \o t \in Seq(S) /\ Len(s) \in Nat /\ Len(t) \in Nat
      /\ DOMAIN s = 1 .. Len(s) /\ DOMAIN t = 1 .. Len(t)
      /\ DOMAIN (s \o t) = 1 .. Len(s) + Len(t) /\ Len(s \o t) = Len(s) + Len(t)
      /\ \A k \in 1 .. Len(s) + Len(t) :
            (s \o t)[k] = IF k <= Len(s) THEN s[k] ELSE t[k - Len(s)]
  BY ConcatProperties, LenProperties
<1>2. Range(s \o t) \subseteq Range(s) \cup Range(t)
  <2> SUFFICES ASSUME NEW k \in 1 .. Len(s) + Len(t)
               PROVE  (s \o t)[k] \in Range(s) \cup Range(t)
    BY <1>1 DEF Range
  <2>1. CASE k <= Len(s)
    BY <1>1, <2>1 DEF Range
  <2>2. CASE ~(k <= Len(s))
    <3>1. k - Len(s) \in 1 .. Len(t)
      BY <1>1, <2>2
    <3> QED
      BY <1>1, <2>2, <3>1 DEF Range
  <2> QED
    BY <2>1, <2>2
<1>3. Range(s) \subseteq Range(s \o t)
  <2> SUFFICES ASSUME NEW k \in 1 .. Len(s) PROVE s[k] \in Range(s \o t)
    BY <1>1 DEF Range
  <2>1. k \in 1 .. Len(s) + Len(t) /\ (s \o t)[k] = s[k]
    BY <1>1
  <2> QED
    BY <1>1, <2>1 DEF Range
<1>4. Range(t) \subseteq Range(s \o t)
  <2> SUFFICES ASSUME NEW k \in 1 .. Len(t) PROVE t[k] \in Range(s \o t)
    BY <1>1 DEF Range
  <2>1. k + Len(s) \in 1 .. Len(s) + Len(t) /\ ~(k + Len(s) <= Len(s))
        /\ (k + Len(s)) - Len(s) = k
    BY <1>1
  <2>2. (s \o t)[k + Len(s)] = t[k]
    BY <1>1, <2>1
  <2> QED
    BY <1>1, <2>1, <2>2 DEF Range
<1> QED
  BY <1>1, <1>2, <1>3, <1>4

\* f[i] is the first i lists, joined.
Joins(f, ss, S) ==
    /\ f[0] = <<>>
    /\ \A i \in 0 .. Len(ss) : f[i] \in Seq(S)
    /\ \A i \in 1 .. Len(ss) : f[i] = f[i - 1] \o ss[i]

\* FlattenSeq appends one list after the other.
LEMMA FlattenTrace ==
    ASSUME NEW S, NEW ss \in Seq(Seq(S))
    PROVE  \E f : Joins(f, ss, S) /\ f[Len(ss)] = FlattenSeq(ss)
<1>1. Len(ss) \in Nat /\ DOMAIN ss = 1 .. Len(ss)
      /\ \A k \in 1 .. Len(ss) : ss[k] \in Seq(S)
  OBVIOUS
<1>2. CASE Len(ss) = 0
  <2> DEFINE h == [i \in {0} |-> <<>>]
  <2>1. ss = <<>> /\ FlattenSeq(ss) = <<>>
    BY <1>2 DEF FlattenSeq
  <2>2. /\ h[0] = <<>> /\ h[Len(ss)] = FlattenSeq(ss)
        /\ \A i \in 0 .. Len(ss) : h[i] \in Seq(S)
        /\ \A i \in 1 .. Len(ss) : h[i] = h[i - 1] \o ss[i]
    BY <1>2, <2>1
  <2> HIDE DEF h
  <2>3. Joins(h, ss, S)
    BY <2>2 DEF Joins
  <2> QED
    BY <2>2, <2>3
<1>3. CASE Len(ss) # 0
  <2> DEFINE Step(g, m) == [i \in 1 .. m |-> IF i = 1 THEN ss[i] ELSE g[i - 1] \o ss[i]]
             f == CHOOSE g : g = Step(g, Len(ss))
  <2>1. FlattenSeq(ss) = f[Len(ss)]
    BY <1>3 DEF FlattenSeq
  <2>2. \E g : g = Step(g, Len(ss))
    <3> DEFINE T == { m \in Nat : \E g : g = Step(g, m) }
    <3>1. 0 \in T
      <4> DEFINE e == [i \in 1 .. 0 |-> 0]
      <4>1. e = Step(e, 0)
        OBVIOUS
      <4> QED
        BY <4>1
    <3>2. ASSUME NEW m \in Nat, m \in T
          PROVE  m + 1 \in T
      <4>1. PICK g : g = Step(g, m)
        BY <3>2
      <4> DEFINE h == [i \in 1 .. m + 1 |->
                          IF i = m + 1 THEN (IF i = 1 THEN ss[i] ELSE g[i - 1] \o ss[i])
                          ELSE g[i]]
      <4>2. ASSUME NEW i \in 1 .. m + 1
            PROVE  h[i] = IF i = 1 THEN ss[i] ELSE h[i - 1] \o ss[i]
        <5>1. CASE i = m + 1
          BY <3>2, <5>1
        <5>2. CASE i # m + 1
          <6>1. i \in 1 .. m /\ h[i] = g[i]
            BY <3>2, <5>2
          <6>2. g[i] = IF i = 1 THEN ss[i] ELSE g[i - 1] \o ss[i]
            BY <4>1, <6>1
          <6>3. i # 1 => h[i - 1] = g[i - 1]
            BY <3>2, <6>1
          <6> QED
            BY <6>1, <6>2, <6>3
        <5> QED
          BY <5>1, <5>2
      <4>3. h = Step(h, m + 1)
        BY <4>2
      <4> HIDE DEF h, Step
      <4>4. \E w : w = Step(w, m + 1)
        BY <4>3
      <4> QED
        BY <3>2, <4>4
    <3>3. Nat \subseteq T
      <4> HIDE DEF T
      <4> QED
        BY <3>1, <3>2, SetInduction
    <3> QED
      BY <1>1, <3>3
  <2>3. f = Step(f, Len(ss))
    BY <2>2
  <2> HIDE DEF f
  <2>4. \A i \in 1 .. Len(ss) : f[i] = IF i = 1 THEN ss[i] ELSE f[i - 1] \o ss[i]
    BY <2>3
  <2> DEFINE h == [i \in 0 .. Len(ss) |-> IF i = 0 THEN <<>> ELSE f[i]]
  <2>5. h[0] = <<>> /\ h[Len(ss)] = FlattenSeq(ss)
    BY <1>1, <1>3, <2>1
  <2>6. ASSUME NEW i \in 1 .. Len(ss)
        PROVE  h[i] = h[i - 1] \o ss[i]
    <3>1. CASE i = 1
      <4>1. h[i] = ss[i] /\ h[i - 1] = <<>>
        BY <1>1, <1>3, <2>4, <3>1
      <4>2. <<>> \o ss[i] = ss[i]
        BY <1>1
      <4> QED
        BY <4>1, <4>2
    <3>2. CASE i # 1
      <4>1. h[i] = f[i] /\ h[i - 1] = f[i - 1]
        BY <1>1, <3>2
      <4> QED
        BY <2>4, <3>2, <4>1
    <3> QED
      BY <3>1, <3>2
  <2> DEFINE T == { i \in 0 .. Len(ss) : h[i] \in Seq(S) }
  <2>7. 0 \in T
    BY <1>1, <2>5
  <2>8. ASSUME NEW i \in 1 .. Len(ss), i - 1 \in T
        PROVE  i \in T
    <3> HIDE DEF h
    <3>1. h[i - 1] \in Seq(S) /\ ss[i] \in Seq(S) /\ i \in 0 .. Len(ss)
      BY <1>1, <2>8
    <3>2. h[i - 1] \o ss[i] \in Seq(S)
      BY <3>1
    <3> QED
      BY <2>6, <3>1, <3>2
  <2> HIDE DEF h
  <2>9. \A i \in 0 .. Len(ss) : i \in T
    <3> HIDE DEF T
    <3> QED
      BY <1>1, <2>7, <2>8, InductionUpTo
  <2>10. Joins(h, ss, S)
    BY <2>5, <2>6, <2>9 DEF Joins
  <2> QED
    BY <2>5, <2>10
<1> QED
  BY <1>2, <1>3

\* FlattenSeq joins the entries of all lists.
LEMMA FlattenFacts ==
    ASSUME NEW S, NEW ss \in Seq(Seq(S))
    PROVE  /\ FlattenSeq(ss) \in Seq(S)
           /\ Range(FlattenSeq(ss)) = UNION { Range(ss[k]) : k \in 1 .. Len(ss) }
<1>1. Len(ss) \in Nat /\ \A k \in 1 .. Len(ss) : ss[k] \in Seq(S)
  OBVIOUS
<1>2. PICK f : /\ f[0] = <<>> /\ f[Len(ss)] = FlattenSeq(ss)
               /\ \A i \in 0 .. Len(ss) : f[i] \in Seq(S)
               /\ \A i \in 1 .. Len(ss) : f[i] = f[i - 1] \o ss[i]
  <2>1. PICK f : Joins(f, ss, S) /\ f[Len(ss)] = FlattenSeq(ss)
    BY FlattenTrace
  <2> QED
    BY <2>1 DEF Joins
<1> DEFINE T == { i \in 0 .. Len(ss) :
                    Range(f[i]) = UNION { Range(ss[k]) : k \in 1 .. i } }
<1>3. 0 \in T
  <2>1. Range(<<>>) = {}
    BY DEF Range
  <2>2. 1 .. 0 = {}
    OBVIOUS
  <2>3. UNION { Range(ss[k]) : k \in 1 .. 0 } = {}
    BY <2>2, Zenon
  <2>4. 0 \in 0 .. Len(ss)
    BY <1>1
  <2> QED
    BY <1>2, <2>1, <2>3, <2>4
<1>4. ASSUME NEW i \in 1 .. Len(ss), i - 1 \in T
      PROVE  i \in T
  <2>1. /\ i - 1 \in 0 .. Len(ss) /\ i \in 0 .. Len(ss)
        /\ 1 .. i = (1 .. (i - 1)) \cup {i}
    BY <1>1
  <2>2. Range(f[i - 1]) = UNION { Range(ss[k]) : k \in 1 .. (i - 1) }
    BY <1>4
  <2>3. f[i - 1] \in Seq(S) /\ ss[i] \in Seq(S) /\ f[i] = f[i - 1] \o ss[i]
    BY <1>1, <1>2, <2>1
  <2>4. Range(f[i]) = Range(f[i - 1]) \cup Range(ss[i])
    BY <2>3, ConcatFacts
  <2>5. UNION { Range(ss[k]) : k \in (1 .. (i - 1)) \cup {i} }
            = (UNION { Range(ss[k]) : k \in 1 .. (i - 1) }) \cup Range(ss[i])
    OBVIOUS
  <2> QED
    BY <2>1, <2>2, <2>4, <2>5
<1>5. \A i \in 0 .. Len(ss) : i \in T
  <2> HIDE DEF T
  <2> QED
    BY <1>1, <1>3, <1>4, InductionUpTo
<1>6. Len(ss) \in 0 .. Len(ss)
  BY <1>1
<1> QED
  BY <1>2, <1>5, <1>6

\* What has been joined stays at the front.
LEMMA FlattenPrefix ==
    ASSUME NEW S, NEW ss \in Seq(Seq(S)), NEW f, Joins(f, ss, S),
           NEW i \in 0 .. Len(ss)
    PROVE  /\ Len(f[i]) \in Nat /\ Len(f[i]) <= Len(f[Len(ss)])
           /\ \A k \in 1 .. Len(f[i]) : f[Len(ss)][k] = f[i][k]
<1>1. Len(ss) \in Nat /\ \A k \in 1 .. Len(ss) : ss[k] \in Seq(S)
  OBVIOUS
<1> DEFINE P(j) == /\ Len(f[i]) <= Len(f[j])
                   /\ \A k \in 1 .. Len(f[i]) : f[j][k] = f[i][k]
           T == { j \in 0 .. Len(ss) : i <= j => P(j) }
<1>0. /\ \A k \in 0 .. Len(ss) : f[k] \in Seq(S)
      /\ \A k \in 1 .. Len(ss) : f[k] = f[k - 1] \o ss[k]
  BY DEF Joins
<1>2. f[i] \in Seq(S) /\ Len(f[i]) \in Nat
  BY <1>0
<1>3. 0 \in T
  <2>1. ASSUME i <= 0 PROVE P(0)
    <3>1. i = 0
      BY <2>1
    <3> QED
      BY <1>2, <3>1
  <2> HIDE DEF P
  <2> QED
    BY <1>1, <2>1
<1>4. ASSUME NEW j \in 1 .. Len(ss), j - 1 \in T PROVE j \in T
  <2>1. ASSUME i <= j, i = j PROVE P(j)
    BY <1>2, <2>1
  <2>2. ASSUME i <= j, i # j PROVE P(j)
    <3>1. j - 1 \in 0 .. Len(ss) /\ i <= j - 1
      BY <1>1, <2>2
    <3>2. P(j - 1)
      <4> HIDE DEF P
      <4> QED
        BY <1>4, <3>1
    <3>3. f[j - 1] \in Seq(S) /\ ss[j] \in Seq(S) /\ f[j] = f[j - 1] \o ss[j]
      BY <1>0, <1>1, <3>1
    <3>4. /\ Len(f[j - 1]) \in Nat /\ Len(f[j]) \in Nat /\ Len(f[j - 1]) <= Len(f[j])
          /\ \A k \in 1 .. Len(f[j - 1]) : f[j][k] = f[j - 1][k]
      <4> DEFINE u == f[j - 1]
                 v == ss[j]
      <4>1. u \in Seq(S) /\ v \in Seq(S) /\ f[j] = u \o v
        BY <3>3
      <4> HIDE DEF u, v, P
      <4>2. /\ Len(u) \in Nat /\ Len(v) \in Nat
            /\ Len(f[j]) = Len(u) + Len(v)
            /\ \A k \in 1 .. Len(u) : f[j][k] = u[k]
        BY <4>1, ConcatFacts
      <4> QED
        BY <4>2 DEF u
    <3>5. Len(f[i]) <= Len(f[j - 1]) /\ \A k \in 1 .. Len(f[i]) : f[j - 1][k] = f[i][k]
      BY <3>2
    <3> QED
      BY <1>2, <3>4, <3>5
  <2> HIDE DEF P
  <2> QED
    BY <1>1, <2>1, <2>2
<1>5. \A j \in 0 .. Len(ss) : j \in T
  <2> HIDE DEF T
  <2> QED
    BY <1>1, <1>3, <1>4, InductionUpTo
<1>6. P(Len(ss))
  <2>1. Len(ss) \in 0 .. Len(ss) /\ i <= Len(ss)
    BY <1>1
  <2> HIDE DEF P
  <2> QED
    BY <1>5, <2>1
<1> QED
  BY <1>2, <1>6

\* It does not matter which of three lists are joined first.
LEMMA ConcatThree ==
    ASSUME NEW S, NEW x \in Seq(S), NEW y \in Seq(S), NEW z \in Seq(S),
           NEW xy, xy = x \o y, NEW yz, yz = y \o z
    PROVE  xy \o z = x \o yz
<1> DEFINE l == xy \o z
           r == x \o yz
<1>1. /\ xy \in Seq(S) /\ Len(x) \in Nat /\ Len(y) \in Nat /\ Len(z) \in Nat
      /\ Len(xy) = Len(x) + Len(y)
      /\ \A k \in 1 .. Len(x) + Len(y) :
            xy[k] = IF k <= Len(x) THEN x[k] ELSE y[k - Len(x)]
  BY ConcatFacts
<1>2. /\ yz \in Seq(S) /\ Len(yz) = Len(y) + Len(z)
      /\ \A k \in 1 .. Len(y) + Len(z) :
            yz[k] = IF k <= Len(y) THEN y[k] ELSE z[k - Len(y)]
  BY ConcatFacts
<1>3. /\ l \in Seq(S) /\ Len(l) = Len(xy) + Len(z)
      /\ \A k \in 1 .. Len(xy) + Len(z) :
            l[k] = IF k <= Len(xy) THEN xy[k] ELSE z[k - Len(xy)]
  BY <1>1, ConcatFacts
<1>4. /\ r \in Seq(S) /\ Len(r) = Len(x) + Len(yz)
      /\ \A k \in 1 .. Len(x) + Len(yz) :
            r[k] = IF k <= Len(x) THEN x[k] ELSE yz[k - Len(x)]
  BY <1>2, ConcatFacts
<1>5. /\ Len(xy) = Len(x) + Len(y) /\ Len(yz) = Len(y) + Len(z)
      /\ \A k \in 1 .. Len(x) + Len(y) :
            xy[k] = IF k <= Len(x) THEN x[k] ELSE y[k - Len(x)]
      /\ \A k \in 1 .. Len(y) + Len(z) :
            yz[k] = IF k <= Len(y) THEN y[k] ELSE z[k - Len(y)]
  BY <1>1, <1>2
<1> HIDE DEF l, r
<1>6. ASSUME NEW k \in 1 .. Len(l) PROVE l[k] = r[k]
  <2>1. k \in Nat /\ k >= 1 /\ k <= Len(x) + Len(y) + Len(z)
    BY <1>1, <1>3, <1>5
  <2>2. CASE k <= Len(x)
    <3>1. l[k] = xy[k] /\ k \in 1 .. Len(x) + Len(y)
      BY <1>1, <1>3, <1>5, <2>1, <2>2
    <3>2. r[k] = x[k]
      BY <1>1, <1>4, <1>5, <2>1, <2>2
    <3> QED
      BY <1>5, <2>2, <3>1, <3>2
  <2>3. CASE k > Len(x) /\ k <= Len(x) + Len(y)
    <3>1. l[k] = y[k - Len(x)]
      BY <1>1, <1>3, <1>5, <2>1, <2>3
    <3>2. k - Len(x) \in 1 .. Len(y) + Len(z) /\ k - Len(x) <= Len(y)
      BY <1>1, <2>1, <2>3
    <3>3. r[k] = yz[k - Len(x)]
      BY <1>1, <1>4, <1>5, <2>1, <2>3
    <3> QED
      BY <1>5, <3>1, <3>2, <3>3
  <2>4. CASE k > Len(x) + Len(y)
    <3>1. l[k] = z[k - (Len(x) + Len(y))]
      BY <1>1, <1>3, <1>5, <2>1, <2>4
    <3>2. k - Len(x) \in 1 .. Len(y) + Len(z) /\ ~(k - Len(x) <= Len(y))
          /\ (k - Len(x)) - Len(y) = k - (Len(x) + Len(y))
      BY <1>1, <2>1, <2>4
    <3>3. r[k] = yz[k - Len(x)]
      BY <1>1, <1>4, <1>5, <2>1, <2>4
    <3> QED
      BY <1>5, <3>1, <3>2, <3>3
  <2> QED
    BY <1>1, <2>1, <2>2, <2>3, <2>4
<1>7. Len(l) = Len(r)
  BY <1>1, <1>3, <1>4, <1>5
<1>8. l = r
  BY <1>3, <1>4, <1>6, <1>7, SeqEqual
<1> QED
  BY <1>8 DEF l, r

\* Joining the lists of two lists is joining what each gives.
LEMMA FlattenConcat ==
    ASSUME NEW S, NEW a \in Seq(Seq(S)), NEW b \in Seq(Seq(S))
    PROVE  FlattenSeq(a \o b) = FlattenSeq(a) \o FlattenSeq(b)
<1> DEFINE m == Len(a)
           n == Len(b)
           ab == a \o b
<1>1. /\ m \in Nat /\ n \in Nat /\ ab \in Seq(Seq(S)) /\ Len(ab) = m + n
      /\ \A i \in 1 .. m : ab[i] = a[i]
      /\ \A i \in 1 .. n : ab[m + i] = b[i] /\ b[i] \in Seq(S)
  BY ConcatProperties
<1> HIDE DEF m, n, ab
<1>2. PICK f : Joins(f, ab, S) /\ f[Len(ab)] = FlattenSeq(ab)
  BY <1>1, FlattenTrace
<1>3. PICK g : Joins(g, a, S) /\ g[m] = FlattenSeq(a)
  BY FlattenTrace DEF m
<1>4. PICK h : Joins(h, b, S) /\ h[n] = FlattenSeq(b)
  BY FlattenTrace DEF n
<1>5. /\ f[0] = <<>> /\ \A i \in 1 .. m + n : f[i] = f[i - 1] \o ab[i]
      /\ g[0] = <<>> /\ \A i \in 1 .. m : g[i] = g[i - 1] \o a[i]
      /\ h[0] = <<>> /\ \A i \in 1 .. n : h[i] = h[i - 1] \o b[i]
      /\ \A i \in 0 .. m : g[i] \in Seq(S)
      /\ \A i \in 0 .. n : h[i] \in Seq(S)
  BY <1>1, <1>2, <1>3, <1>4 DEF Joins, m, n
<1> DEFINE T == { i \in 0 .. m : f[i] = g[i] }
           U == { i \in 0 .. n : f[m + i] = g[m] \o h[i] }
<1>6. \A i \in 0 .. m : i \in T
  <2>1. 0 \in T
    BY <1>1, <1>5
  <2>2. ASSUME NEW i \in 1 .. m, i - 1 \in T PROVE i \in T
    <3>1. i \in 1 .. m + n /\ i \in 0 .. m
      BY <1>1
    <3> QED
      BY <1>1, <1>5, <2>2, <3>1
  <2> HIDE DEF T
  <2> QED
    BY <1>1, <2>1, <2>2, InductionUpTo
<1>7. f[m] = g[m] /\ g[m] \in Seq(S)
  BY <1>1, <1>5, <1>6
<1>8. \A i \in 0 .. n : i \in U
  <2>1. 0 \in U
    <3>1. m + 0 = m /\ 0 \in 0 .. n
      BY <1>1
    <3>2. g[m] \o <<>> = g[m]
      BY <1>7, ConcatEmptySeq
    <3> QED
      BY <1>5, <1>7, <3>1, <3>2
  <2>2. ASSUME NEW i \in 1 .. n, i - 1 \in U PROVE i \in U
    <3>1. m + i \in 1 .. m + n /\ i \in 0 .. n /\ i - 1 \in 0 .. n
          /\ (m + i) - 1 = m + (i - 1)
      BY <1>1
    <3>2. f[m + i] = f[m + (i - 1)] \o b[i]
      BY <1>1, <1>5, <3>1
    <3>3. /\ h[i - 1] \in Seq(S) /\ b[i] \in Seq(S) /\ h[i] = h[i - 1] \o b[i]
          /\ f[m + (i - 1)] = g[m] \o h[i - 1]
      BY <1>1, <1>5, <2>2, <3>1
    <3>4. f[m + (i - 1)] \o b[i] = g[m] \o h[i]
      <4> DEFINE x == g[m]
                 y == h[i - 1]
                 z == b[i]
                 xy == f[m + (i - 1)]
                 yz == h[i]
      <4>1. x \in Seq(S)
        BY <1>7
      <4>2. y \in Seq(S)
        BY <3>3
      <4>3. z \in Seq(S)
        BY <3>3
      <4>4. xy = x \o y
        BY <3>3
      <4>5. yz = y \o z
        BY <3>3
      <4> HIDE DEF T, U, x, y, z, xy, yz
      <4>6. xy \o z = x \o yz
        BY <4>1, <4>2, <4>3, <4>4, <4>5, ConcatThree
      <4> QED
        BY <4>6 DEF x, y, z, xy, yz
    <3> QED
      BY <3>1, <3>2, <3>4
  <2> HIDE DEF U
  <2> QED
    BY <1>1, <2>1, <2>2, InductionUpTo
<1>9. f[m + n] = g[m] \o h[n]
  <2>1. n \in 0 .. n
    BY <1>1
  <2>2. n \in U
    BY <1>8, <2>1
  <2> QED
    BY <2>2
<1> QED
  BY <1>1, <1>2, <1>3, <1>4, <1>9 DEF ab
=============================================================================
