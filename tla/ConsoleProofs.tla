--------------------------- MODULE ConsoleProofs ---------------------------
(***************************************************************************)
(* Console for every machine: what is set in the interface, or sent by     *)
(* another client, is what the daemon does; and when the editor of the     *)
(* banned cpus is safe.                                                    *)
(***************************************************************************)
EXTENDS Console, SequenceFacts

-----------------------------------------------------------------------------
(* Digits                                                                  *)

\* The sixteen digits, by number.
LEMMA DigitTable ==
    /\ Digits[1] = "0" /\ Digits[2] = "1" /\ Digits[3] = "2" /\ Digits[4] = "3"
    /\ Digits[5] = "4" /\ Digits[6] = "5" /\ Digits[7] = "6" /\ Digits[8] = "7"
    /\ Digits[9] = "8" /\ Digits[10] = "9" /\ Digits[11] = "a" /\ Digits[12] = "b"
    /\ Digits[13] = "c" /\ Digits[14] = "d" /\ Digits[15] = "e" /\ Digits[16] = "f"
    /\ Len(Digits) = 16 /\ DOMAIN Digits = 1 .. 16
  BY DEF Digits

\* Blank and comma are characters of their own.
LEMMA Separators ==
    /\ Blank \notin {"0", "1", "2", "3", "4", "5", "6", "7", "8", "9", "a", "b", "c",
                      "d", "e", "f", "-", "NULL", "NUL"}
    /\ Comma \notin {"0", "1", "2", "3", "4", "5", "6", "7", "8", "9", "a", "b", "c",
                      "d", "e", "f", "-", "NULL", "NUL"}
    /\ Blank # Comma
  BY Zenon DEF Blank, Comma

\* No digit stands for two numbers, and none is a comma, a blank or a dash.
LEMMA DigitsDiffer ==
    ASSUME NEW d \in 0 .. 15
    PROVE  /\ Digits[d + 1] \notin {Comma, Blank, "-", "NULL"}
           /\ \A e \in 0 .. 15 : Digits[e + 1] = Digits[d + 1] => e = d
<1> DEFINE N == {0, 1, 2, 3, 4, 5, 6, 7, 8, 9, 10, 11, 12, 13, 14, 15}
<1>1. 0 .. 15 = N
  OBVIOUS
<1>2. /\ Digits[0 + 1] = "0" /\ Digits[1 + 1] = "1" /\ Digits[2 + 1] = "2"
      /\ Digits[3 + 1] = "3" /\ Digits[4 + 1] = "4" /\ Digits[5 + 1] = "5"
      /\ Digits[6 + 1] = "6" /\ Digits[7 + 1] = "7" /\ Digits[8 + 1] = "8"
      /\ Digits[9 + 1] = "9" /\ Digits[10 + 1] = "a" /\ Digits[11 + 1] = "b"
      /\ Digits[12 + 1] = "c" /\ Digits[13 + 1] = "d" /\ Digits[14 + 1] = "e"
      /\ Digits[15 + 1] = "f"
  BY DigitTable
<1>3. ASSUME NEW a \in N PROVE Digits[a + 1] \notin {Comma, Blank, "-", "NULL"}
  BY <1>2, Separators
<1>4. ASSUME NEW e \in N, NEW a \in N, Digits[e + 1] = Digits[a + 1] PROVE e = a
  <2> DEFINE inv == [c \in {"0", "1", "2", "3", "4", "5", "6", "7", "8", "9",
                            "a", "b", "c", "d", "e", "f"} |->
                       IF c = "0" THEN 0 ELSE IF c = "1" THEN 1 ELSE IF c = "2" THEN 2
                       ELSE IF c = "3" THEN 3 ELSE IF c = "4" THEN 4 ELSE IF c = "5" THEN 5
                       ELSE IF c = "6" THEN 6 ELSE IF c = "7" THEN 7 ELSE IF c = "8" THEN 8
                       ELSE IF c = "9" THEN 9 ELSE IF c = "a" THEN 10 ELSE IF c = "b" THEN 11
                       ELSE IF c = "c" THEN 12 ELSE IF c = "d" THEN 13
                       ELSE IF c = "e" THEN 14 ELSE 15]
  <2>1. \A k \in N : inv[Digits[k + 1]] = k
    BY <1>2
  <2> HIDE DEF inv, N
  <2> QED
    BY <1>4, <2>1
<1> HIDE DEF N
<1> QED
  BY <1>1, <1>3, <1>4

\* unhex reads a digit.
LEMMA DigitFacts ==
    ASSUME NEW d \in 0 .. 15
    PROVE  /\ Digits[d + 1] \in Range(Digits) /\ isxdigit(Digits[d + 1])
           /\ unhex[Digits[d + 1]] = d
           /\ d < 10 => isdigit(Digits[d + 1])
<1>1. Digits[d + 1] \in Range(Digits) /\ isxdigit(Digits[d + 1])
  <2>1. d + 1 \in DOMAIN Digits
    BY DigitTable
  <2> QED
    BY <2>1 DEF Range, isxdigit
<1>2. unhex[Digits[d + 1]] = CHOOSE v \in 0 .. 15 : Digits[v + 1] = Digits[d + 1]
  BY <1>1 DEF unhex
<1>3. (CHOOSE v \in 0 .. 15 : Digits[v + 1] = Digits[d + 1]) = d
  BY DigitsDiffer
<1>4. ASSUME d < 10 PROVE isdigit(Digits[d + 1])
  <2> DEFINE ten == SubSeq(Digits, 1, 10)
  <2>1. Len(ten) = 10 /\ DOMAIN ten = 1 .. 10 /\ \A k \in 1 .. 10 : ten[k] = Digits[k]
    BY DEF Digits
  <2>2. d + 1 \in DOMAIN ten /\ ten[d + 1] = Digits[d + 1]
    BY <1>4, <2>1
  <2> HIDE DEF ten
  <2>3. Digits[d + 1] \in Range(ten)
    BY <2>2 DEF Range
  <2> QED
    BY <2>3 DEF isdigit, ten
<1> QED
  BY <1>1, <1>2, <1>3, <1>4

\* What isdigit and isxdigit accept are digits.
LEMMA DigitOf ==
    ASSUME NEW c
    PROVE  /\ isxdigit(c) => \E d \in 0 .. 15 : c = Digits[d + 1]
           /\ isdigit(c) => \E d \in 0 .. 9 : c = Digits[d + 1]
<1>1. ASSUME isxdigit(c) PROVE \E d \in 0 .. 15 : c = Digits[d + 1]
  <2>1. PICK k \in 1 .. 16 : c = Digits[k]
    BY <1>1, DigitTable DEF isxdigit, Range
  <2>2. k - 1 \in 0 .. 15 /\ c = Digits[(k - 1) + 1]
    BY <2>1
  <2> QED
    BY <2>2
<1>2. ASSUME isdigit(c) PROVE \E d \in 0 .. 9 : c = Digits[d + 1]
  <2> DEFINE ten == SubSeq(Digits, 1, 10)
  <2>1. Len(ten) = 10 /\ DOMAIN ten = 1 .. 10 /\ \A k \in 1 .. 10 : ten[k] = Digits[k]
    BY DEF Digits
  <2> HIDE DEF ten
  <2>2. c \in Range(ten)
    BY <1>2 DEF isdigit, ten
  <2>3. PICK k \in 1 .. 10 : c = Digits[k]
    BY <2>1, <2>2 DEF Range
  <2>4. k - 1 \in 0 .. 9 /\ c = Digits[(k - 1) + 1]
    BY <2>3
  <2> QED
    BY <2>4
<1> QED
  BY <1>1, <1>2

-----------------------------------------------------------------------------
(* Lists of cpus                                                           *)

\* __bitmap_parselist takes the text a character at a time.
LEMMA ListTrace ==
    ASSUME NEW C, NEW text \in Seq(C)
    PROVE  \E g : /\ g[0] = ListStart
                  /\ \A i \in 1 .. Len(text) : g[i] = ListChar(g[i - 1], text[i])
                  /\ cpulist_parse(text) = ListEnd(g[Len(text)]).mask
<1>1. Len(text) \in Nat /\ DOMAIN text = 1 .. Len(text)
  OBVIOUS
<1> DEFINE Step(h, n) == [s \in SUBSET (1 .. n) |->
                             IF s = {} THEN ListStart
                             ELSE ListChar(h[s \ {Max(s)}], text[Max(s)])]
           f == CHOOSE h : h = Step(h, Len(text))
<1>2. FoldLeft(ListChar, ListStart, text) = f[1 .. Len(text)]
  BY <1>1 DEF FoldLeft, MapThenFoldSet
<1>3. \E h : h = Step(h, Len(text))
  <2> DEFINE T == { n \in Nat : \E h : h = Step(h, n) }
  <2>1. 0 \in T
    <3> DEFINE e == [s \in SUBSET (1 .. 0) |-> ListStart]
    <3>1. SUBSET (1 .. 0) = {{}}
      OBVIOUS
    <3>2. e = Step(e, 0)
      BY <3>1
    <3> HIDE DEF e, Step
    <3> QED
      BY <3>2
  <2>2. ASSUME NEW n \in Nat, n \in T PROVE n + 1 \in T
    <3>1. PICK h : h = Step(h, n)
      BY <2>2
    <3> DEFINE k == [s \in SUBSET (1 .. n + 1) |->
                       IF n + 1 \in s THEN ListChar(h[s \ {n + 1}], text[n + 1]) ELSE h[s]]
    <3>2. ASSUME NEW s \in SUBSET (1 .. n + 1)
          PROVE  k[s] = IF s = {} THEN ListStart
                        ELSE ListChar(k[s \ {Max(s)}], text[Max(s)])
      <4>1. CASE n + 1 \in s
        <5>1. Max(s) \in s /\ \A x \in s : x <= Max(s)
          <6>1. s \subseteq 0 .. n + 1 /\ s # {} /\ n + 1 \in Int
            BY <4>1
          <6> QED
            BY <6>1, MaxFacts
        <5>2. Max(s) = n + 1
          <6>1. Max(s) \in 1 .. n + 1 /\ n + 1 <= Max(s)
            BY <4>1, <5>1
          <6> QED
            BY <6>1
        <5>3. s \ {n + 1} \in SUBSET (1 .. n + 1) /\ n + 1 \notin s \ {n + 1}
          OBVIOUS
        <5>4. k[s \ {n + 1}] = h[s \ {n + 1}] /\ k[s] = ListChar(h[s \ {n + 1}], text[n + 1])
          BY <4>1, <5>3
        <5> HIDE DEF k
        <5> QED
          BY <4>1, <5>2, <5>4
      <4>2. CASE n + 1 \notin s
        <5>1. s \in SUBSET (1 .. n) /\ s \ {Max(s)} \in SUBSET (1 .. n)
          <6>1. ASSUME NEW x \in s PROVE x \in 1 .. n
            <7>1. x \in 1 .. n + 1 /\ x # n + 1
              BY <4>2
            <7> QED
              BY <7>1
          <6> QED
            BY <6>1
        <5>2. n + 1 \notin s \ {Max(s)} /\ s \ {Max(s)} \in SUBSET (1 .. n + 1)
          BY <4>2
        <5>3. k[s] = h[s] /\ k[s \ {Max(s)}] = h[s \ {Max(s)}]
          BY <4>2, <5>2
        <5>4. h[s] = IF s = {} THEN ListStart
                     ELSE ListChar(h[s \ {Max(s)}], text[Max(s)])
          BY <3>1, <5>1
        <5> HIDE DEF k
        <5> QED
          BY <5>3, <5>4
      <4> QED
        BY <4>1, <4>2
    <3>3. k = Step(k, n + 1)
      <4> SUFFICES \A s \in SUBSET (1 .. n + 1) :
                      k[s] = IF s = {} THEN ListStart
                             ELSE ListChar(k[s \ {Max(s)}], text[Max(s)])
        BY Zenon
      <4> HIDE DEF k
      <4> QED
        BY <3>2
    <3> HIDE DEF k, Step
    <3> QED
      BY <3>3
  <2>3. Nat \subseteq T
    <3> HIDE DEF T
    <3> QED
      BY <2>1, <2>2, SetInduction
  <2> QED
    BY <1>1, <2>3
<1>4. f = Step(f, Len(text))
  <2> HIDE DEF Step
  <2> QED
    BY <1>3
<1> HIDE DEF f
<1>5. \A s \in SUBSET (1 .. Len(text)) :
         f[s] = IF s = {} THEN ListStart ELSE ListChar(f[s \ {Max(s)}], text[Max(s)])
  BY <1>4
<1> DEFINE g == [i \in 0 .. Len(text) |-> f[1 .. i]]
<1>6. g[0] = ListStart
  <2>1. 1 .. 0 = {} /\ {} \in SUBSET (1 .. Len(text)) /\ g[0] = f[1 .. 0]
    BY <1>1
  <2> QED
    BY <1>5, <2>1
<1>7. ASSUME NEW i \in 1 .. Len(text)
      PROVE  g[i] = ListChar(g[i - 1], text[i])
  <2>0. 1 \in 1 .. i /\ \A x \in 1 .. i : x \in 1 .. Len(text) /\ x \in 0 .. i
    BY <1>1
  <2>1. /\ 1 .. i \in SUBSET (1 .. Len(text)) /\ 1 .. i # {} /\ 1 .. i \subseteq 0 .. i
        /\ i \in Int
    <3>1. i \in Int
      OBVIOUS
    <3> QED
      BY <2>0, <3>1, Zenon
  <2>2. Max(1 .. i) \in 1 .. i /\ \A x \in 1 .. i : x <= Max(1 .. i)
    BY <2>1, MaxFacts
  <2>3. Max(1 .. i) = i
    <3>1. i \in 1 .. i
      OBVIOUS
    <3> QED
      BY <2>2, <3>1
  <2>4. (1 .. i) \ {i} = 1 .. (i - 1)
    OBVIOUS
  <2>5. g[i] = f[1 .. i] /\ g[i - 1] = f[1 .. (i - 1)]
    BY <1>1
  <2> HIDE DEF g
  <2> QED
    BY <1>5, <2>1, <2>3, <2>4, <2>5
<1>8. cpulist_parse(text) = ListEnd(g[Len(text)]).mask
  <2>1. g[Len(text)] = f[1 .. Len(text)]
    BY <1>1
  <2> HIDE DEF g
  <2> QED
    BY <1>2, <2>1 DEF cpulist_parse
<1> HIDE DEF g
<1> QED
  BY <1>6, <1>7, <1>8

\* The states of __bitmap_parselist, for texts over C.
ListItems == [a : Nat, b : Nat, exp_digit : BOOLEAN, in_range : BOOLEAN]
ListStates(C) == [item : ListItems, c : C \cup {"NUL"}, totaldigits : Nat,
                  mask : SUBSET (0 .. nmaskbits - 1),
                  ret : {"go", "ok", "EINVAL", "ERANGE"}]

\* The end of an item adds bits of the mask only.
LEMMA EndItemState ==
    ASSUME NEW C, NEW s \in ListStates(C)
    PROVE  EndItem(s) \in ListStates(C)
<1>1. s.item.a \in Nat /\ s.item.b \in Nat
  BY DEF ListStates, ListItems
<1>2. CASE ~(s.item.a <= s.item.b)
  BY <1>2 DEF EndItem, ListStates
<1>3. CASE s.item.a <= s.item.b /\ s.item.b >= nmaskbits
  BY <1>3 DEF EndItem, ListStates
<1>4. CASE s.item.a <= s.item.b /\ ~(s.item.b >= nmaskbits)
  <2>1. s.item.a .. s.item.b \subseteq 0 .. nmaskbits - 1
    BY <1>1, <1>4, WidthAssumption
  <2>2. s.mask \cup (s.item.a .. s.item.b) \in SUBSET (0 .. nmaskbits - 1)
    BY <2>1 DEF ListStates
  <2>3. NewItem \in ListItems
    BY DEF NewItem, ListItems
  <2>4. EndItem(s) = [s EXCEPT !.item = NewItem, !.mask = s.mask \cup (s.item.a .. s.item.b)]
    BY <1>4 DEF EndItem
  <2> QED
    BY <2>2, <2>3, <2>4 DEF ListStates
<1> QED
  BY <1>2, <1>3, <1>4

\* A character keeps the state well formed.
LEMMA ListCharState ==
    ASSUME NEW C, NEW s \in ListStates(C), NEW c \in C
    PROVE  ListChar(s, c) \in ListStates(C)
<1> DEFINE t == [s EXCEPT !.c = c]
<1>1. t \in ListStates(C)
  BY DEF ListStates
<1> HIDE DEF t
<1>2. /\ t.item \in ListItems /\ t.item.a \in Nat /\ t.item.b \in Nat
      /\ t.totaldigits \in Nat
  BY <1>1 DEF ListStates, ListItems
<1>3. [t EXCEPT !.ret = "EINVAL"] \in ListStates(C)
  BY <1>1 DEF ListStates
<1>4. EndItem(t) \in ListStates(C)
  BY <1>1, EndItemState
<1>5. StartRange(t) \in ListStates(C)
  <2> DEFINE i == [t.item EXCEPT !.b = 0, !.in_range = TRUE, !.exp_digit = TRUE]
             u == [t EXCEPT !.item.b = 0, !.item.in_range = TRUE, !.item.exp_digit = TRUE]
  <2>1. i \in ListItems
    BY <1>2 DEF ListItems
  <2>2. u = [t EXCEPT !.item = i]
    BY <1>1 DEF ListStates, ListItems
  <2> HIDE DEF i
  <2>3. u \in ListStates(C)
    BY <1>1, <2>1, <2>2 DEF ListStates
  <2>4. StartRange(t) = [t EXCEPT !.ret = "EINVAL"] \/ StartRange(t) = u
    BY DEF StartRange
  <2> HIDE DEF u
  <2> QED
    BY <1>3, <2>3, <2>4
<1>6. ASSUME NEW d \in Nat PROVE AddDigit(t, d) \in ListStates(C)
  <2> DEFINE b == t.item.b * 10 + d
             i == [t.item EXCEPT !.b = b, !.a = IF t.item.in_range THEN t.item.a ELSE b,
                                 !.exp_digit = FALSE]
  <2>1. b \in Nat /\ t.totaldigits + 1 \in Nat
    BY <1>2
  <2>2. AddDigit(t, d) = [t EXCEPT !.item = i, !.totaldigits = t.totaldigits + 1]
    BY <1>1 DEF ListStates, ListItems, AddDigit
  <2>3. i \in ListItems
    <3> HIDE DEF b
    <3> QED
      BY <1>2, <2>1 DEF ListItems
  <2> HIDE DEF b, i
  <2> QED
    BY <1>1, <2>1, <2>2, <2>3 DEF ListStates
<1>7. isdigit(c) => AddDigit(t, unhex[c]) \in ListStates(C)
  <2> SUFFICES ASSUME isdigit(c) PROVE AddDigit(t, unhex[c]) \in ListStates(C)
    OBVIOUS
  <2>1. PICK d \in 0 .. 9 : c = Digits[d + 1]
    BY DigitOf
  <2>2. d \in 0 .. 15 /\ d \in Nat
    OBVIOUS
  <2>3. unhex[c] = d
    BY <2>1, <2>2, DigitFacts
  <2> QED
    BY <1>6, <2>2, <2>3
<1>8. \/ ListChar(s, c) = s \/ ListChar(s, c) = t
      \/ ListChar(s, c) = [t EXCEPT !.ret = "EINVAL"]
      \/ ListChar(s, c) = EndItem(t) \/ ListChar(s, c) = StartRange(t)
      \/ isdigit(c) /\ ListChar(s, c) = AddDigit(t, unhex[c])
  BY DEF ListChar, t
<1> QED
  BY <1>1, <1>3, <1>4, <1>5, <1>7, <1>8

\* cpulist_parse names no bit beyond the mask, whatever the text.
LEMMA ListInMask ==
    ASSUME NEW C, NEW text \in Seq(C)
    PROVE  cpulist_parse(text) \subseteq 0 .. nmaskbits - 1
<1>1. Len(text) \in Nat /\ \A i \in 1 .. Len(text) : text[i] \in C
  OBVIOUS
<1>2. PICK g : /\ g[0] = ListStart
               /\ \A i \in 1 .. Len(text) : g[i] = ListChar(g[i - 1], text[i])
               /\ cpulist_parse(text) = ListEnd(g[Len(text)]).mask
  BY ListTrace
<1> DEFINE T == { i \in 0 .. Len(text) : g[i] \in ListStates(C) }
<1>3. 0 \in T
  <2>0. NewItem \in ListItems /\ {} \in SUBSET (0 .. nmaskbits - 1) /\ "NUL" \in C \cup {"NUL"}
    BY DEF NewItem, ListItems
  <2>1. ListStart \in ListStates(C)
    BY <2>0 DEF ListStart, ListStates
  <2> QED
    BY <1>1, <1>2, <2>1
<1>4. ASSUME NEW i \in 1 .. Len(text), i - 1 \in T PROVE i \in T
  <2>1. g[i - 1] \in ListStates(C) /\ text[i] \in C /\ i \in 0 .. Len(text)
    BY <1>1, <1>4
  <2>2. g[i] \in ListStates(C)
    BY <1>2, <2>1, ListCharState
  <2> QED
    BY <2>1, <2>2
<1>5. \A i \in 0 .. Len(text) : i \in T
  <2> HIDE DEF T
  <2> QED
    BY <1>1, <1>3, <1>4, InductionUpTo
<1>6. g[Len(text)] \in ListStates(C)
  BY <1>1, <1>5
<1>7. ASSUME NEW s \in ListStates(C) PROVE ListEnd(s).mask \subseteq 0 .. nmaskbits - 1
  <2> DEFINE t == IF s.ret = "go" /\ s.c # Comma THEN EndItem(s) ELSE s
  <2>1. t \in ListStates(C)
    BY EndItemState
  <2> HIDE DEF t
  <2>2. ListEnd(s) = IF t.ret = "go" THEN [t EXCEPT !.ret = "ok"] ELSE t
    BY DEF ListEnd, t
  <2> QED
    BY <2>1, <2>2 DEF ListStates
<1> QED
  BY <1>2, <1>6, <1>7

\* Between two characters of a list without ranges: the mask is m, and v has been read
\* of a number.
Reading(C, s, v, m) ==
    /\ s \in ListStates(C) /\ s.ret = "go" /\ s.c # Blank /\ s.mask = m
    /\ s.item.a = v /\ s.item.b = v /\ s.item.in_range = FALSE

\* A digit, a comma, and the word NULL
LEMMA DigitRead ==
    ASSUME NEW C, NEW s, NEW v, NEW m, Reading(C, s, v, m), NEW d \in 0 .. 9, Digits[d + 1] \in C
    PROVE  /\ Reading(C, ListChar(s, Digits[d + 1]), v * 10 + d, m)
           /\ ListChar(s, Digits[d + 1]).c = Digits[d + 1]
<1> DEFINE k == Digits[d + 1]
           t == [s EXCEPT !.c = k]
<1>1. /\ k \notin {Comma, Blank, "-", "NULL"} /\ unhex[k] = d /\ isdigit(k)
  <2>1. d \in 0 .. 15 /\ d < 10
    OBVIOUS
  <2> QED
    BY <2>1, DigitFacts, DigitsDiffer
<1>2. /\ s \in ListStates(C) /\ s.ret = "go" /\ s.c # Blank /\ s.mask = m
      /\ s.item.a = v /\ s.item.b = v /\ s.item.in_range = FALSE
  BY DEF Reading
<1>3. /\ t \in ListStates(C) /\ t.item = s.item /\ t.mask = m /\ t.c = k /\ t.ret = "go"
  BY <1>2 DEF ListStates
<1> HIDE DEF k, t
<1>4. ListChar(s, k) = AddDigit(t, d)
  BY <1>1, <1>2 DEF ListChar, t
<1>5. ListChar(s, k) \in ListStates(C)
  BY <1>2, ListCharState DEF k
<1>6. /\ AddDigit(t, d).mask = m /\ AddDigit(t, d).c = k /\ AddDigit(t, d).ret = "go"
  BY <1>3 DEF AddDigit, ListStates
<1>7. /\ AddDigit(t, d).item.a = v * 10 + d /\ AddDigit(t, d).item.b = v * 10 + d
      /\ AddDigit(t, d).item.in_range = FALSE
  BY <1>2, <1>3 DEF AddDigit, ListStates, ListItems
<1> QED
  BY <1>1, <1>4, <1>5, <1>6, <1>7 DEF Reading, k

LEMMA CommaRead ==
    ASSUME NEW C, NEW s, NEW v, NEW m, Reading(C, s, v, m), v < nmaskbits, Comma \in C
    PROVE  Reading(C, ListChar(s, Comma), 0, m \cup {v})
<1> DEFINE t == [s EXCEPT !.c = Comma]
<1>2. /\ s \in ListStates(C) /\ s.ret = "go" /\ s.c # Blank /\ s.mask = m
      /\ s.item.a = v /\ s.item.b = v /\ s.item.in_range = FALSE
  BY DEF Reading
<1>3. /\ t \in ListStates(C) /\ t.item = s.item /\ t.mask = m /\ t.c = Comma /\ t.ret = "go"
  BY <1>2 DEF ListStates
<1>1. v \in Nat
  BY <1>2 DEF ListStates, ListItems
<1> HIDE DEF t
<1>4. ListChar(s, Comma) = EndItem(t)
  BY <1>2, Separators DEF ListChar, t
<1>5. ListChar(s, Comma) \in ListStates(C)
  BY <1>2, ListCharState
<1>6. v .. v = {v} /\ v <= v /\ ~(v >= nmaskbits)
  BY <1>1, WidthAssumption
<1>7. EndItem(t) = [t EXCEPT !.item = NewItem, !.mask = m \cup {v}]
  BY <1>2, <1>3, <1>6 DEF EndItem
<1>8. /\ EndItem(t).mask = m \cup {v} /\ EndItem(t).c = Comma /\ EndItem(t).ret = "go"
      /\ EndItem(t).item = NewItem
  BY <1>3, <1>7 DEF ListStates
<1>9. NewItem.a = 0 /\ NewItem.b = 0 /\ NewItem.in_range = FALSE
  BY DEF NewItem
<1> QED
  BY <1>4, <1>5, <1>8, <1>9, Separators DEF Reading

LEMMA NullRead ==
    ASSUME NEW C, NEW s, NEW v, NEW m, Reading(C, s, v, m), "NULL" \in C
    PROVE  ListEnd(ListChar(s, "NULL")).mask = m
<1> DEFINE t == [s EXCEPT !.c = "NULL"]
           u == [t EXCEPT !.ret = "EINVAL"]
<1>1. ~isdigit("NULL")
  <2> SUFFICES ASSUME isdigit("NULL") PROVE FALSE
    OBVIOUS
  <2>1. PICK d \in 0 .. 9 : "NULL" = Digits[d + 1]
    BY DigitOf
  <2>2. d \in 0 .. 15
    OBVIOUS
  <2> QED
    BY <2>1, <2>2, DigitsDiffer
<1>2. s \in ListStates(C) /\ s.ret = "go" /\ s.c # Blank /\ s.mask = m
  BY DEF Reading
<1>3. t \in ListStates(C) /\ t.mask = m
  BY <1>2 DEF ListStates
<1> HIDE DEF t
<1>4. u.ret = "EINVAL" /\ u.mask = m
  BY <1>3 DEF ListStates
<1>5. ListChar(s, "NULL") = u
  BY <1>1, <1>2, Separators DEF ListChar, t
<1> HIDE DEF u
<1>6. ListEnd(u) = u
  BY <1>4 DEF ListEnd
<1> QED
  BY <1>4, <1>5, <1>6

\* How a number is written: in w digits, and p[k] is what the first k of them say.
Spelled(v, w, p) ==
    /\ p[0] = 0 /\ p[w] = v
    /\ DOMAIN Decimal(v) = 1 .. w
    /\ \A k \in 1 .. w : /\ p[k] % 10 \in 0 .. 9 /\ p[k] = p[k - 1] * 10 + (p[k] % 10)
                         /\ Decimal(v)[k] = Digits[(p[k] % 10) + 1]

LEMMA DecimalFacts ==
    ASSUME NEW v \in Nat, v < 10000
    PROVE  \E w \in 1 .. 4, p \in [0 .. 4 -> Nat] : Spelled(v, w, p)
<1> DEFINE ten == <<1, 10, 100, 1000>>
           w == IF v < 10 THEN 1 ELSE IF v < 100 THEN 2 ELSE IF v < 1000 THEN 3 ELSE 4
           p == [k \in 0 .. 4 |-> IF k = 0 \/ k > w THEN 0 ELSE v \div ten[w + 1 - k]]
<1>1. ten[1] = 1 /\ ten[2] = 10 /\ ten[3] = 100 /\ ten[4] = 1000
  OBVIOUS
<1>2. w \in {1, 2, 3, 4}
  OBVIOUS
<1>3. Decimal(v) = [k \in 1 .. w |-> Digits[1 + ((v \div ten[w + 1 - k]) % 10)]]
  BY DEF Decimal
<1>4. /\ w = 1 <=> v < 10
      /\ w = 2 <=> v >= 10 /\ v < 100
      /\ w = 3 <=> v >= 100 /\ v < 1000
      /\ w = 4 <=> v >= 1000
  OBVIOUS
<1> HIDE DEF w, ten
<1>5. \A k \in 1 .. w : w + 1 - k \in {1, 2, 3, 4} /\ ten[w + 1 - k] \in {1, 10, 100, 1000}
  BY <1>1, <1>2
<1>6. ASSUME NEW k \in 1 .. w
      PROVE  p[k] = v \div ten[w + 1 - k] /\ p[k] \in Nat /\ k \in 0 .. 4
  <2>1. k \in 0 .. 4 /\ ~(k = 0 \/ k > w)
    BY <1>2
  <2>2. p[k] = v \div ten[w + 1 - k]
    BY <2>1
  <2>3. ten[w + 1 - k] \in {1, 10, 100, 1000}
    BY <1>5
  <2>4. v \div ten[w + 1 - k] \in Nat
    <3> DEFINE q == ten[w + 1 - k]
    <3>1. q \in {1, 10, 100, 1000}
      BY <2>3
    <3> HIDE DEF q
    <3>2. v \div q \in Nat
      BY <3>1
    <3> QED
      BY <3>2 DEF q
  <2> QED
    BY <2>1, <2>2, <2>4
<1>7. p \in [0 .. 4 -> Nat] /\ p[0] = 0
  <2>2. p = [k \in 0 .. 4 |-> p[k]] /\ p[0] = 0
    OBVIOUS
  <2>1. ASSUME NEW k \in 0 .. 4 PROVE p[k] \in Nat
    <3>1. CASE k = 0 \/ k > w
      BY <3>1
    <3>2. CASE ~(k = 0 \/ k > w)
      <4>1. k \in 1 .. w
        BY <1>2, <3>2
      <4> HIDE DEF p
      <4> QED
        BY <1>6, <4>1
    <3> QED
      BY <3>1, <3>2
  <2> HIDE DEF p
  <2> QED
    BY <2>1, <2>2
<1> HIDE DEF p
<1>8. p[w] = v
  <2>1. w \in 1 .. w /\ w + 1 - w = 1
    BY <1>2
  <2>2. p[w] = v \div 1
    BY <1>1, <1>6, <2>1
  <2> QED
    BY <2>2
<1>9. ASSUME NEW k \in 1 .. w
      PROVE  p[k] = p[k - 1] * 10 + (p[k] % 10)
  <2>1. CASE k = 1
    <3>1. p[k] = v \div ten[w] /\ p[k - 1] = 0
      BY <1>2, <1>6, <1>7, <2>1
    <3>2. v \div ten[w] < 10 /\ v \div ten[w] \in Nat
      BY <1>1, <1>2, <1>4
    <3> QED
      BY <3>1, <3>2
  <2>2. CASE k # 1
    <3>1. /\ k - 1 \in 1 .. w /\ p[k] = v \div ten[w + 1 - k]
          /\ p[k - 1] = v \div ten[w + 1 - (k - 1)]
      <4>1. k - 1 \in 1 .. w
        BY <1>2, <2>2
      <4> QED
        BY <1>6, <4>1
    <3>2. w + 1 - k \in {1, 2, 3} /\ w + 1 - (k - 1) = (w + 1 - k) + 1
      BY <1>2, <2>2
    <3>3. \/ ten[w + 1 - k] = 1 /\ ten[w + 1 - (k - 1)] = 10
          \/ ten[w + 1 - k] = 10 /\ ten[w + 1 - (k - 1)] = 100
          \/ ten[w + 1 - k] = 100 /\ ten[w + 1 - (k - 1)] = 1000
      BY <1>1, <3>2
    <3>4. /\ v \div 1 = (v \div 10) * 10 + ((v \div 1) % 10)
          /\ v \div 10 = (v \div 100) * 10 + ((v \div 10) % 10)
          /\ v \div 100 = (v \div 1000) * 10 + ((v \div 100) % 10)
      <4>1. v \div 1 = (v \div 10) * 10 + ((v \div 1) % 10)
        OBVIOUS
      <4>2. v \div 10 = (v \div 100) * 10 + ((v \div 10) % 10)
        OBVIOUS
      <4>3. v \div 100 = (v \div 1000) * 10 + ((v \div 100) % 10)
        OBVIOUS
      <4> QED
        BY <4>1, <4>2, <4>3
    <3> QED
      BY <3>1, <3>3, <3>4
  <2> QED
    BY <2>1, <2>2
<1>10. ASSUME NEW k \in 1 .. w
       PROVE  p[k] % 10 \in 0 .. 9 /\ Decimal(v)[k] = Digits[(p[k] % 10) + 1]
  <2>1. p[k] \in Nat /\ p[k] = v \div ten[w + 1 - k]
    BY <1>6
  <2>2. p[k] % 10 \in 0 .. 9 /\ 1 + (p[k] % 10) = (p[k] % 10) + 1
    BY <2>1
  <2>3. Decimal(v)[k] = Digits[1 + ((v \div ten[w + 1 - k]) % 10)]
    BY <1>3
  <2> QED
    BY <2>1, <2>2, <2>3
<1>11. w \in 1 .. 4 /\ DOMAIN Decimal(v) = 1 .. w
  BY <1>2, <1>3
<1>12. Spelled(v, w, p)
  <2>1. ASSUME NEW k \in 1 .. w
        PROVE  /\ p[k] % 10 \in 0 .. 9 /\ p[k] = p[k - 1] * 10 + (p[k] % 10)
               /\ Decimal(v)[k] = Digits[(p[k] % 10) + 1]
    <3>1. p[k] = p[k - 1] * 10 + (p[k] % 10)
      BY <1>9
    <3>2. p[k] % 10 \in 0 .. 9 /\ Decimal(v)[k] = Digits[(p[k] % 10) + 1]
      BY <1>10
    <3> QED
      BY <3>1, <3>2
  <2>2. p[0] = 0 /\ p[w] = v /\ DOMAIN Decimal(v) = 1 .. w
    BY <1>7, <1>8, <1>11
  <2> QED
    BY <2>1, <2>2 DEF Spelled
<1> QED
  BY <1>7, <1>11, <1>12

\* The characters of a list of numbers
ListChars == { Digits[d + 1] : d \in 0 .. 9 } \cup {Comma, "NULL"}

LEMMA ListCharsFacts ==
    /\ Blank \notin ListChars /\ Comma \in ListChars /\ "NULL" \in ListChars
    /\ \A d \in 0 .. 9 : Digits[d + 1] \in ListChars /\ Digits[d + 1] # "NULL"
<1>1. ASSUME NEW d \in 0 .. 9
      PROVE  Digits[d + 1] # Blank /\ Digits[d + 1] # "NULL" /\ Digits[d + 1] \in ListChars
  <2>1. d \in 0 .. 15
    OBVIOUS
  <2> QED
    BY <2>1, DigitsDiffer DEF ListChars
<1> QED
  BY <1>1, Separators DEF ListChars

\* A cpu as handle_cpu_banning writes it
LEMMA CpuText ==
    ASSUME NEW v \in 0 .. nmaskbits - 1
    PROVE  \E w \in 1 .. 4, p \in [0 .. 4 -> Nat] :
              /\ Spelled(v, w, p)
              /\ Decimal(v) \in Seq(ListChars) /\ Len(Decimal(v)) = w
              /\ Decimal(v) \o <<Comma>> \in Seq(ListChars)
              /\ Len(Decimal(v) \o <<Comma>>) = w + 1
              /\ \A k \in 1 .. w : (Decimal(v) \o <<Comma>>)[k] = Decimal(v)[k]
              /\ (Decimal(v) \o <<Comma>>)[w + 1] = Comma
<1>1. v \in Nat /\ v < 10000
  BY WidthAssumption
<1>2. PICK w \in 1 .. 4, p \in [0 .. 4 -> Nat] : Spelled(v, w, p)
  BY <1>1, DecimalFacts
<1> DEFINE t == Decimal(v)
<1>3. t \in Seq(ListChars) /\ Len(t) = w
  <2>1. \A k \in 1 .. w : t[k] \in ListChars
    <3> SUFFICES ASSUME NEW k \in 1 .. w PROVE t[k] \in ListChars
      OBVIOUS
    <3>1. p[k] % 10 \in 0 .. 9 /\ t[k] = Digits[(p[k] % 10) + 1]
      BY <1>2 DEF Spelled
    <3> QED
      BY <3>1, ListCharsFacts
  <2>2. t = [k \in 1 .. w |-> t[k]]
    <3>1. DOMAIN t = 1 .. w
      BY <1>2 DEF Spelled
    <3>2. t = [k \in DOMAIN t |-> t[k]]
      BY DEF Decimal
    <3> QED
      BY <3>1, <3>2
  <2> HIDE DEF t
  <2>3. t \in [1 .. w -> ListChars]
    BY <2>1, <2>2
  <2>4. t \in Seq(ListChars)
    BY <1>2, <2>3, FunctionIsSeq
  <2> QED
    BY <1>2, <2>3, <2>4
<1> HIDE DEF t
<1>4. <<Comma>> \in Seq(ListChars) /\ Len(<<Comma>>) = 1 /\ <<Comma>>[1] = Comma
  BY ListCharsFacts
<1>5. /\ t \o <<Comma>> \in Seq(ListChars) /\ Len(t \o <<Comma>>) = w + 1
      /\ \A k \in 1 .. w : (t \o <<Comma>>)[k] = t[k]
      /\ (t \o <<Comma>>)[w + 1] = Comma
  BY <1>3, <1>4, ConcatProperties
<1> QED
  BY <1>2, <1>3, <1>5 DEF t

\* Reading the number as far as its last digit.
LEMMA NumberRead ==
    ASSUME NEW v \in 0 .. nmaskbits - 1, NEW q \in Nat, NEW g, NEW m,
           NEW w \in 1 .. 4, NEW p \in [0 .. 4 -> Nat], Spelled(v, w, p),
           Reading(ListChars, g[q], 0, m),
           \A k \in 1 .. w : g[q + k] = ListChar(g[q + k - 1], Decimal(v)[k])
    PROVE  Reading(ListChars, g[q + w], v, m) /\ g[q + w].c # Comma
<1> DEFINE T == { k \in 0 .. w : /\ Reading(ListChars, g[q + k], p[k], m)
                                 /\ k > 0 => g[q + k].c # Comma }
<1>1. 0 \in T
  <2>1. p[0] = 0 /\ q + 0 = q /\ 0 \in 0 .. w
    BY DEF Spelled
  <2> QED
    BY <2>1
<1>2. ASSUME NEW k \in 1 .. w, k - 1 \in T PROVE k \in T
  <2>1. /\ p[k] % 10 \in 0 .. 9 /\ p[k] = p[k - 1] * 10 + (p[k] % 10)
        /\ Decimal(v)[k] = Digits[(p[k] % 10) + 1]
    BY DEF Spelled
  <2>2. g[q + k] = ListChar(g[q + (k - 1)], Decimal(v)[k])
    <3>1. q + k - 1 = q + (k - 1)
      OBVIOUS
    <3> QED
      BY <3>1
  <2>3. Reading(ListChars, g[q + (k - 1)], p[k - 1], m)
    BY <1>2
  <2> DEFINE d == p[k] % 10
  <2> HIDE DEF d
  <2>4. d \in 0 .. 9 /\ Decimal(v)[k] = Digits[d + 1] /\ p[k] = p[k - 1] * 10 + d
    BY <2>1 DEF d
  <2>5. /\ Reading(ListChars, ListChar(g[q + (k - 1)], Digits[d + 1]), p[k - 1] * 10 + d, m)
        /\ ListChar(g[q + (k - 1)], Digits[d + 1]).c = Digits[d + 1]
    <3>1. Digits[d + 1] \in ListChars
      BY <2>4, ListCharsFacts
    <3> HIDE DEF T
    <3> QED
      BY <2>3, <2>4, <3>1, DigitRead
  <2>6. Digits[d + 1] # Comma
    <3>1. d \in 0 .. 15
      BY <2>4
    <3> QED
      BY <3>1, DigitsDiffer
  <2>7. Reading(ListChars, g[q + k], p[k], m) /\ g[q + k].c # Comma
    BY <2>2, <2>4, <2>5, <2>6
  <2> QED
    BY <2>7
<1>3. \A k \in 0 .. w : k \in T
  <2> HIDE DEF T
  <2>1. w \in Nat
    OBVIOUS
  <2> QED
    BY <1>1, <1>2, <2>1, InductionUpTo
<1>4. w \in 0 .. w /\ w > 0 /\ p[w] = v
  BY DEF Spelled
<1> QED
  BY <1>3, <1>4

\* Reading such a text adds the cpu.
LEMMA CpuRead ==
    ASSUME NEW v \in 0 .. nmaskbits - 1, NEW q \in Nat, NEW g, NEW m,
           Reading(ListChars, g[q], 0, m),
           \A k \in 1 .. Len(Decimal(v) \o <<Comma>>) :
              g[q + k] = ListChar(g[q + k - 1], (Decimal(v) \o <<Comma>>)[k])
    PROVE  Reading(ListChars, g[q + Len(Decimal(v) \o <<Comma>>)], 0, m \cup {v})
<1> DEFINE t == Decimal(v) \o <<Comma>>
<1>1. PICK w \in 1 .. 4, p \in [0 .. 4 -> Nat] :
         /\ Spelled(v, w, p)
         /\ t \in Seq(ListChars) /\ Len(t) = w + 1
         /\ \A k \in 1 .. w : t[k] = Decimal(v)[k]
         /\ t[w + 1] = Comma
  BY CpuText
<1> HIDE DEF t
<1>2. \A k \in 1 .. w + 1 : g[q + k] = ListChar(g[q + k - 1], t[k])
  BY <1>1 DEF t
<1>6. Reading(ListChars, g[q + w], v, m)
  <2>1. ASSUME NEW k \in 1 .. w PROVE g[q + k] = ListChar(g[q + k - 1], Decimal(v)[k])
    <3>1. k \in 1 .. w + 1 /\ t[k] = Decimal(v)[k]
      BY <1>1
    <3> QED
      BY <1>2, <3>1
  <2> QED
    BY <1>1, <2>1, NumberRead
<1>7. g[q + (w + 1)] = ListChar(g[q + w], Comma)
  <2>1. w + 1 \in 1 .. w + 1 /\ q + (w + 1) - 1 = q + w
    BY <1>1
  <2> QED
    BY <1>1, <1>2, <2>1
<1>8. v < nmaskbits
  BY WidthAssumption
<1>9. Reading(ListChars, g[q + (w + 1)], 0, m \cup {v})
  BY <1>6, <1>7, <1>8, CommaRead, ListCharsFacts
<1> QED
  BY <1>1, <1>9 DEF t

\* Before the first character nothing has been read.
LEMMA NothingRead == Reading(ListChars, ListStart, 0, {})
<1>1. NewItem \in ListItems /\ NewItem.a = 0 /\ NewItem.b = 0 /\ NewItem.in_range = FALSE
  BY DEF NewItem, ListItems
<1>2. {} \in SUBSET (0 .. nmaskbits - 1) /\ "NUL" \in ListChars \cup {"NUL"}
  OBVIOUS
<1>3. ListStart \in ListStates(ListChars)
  BY <1>1, <1>2 DEF ListStart, ListStates
<1>4. ListStart.ret = "go" /\ ListStart.c = "NUL" /\ ListStart.mask = {}
      /\ ListStart.item = NewItem
  BY DEF ListStart
<1> QED
  BY <1>1, <1>3, <1>4, Separators DEF Reading

\* A number alone, with nothing behind it, is a list of one cpu.
LEMMA OneCpuRead ==
    ASSUME NEW v \in 0 .. nmaskbits - 1
    PROVE  /\ Decimal(v) \in Seq(ListChars) /\ Decimal(v) # <<>>
           /\ Head(Decimal(v)) # "NULL"
           /\ cpulist_parse(Decimal(v)) = {v}
<1> DEFINE t == Decimal(v)
<1>1. PICK w \in 1 .. 4, p \in [0 .. 4 -> Nat] :
         Spelled(v, w, p) /\ t \in Seq(ListChars) /\ Len(t) = w
  BY CpuText
<1>2. 1 \in 1 .. w /\ p[1] % 10 \in 0 .. 9 /\ t[1] = Digits[(p[1] % 10) + 1]
  BY <1>1 DEF Spelled
<1> HIDE DEF t
<1>3. t # <<>> /\ Head(t) = t[1] /\ t[1] # "NULL"
  <2>1. t # <<>> /\ Head(t) = t[1]
    BY <1>1
  <2>2. t[1] # "NULL"
    BY <1>2, ListCharsFacts
  <2> QED
    BY <2>1, <2>2
<1>4. PICK g : /\ g[0] = ListStart
               /\ \A i \in 1 .. w : g[i] = ListChar(g[i - 1], t[i])
               /\ cpulist_parse(t) = ListEnd(g[w]).mask
  BY <1>1, ListTrace
<1>5. Reading(ListChars, g[w], v, {}) /\ g[w].c # Comma
  <2>1. \A k \in 1 .. w : g[0 + k] = ListChar(g[0 + k - 1], t[k])
    <3>1. \A k \in 1 .. w : 0 + k = k /\ 0 + k - 1 = k - 1
      OBVIOUS
    <3> QED
      BY <1>4, <3>1
  <2>2. Reading(ListChars, g[0], 0, {}) /\ 0 \in Nat /\ 0 + w = w
    BY <1>4, NothingRead
  <2>3. Reading(ListChars, g[0 + w], v, {}) /\ g[0 + w].c # Comma
    BY <1>1, <2>1, <2>2, NumberRead DEF t
  <2> QED
    BY <2>2, <2>3
<1> DEFINE s == g[w]
<1>6. /\ s \in ListStates(ListChars) /\ s.ret = "go" /\ s.mask = {} /\ s.c # Comma
      /\ s.item.a = v /\ s.item.b = v
  BY <1>5 DEF Reading
<1> HIDE DEF s
<1>7. v .. v = {v} /\ v <= v /\ ~(v >= nmaskbits)
  BY WidthAssumption
<1>8. EndItem(s) = [s EXCEPT !.item = NewItem, !.mask = {v}]
  BY <1>6, <1>7 DEF EndItem
<1>9. EndItem(s).ret = "go" /\ EndItem(s).mask = {v}
  BY <1>6, <1>8 DEF ListStates
<1>10. EndItem(s) \in ListStates(ListChars)
  BY <1>6, EndItemState
<1>11. ListEnd(s) = [EndItem(s) EXCEPT !.ret = "ok"]
  BY <1>6, <1>9 DEF ListEnd
<1>12. ListEnd(s).mask = {v}
  BY <1>9, <1>10, <1>11 DEF ListStates
<1> QED
  BY <1>1, <1>3, <1>4, <1>12 DEF t, s

\* The text that handle_cpu_banning sends: no blank in it, NULL in front when no cpu is
\* banned, and otherwise cpulist_parse finds the cpus.
LEMMA BanTextRead ==
    ASSUME NEW q \in Seq(0 .. nmaskbits - 1)
    PROVE  /\ BanText(q) \in Seq(ListChars) /\ BanText(q) # <<>>
           /\ Head(BanText(q)) = "NULL" <=> q = <<>>
           /\ q # <<>> => cpulist_parse(BanText(q)) = Range(q)
<1> DEFINE n == Len(q)
           piece(k) == Decimal(q[k]) \o <<Comma>>
           ss == [k \in 1 .. n |-> piece(k)]
           text == BanText(q)
<1>1. n \in Nat /\ DOMAIN q = 1 .. n /\ \A k \in 1 .. n : q[k] \in 0 .. nmaskbits - 1
  <2> DEFINE B == 0 .. nmaskbits - 1
  <2>1. q \in Seq(B)
    OBVIOUS
  <2> HIDE DEF B
  <2>2. n \in Nat /\ DOMAIN q = 1 .. n /\ \A k \in 1 .. n : q[k] \in B
    BY <2>1
  <2> QED
    BY <2>2 DEF B
<1>0. q = <<>> <=> n = 0
  OBVIOUS
<1> HIDE DEF n
<1>2. ASSUME NEW k \in 1 .. n
      PROVE  /\ piece(k) \in Seq(ListChars) /\ Len(piece(k)) \in Nat /\ Len(piece(k)) > 0
             /\ piece(k)[1] # "NULL"
  <2>1. PICK w \in 1 .. 4, p \in [0 .. 4 -> Nat] :
              /\ Spelled(q[k], w, p)
              /\ piece(k) \in Seq(ListChars)
              /\ Len(piece(k)) = w + 1
              /\ \A j \in 1 .. w : piece(k)[j] = Decimal(q[k])[j]
    BY <1>1, CpuText
  <2>2. 1 \in 1 .. w /\ p[1] % 10 \in 0 .. 9 /\ Decimal(q[k])[1] = Digits[(p[1] % 10) + 1]
    BY <2>1 DEF Spelled
  <2> HIDE DEF piece
  <2>3. piece(k)[1] # "NULL"
    BY <2>1, <2>2, ListCharsFacts
  <2> QED
    BY <2>1, <2>3
<1> HIDE DEF piece
<1>3. ss \in Seq(Seq(ListChars)) /\ Len(ss) = n /\ \A k \in 1 .. n : ss[k] = piece(k)
  BY <1>1, <1>2
<1>4. text = FlattenSeq(ss) \o <<"NULL">>
  BY DEF BanText, piece, n
<1> HIDE DEF ss
<1>5. PICK f : Joins(f, ss, ListChars) /\ f[n] = FlattenSeq(ss)
  BY <1>3, FlattenTrace
<1>6. ASSUME NEW i \in 0 .. n
      PROVE  /\ Len(f[i]) \in Nat /\ Len(f[i]) <= Len(f[n])
             /\ \A k \in 1 .. Len(f[i]) : f[n][k] = f[i][k]
  BY <1>3, <1>5, FlattenPrefix
<1>13. /\ f[0] = <<>> /\ f[n] = FlattenSeq(ss)
       /\ \A i \in 0 .. n : f[i] \in Seq(ListChars)
       /\ \A i \in 1 .. n : f[i] = f[i - 1] \o ss[i]
  BY <1>3, <1>5 DEF Joins
<1>7. ASSUME NEW i \in 1 .. n
      PROVE  /\ Len(f[i - 1]) \in Nat /\ Len(f[i]) = Len(f[i - 1]) + Len(piece(i))
             /\ \A k \in 1 .. Len(piece(i)) : f[i][Len(f[i - 1]) + k] = piece(i)[k]
  <2>1. /\ f[i - 1] \in Seq(ListChars) /\ piece(i) \in Seq(ListChars)
        /\ f[i] = f[i - 1] \o piece(i)
    <3>1. i - 1 \in 0 .. n
      BY <1>1
    <3> QED
      BY <1>2, <1>3, <1>13, <3>1
  <2> QED
    BY <2>1, ConcatProperties
<1> HIDE DEF text
<1>8. /\ text \in Seq(ListChars) /\ Len(f[n]) \in Nat /\ Len(text) = Len(f[n]) + 1
      /\ text[Len(f[n]) + 1] = "NULL" /\ \A k \in 1 .. Len(f[n]) : text[k] = f[n][k]
  <2>1. f[n] \in Seq(ListChars) /\ <<"NULL">> \in Seq(ListChars) /\ text = f[n] \o <<"NULL">>
    BY <1>1, <1>4, <1>13, ListCharsFacts
  <2> QED
    BY <2>1, ConcatProperties
<1>9. text # <<>> /\ Head(text) = text[1]
  BY <1>8
<1>10. q = <<>> => Head(text) = "NULL"
  <2>1. q = <<>> => n = 0
    BY <1>0
  <2>2. n = 0 => Len(f[n]) = 0
    BY <1>13
  <2> QED
    BY <1>8, <1>9, <2>1, <2>2
<1>11. q # <<>> => Head(text) # "NULL"
  <2> SUFFICES ASSUME q # <<>> PROVE text[1] # "NULL"
    BY <1>9
  <2>1. n > 0 /\ 1 \in 1 .. n /\ 1 \in 0 .. n
    BY <1>0, <1>1
  <2>2. Len(f[1]) = Len(piece(1)) /\ 1 \in 1 .. Len(piece(1)) /\ f[1][1] = piece(1)[1]
    <3>1. Len(f[1 - 1]) = 0
      BY <1>13
    <3>2. 1 \in 1 .. Len(piece(1))
      BY <1>2, <2>1
    <3>3. f[1][0 + 1] = piece(1)[1] /\ Len(f[1]) = 0 + Len(piece(1))
      BY <1>7, <2>1, <3>1, <3>2
    <3> QED
      BY <1>2, <2>1, <3>2, <3>3
  <2>3. text[1] = piece(1)[1]
    BY <1>6, <1>8, <2>1, <2>2
  <2> QED
    BY <1>2, <2>1, <2>3
<1>12. q # <<>> => cpulist_parse(text) = Range(q)
  <2> SUFFICES ASSUME q # <<>> PROVE cpulist_parse(text) = Range(q)
    OBVIOUS
  <2>1. PICK g : /\ g[0] = ListStart
                 /\ \A i \in 1 .. Len(text) : g[i] = ListChar(g[i - 1], text[i])
                 /\ cpulist_parse(text) = ListEnd(g[Len(text)]).mask
    BY <1>8, ListTrace
  <2> DEFINE M(i) == { q[k] : k \in 1 .. i }
             T == { i \in 0 .. n : Reading(ListChars, g[Len(f[i])], 0, M(i)) }
  <2>2. 0 \in T
    <3>1. M(0) = {}
      OBVIOUS
    <3>2. Len(f[0]) = 0 /\ 0 \in 0 .. n
      BY <1>1, <1>13
    <3> QED
      BY <2>1, <3>1, <3>2, NothingRead
  <2>3. ASSUME NEW i \in 1 .. n, i - 1 \in T PROVE i \in T
    <3>1. Reading(ListChars, g[Len(f[i - 1])], 0, M(i - 1)) /\ i \in 0 .. n
      BY <1>1, <2>3
    <3> DEFINE a == Len(f[i - 1])
    <3>2. a \in Nat /\ Len(piece(i)) \in Nat /\ Len(f[i]) = a + Len(piece(i))
      BY <1>2, <1>7
    <3>3. ASSUME NEW k \in 1 .. Len(piece(i))
          PROVE  g[a + k] = ListChar(g[a + k - 1], piece(i)[k])
      <4>1. a + k \in 1 .. Len(f[i]) /\ a + k \in 1 .. Len(text) /\ a + k \in 1 .. Len(f[n])
        <5>1. Len(f[i]) \in Nat /\ Len(f[i]) <= Len(f[n])
          BY <1>6, <3>1
        <5>2. Len(f[n]) \in Nat /\ Len(text) = Len(f[n]) + 1
          BY <1>8
        <5> HIDE DEF a
        <5> QED
          BY <3>2, <5>1, <5>2
      <4>2. text[a + k] = piece(i)[k]
        <5>1. text[a + k] = f[n][a + k]
          BY <1>8, <4>1
        <5>2. f[n][a + k] = f[i][a + k]
          BY <1>6, <3>1, <4>1
        <5>3. f[i][a + k] = piece(i)[k]
          BY <1>7
        <5> QED
          BY <5>1, <5>2, <5>3
      <4> HIDE DEF a, M, T
      <4>3. \A b \in 1 .. Len(text) : g[b] = ListChar(g[b - 1], text[b])
        BY <2>1
      <4>4. g[a + k] = ListChar(g[(a + k) - 1], text[a + k])
        BY <4>1, <4>3
      <4>5. (a + k) - 1 = a + k - 1
        BY <3>2
      <4> QED
        BY <4>2, <4>4, <4>5, Zenon
    <3> HIDE DEF a
    <3>4. Reading(ListChars, g[a + Len(piece(i))], 0, M(i - 1) \cup {q[i]})
      <4>1. Reading(ListChars, g[a], 0, M(i - 1)) /\ q[i] \in 0 .. nmaskbits - 1
        BY <1>1, <3>1 DEF a
      <4> HIDE DEF M
      <4> QED
        BY <3>2, <3>3, <4>1, CpuRead DEF piece
    <3>5. M(i) = M(i - 1) \cup {q[i]}
      <4>1. 1 .. i = (1 .. (i - 1)) \cup {i}
        BY <1>1
      <4> QED
        BY <4>1
    <3> HIDE DEF M
    <3> QED
      BY <3>1, <3>2, <3>4, <3>5
  <2>4. \A i \in 0 .. n : i \in T
    <3> HIDE DEF T
    <3> QED
      BY <1>1, <2>2, <2>3, InductionUpTo
  <2>5. Reading(ListChars, g[Len(f[n])], 0, M(n))
    <3>1. n \in 0 .. n
      BY <1>1
    <3> HIDE DEF M
    <3> QED
      BY <2>4, <3>1
  <2>6. g[Len(text)] = ListChar(g[Len(f[n])], "NULL")
    <3>1. Len(text) \in 1 .. Len(text) /\ Len(text) - 1 = Len(f[n]) /\ text[Len(text)] = "NULL"
      BY <1>8
    <3> QED
      BY <2>1, <3>1
  <2>7. M(n) = Range(q)
    BY <1>1 DEF Range
  <2> HIDE DEF M
  <2>8. ListEnd(g[Len(text)]).mask = M(n)
    BY <2>5, <2>6, NullRead, ListCharsFacts
  <2> QED
    BY <2>1, <2>7, <2>8
<1> QED
  BY <1>8, <1>9, <1>10, <1>11, <1>12 DEF text

-----------------------------------------------------------------------------
(* The mask of a setup reply                                               *)

\* parse_setup passes over the commas.
Strip(s) == FlattenSeq([i \in 1 .. Len(s) |-> IF s[i] = Comma THEN <<>> ELSE <<s[i]>>])

\* It does so in each part of a text.
LEMMA StripConcat ==
    ASSUME NEW C, NEW s \in Seq(C), NEW t \in Seq(C)
    PROVE  Strip(s \o t) = Strip(s) \o Strip(t)
<1> DEFINE one(c) == IF c = Comma THEN <<>> ELSE <<c>>
           parts(r) == [i \in 1 .. Len(r) |-> one(r[i])]
<1>1. \A c \in C : one(c) \in Seq(C)
  OBVIOUS
<1>2. /\ Len(s) \in Nat /\ Len(t) \in Nat /\ s \o t \in Seq(C)
      /\ Len(s \o t) = Len(s) + Len(t)
      /\ \A i \in 1 .. Len(s) : s[i] \in C
      /\ \A i \in 1 .. Len(t) : t[i] \in C
      /\ \A i \in 1 .. Len(s) : (s \o t)[i] = s[i]
      /\ \A i \in 1 .. Len(t) : (s \o t)[Len(s) + i] = t[i]
  BY ConcatProperties
<1> HIDE DEF one
<1>3. parts(s) \in Seq(Seq(C)) /\ parts(t) \in Seq(Seq(C))
  BY <1>1, <1>2
<1>4. parts(s \o t) = parts(s) \o parts(t)
  <2> DEFINE p == parts(s)
             u == parts(t)
  <2>1. p \in Seq(Seq(C)) /\ u \in Seq(Seq(C)) /\ Len(p) = Len(s) /\ Len(u) = Len(t)
    BY <1>2, <1>3
  <2>2. \A i \in 1 .. Len(s) + Len(t) :
           (p \o u)[i] = IF i <= Len(s) THEN p[i] ELSE u[i - Len(s)]
    <3> HIDE DEF p, u
    <3>1. \A i \in 1 .. Len(p) + Len(u) :
           (p \o u)[i] = IF i <= Len(p) THEN p[i] ELSE u[i - Len(p)]
      BY <2>1, ConcatFacts, Zenon
    <3> QED
      BY <2>1, <3>1, Zenon
  <2>3. p \o u \in Seq(Seq(C)) /\ Len(p \o u) = Len(s) + Len(t)
    <3> HIDE DEF p, u
    <3>1. p \o u \in Seq(Seq(C)) /\ Len(p \o u) = Len(p) + Len(u)
      BY <2>1, ConcatFacts, Zenon
    <3> QED
      BY <2>1, <3>1
  <2>4. \A i \in 1 .. Len(s) + Len(t) : (p \o u)[i] = one((s \o t)[i])
    <3> SUFFICES ASSUME NEW i \in 1 .. Len(s) + Len(t) PROVE (p \o u)[i] = one((s \o t)[i])
      OBVIOUS
    <3>1. CASE i <= Len(s)
      <4>1. i \in 1 .. Len(s) /\ (p \o u)[i] = p[i] /\ (s \o t)[i] = s[i]
        BY <1>2, <2>2, <3>1
      <4> QED
        BY <4>1
    <3>2. CASE ~(i <= Len(s))
      <4>1. i - Len(s) \in 1 .. Len(t) /\ (p \o u)[i] = u[i - Len(s)]
            /\ Len(s) + (i - Len(s)) = i
        BY <1>2, <2>2, <3>2
      <4>2. (s \o t)[i] = t[i - Len(s)]
        BY <1>2, <4>1
      <4> QED
        BY <4>1, <4>2
    <3> QED
      BY <3>1, <3>2
  <2> HIDE DEF p, u
  <2>5. p \o u = [i \in 1 .. Len(s) + Len(t) |-> one((s \o t)[i])]
    <3>0. \A r \in Seq(Seq(C)) : r = [i \in 1 .. Len(r) |-> r[i]]
      OBVIOUS
    <3>1. p \o u = [i \in 1 .. Len(p \o u) |-> (p \o u)[i]]
      BY <2>3, <3>0, Zenon
    <3> QED
      BY <2>3, <2>4, <3>1
  <2> QED
    BY <1>2, <2>5 DEF p, u
<1>5. Strip(s \o t) = FlattenSeq(parts(s \o t)) /\ Strip(s) = FlattenSeq(parts(s))
      /\ Strip(t) = FlattenSeq(parts(t))
  BY DEF Strip, one
<1>6. \A x, y \in Seq(Seq(C)) : FlattenSeq(x \o y) = FlattenSeq(x) \o FlattenSeq(y)
  BY FlattenConcat
<1> HIDE DEF parts
<1> QED
  BY <1>3, <1>4, <1>5, <1>6, Zenon

\* Commas go, digits stay.
LEMMA StripParts ==
    /\ Strip(<<>>) = <<>> /\ Strip(<<Comma>>) = <<>>
    /\ \A C, s : s \in Seq(C) /\ (\A k \in 1 .. Len(s) : s[k] # Comma) => Strip(s) = s
<1>1. Strip(<<>>) = <<>>
  BY DEF Strip, FlattenSeq
<1>2. Strip(<<Comma>>) = <<>>
  <2>1. [i \in 1 .. Len(<<Comma>>) |-> IF <<Comma>>[i] = Comma THEN <<>> ELSE <<(<<Comma>>[i])>>]
            = << <<>> >>
    OBVIOUS
  <2> QED
    BY <2>1 DEF Strip, FlattenSeq
<1>3. ASSUME NEW C, NEW s \in Seq(C), \A k \in 1 .. Len(s) : s[k] # Comma
      PROVE  Strip(s) = s
  <2> DEFINE n == Len(s)
             ss == [i \in 1 .. n |-> <<s[i]>>]
  <2>1. n \in Nat /\ \A i \in 1 .. n : s[i] \in C
    OBVIOUS
  <2> HIDE DEF n
  <2>2. ss \in Seq(Seq(C)) /\ Len(ss) = n /\ \A i \in 1 .. n : ss[i] = <<s[i]>>
    BY <2>1
  <2>3. Strip(s) = FlattenSeq(ss)
    BY <1>3 DEF Strip, n
  <2> HIDE DEF ss
  <2>4. PICK f : Joins(f, ss, C) /\ f[n] = FlattenSeq(ss)
    BY <2>2, FlattenTrace
  <2>5. /\ f[0] = <<>> /\ \A i \in 0 .. n : f[i] \in Seq(C)
        /\ \A i \in 1 .. n : f[i] = f[i - 1] \o <<s[i]>>
    BY <2>2, <2>4 DEF Joins
  <2> DEFINE T == { i \in 0 .. n : Len(f[i]) = i /\ \A k \in 1 .. i : f[i][k] = s[k] }
  <2>6. 0 \in T
    BY <2>1, <2>5
  <2>7. ASSUME NEW i \in 1 .. n, i - 1 \in T PROVE i \in T
    <3>1. i - 1 \in 0 .. n /\ i \in 0 .. n
      BY <2>1
    <3>2. f[i - 1] \in Seq(C) /\ <<s[i]>> \in Seq(C) /\ f[i] = f[i - 1] \o <<s[i]>>
      BY <2>1, <2>5, <3>1
    <3>3. Len(f[i - 1]) = i - 1 /\ \A k \in 1 .. i - 1 : f[i - 1][k] = s[k]
      BY <2>7
    <3>4. Len(f[i]) = i /\ \A k \in 1 .. i :
             f[i][k] = IF k <= i - 1 THEN f[i - 1][k] ELSE <<s[i]>>[k - (i - 1)]
      BY <3>2, <3>3, ConcatFacts
    <3>5. ASSUME NEW k \in 1 .. i PROVE f[i][k] = s[k]
      <4>1. CASE k <= i - 1
        BY <3>3, <3>4, <4>1
      <4>2. CASE k = i
        <5>1. ~(i <= i - 1) /\ i - (i - 1) = 1 /\ i \in 1 .. i
          OBVIOUS
        <5>2. f[i][i] = <<s[i]>>[i - (i - 1)]
          BY <3>4, <5>1
        <5>3. f[i][i] = <<s[i]>>[1]
          BY <5>1, <5>2
        <5> QED
          BY <4>2, <5>3
      <4> QED
        BY <4>1, <4>2
    <3> QED
      BY <3>1, <3>4, <3>5
  <2>8. n \in T
    <3> HIDE DEF T
    <3>1. \A i \in 0 .. n : i \in T
      BY <2>1, <2>6, <2>7, InductionUpTo
    <3> QED
      BY <2>1, <3>1
  <2>9. f[n] \in Seq(C) /\ Len(f[n]) = Len(s) /\ \A k \in 1 .. Len(f[n]) : f[n][k] = s[k]
    BY <2>1, <2>5, <2>8 DEF n
  <2>10. f[n] = s
    <3> HIDE DEF T
    <3> QED
      BY <2>9, SeqEqual
  <2> QED
    BY <2>3, <2>4, <2>10
<1> QED
  BY <1>1, <1>2, <1>3

\* The groups fill the mask; only the first may be narrow.
LEMMA GroupFacts ==
    /\ Groups \in Nat /\ Groups >= 1
    /\ nmaskbits = CHUNKSZ * (Groups - 1) + GroupBits(Groups)
    /\ GroupBits(Groups) \in 1 .. CHUNKSZ
    /\ \A g \in 1 .. Groups : g # Groups => GroupBits(g) = CHUNKSZ
<1>1. /\ nmaskbits \in Nat /\ nmaskbits > 0 /\ CHUNKSZ \in Nat /\ CHUNKSZ > 0
  BY WidthAssumption
<1> DEFINE q == nmaskbits \div CHUNKSZ
           r == nmaskbits % CHUNKSZ
           n == nmaskbits + CHUNKSZ - 1
<1>2. q \in Nat /\ r \in 0 .. CHUNKSZ - 1 /\ nmaskbits = CHUNKSZ * q + r
  BY <1>1
<1>3. Groups \in Int /\ n % CHUNKSZ \in 0 .. CHUNKSZ - 1
      /\ n = CHUNKSZ * Groups + (n % CHUNKSZ)
  BY <1>1 DEF Groups
<1> DEFINE t == n % CHUNKSZ
<1> HIDE DEF q, r, t
<1>4. \A a, b \in Int : a >= b + 1 => CHUNKSZ * a >= CHUNKSZ * b + CHUNKSZ
  <2> SUFFICES ASSUME NEW a \in Int, NEW b \in Int, a >= b + 1
               PROVE  CHUNKSZ * a >= CHUNKSZ * b + CHUNKSZ
    OBVIOUS
  <2>1. CHUNKSZ * (a - b - 1) >= 0
    BY <1>1
  <2>2. CHUNKSZ * (a - b - 1) = CHUNKSZ * a - CHUNKSZ * b - CHUNKSZ
    BY <1>1
  <2>3. CHUNKSZ * a \in Int /\ CHUNKSZ * b \in Int
    BY <1>1
  <2> QED
    BY <1>1, <2>1, <2>2, <2>3
<1>5. CHUNKSZ * q \in Int /\ CHUNKSZ * Groups \in Int
  BY <1>1, <1>2, <1>3
<1>6. Groups = IF r = 0 THEN q ELSE q + 1
  <2>1. CHUNKSZ * Groups + t = CHUNKSZ * q + r + CHUNKSZ - 1 /\ t \in 0 .. CHUNKSZ - 1
    BY <1>1, <1>2, <1>3 DEF t
  <2>2. ~(Groups >= q + 2)
    <3>1. Groups >= q + 2 => CHUNKSZ * Groups >= CHUNKSZ * (q + 1) + CHUNKSZ
      BY <1>2, <1>3, <1>4
    <3>2. CHUNKSZ * (q + 1) >= CHUNKSZ * q + CHUNKSZ
      BY <1>2, <1>4
    <3>3. CHUNKSZ * (q + 1) \in Int
      BY <1>1, <1>2
    <3> QED
      BY <1>1, <1>2, <1>5, <2>1, <3>1, <3>2, <3>3
  <2>3. Groups >= q
    <3>1. ~(Groups >= q) => CHUNKSZ * q >= CHUNKSZ * Groups + CHUNKSZ
      BY <1>2, <1>3, <1>4
    <3> QED
      BY <1>1, <1>2, <1>5, <2>1, <3>1
  <2>4. Groups = q => r = 0
    BY <1>1, <1>2, <1>5, <2>1
  <2>5. Groups = q + 1 => r # 0
    <3>1. CHUNKSZ * (q + 1) >= CHUNKSZ * q + CHUNKSZ /\ CHUNKSZ * (q + 1) \in Int
      BY <1>1, <1>2, <1>4
    <3> QED
      BY <1>1, <1>2, <1>5, <2>1, <3>1
  <2> QED
    BY <1>2, <1>3, <2>2, <2>3, <2>4, <2>5
<1>7. GroupBits(Groups) = IF r # 0 THEN r ELSE CHUNKSZ
  BY DEF GroupBits, r
<1>8. nmaskbits = CHUNKSZ * (Groups - 1) + GroupBits(Groups)
  <2>1. CASE r = 0
    <3>1. CHUNKSZ * (q - 1) + CHUNKSZ = CHUNKSZ * q
      BY <1>1, <1>2
    <3>2. nmaskbits = CHUNKSZ * q /\ Groups = q /\ GroupBits(Groups) = CHUNKSZ
      BY <1>2, <1>5, <1>6, <1>7, <2>1
    <3> QED
      BY <3>1, <3>2, Zenon
  <2>2. CASE r # 0
    <3>1. (q + 1) - 1 = q
      BY <1>2
    <3> QED
      BY <1>2, <1>6, <1>7, <2>2, <3>1
  <2> QED
    BY <2>1, <2>2
<1>9. Groups >= 1
  <2>1. r = 0 => q >= 1
    BY <1>1, <1>2
  <2> QED
    BY <1>2, <1>6, <2>1
<1>10. GroupBits(Groups) \in 1 .. CHUNKSZ
  BY <1>1, <1>2, <1>7
<1> QED
  BY <1>3, <1>8, <1>9, <1>10 DEF GroupBits

\* Four bits make a number, and the number has these bits.
LEMMA NibbleFacts ==
    ASSUME NEW S, NEW m \in Nat
    PROVE  /\ Nibble(S, m) \in 0 .. 15
           /\ \A r \in 0 .. 3 : r \in BitsOf(Nibble(S, m)) <=> 4 * m + r \in S
<1> DEFINE bit(k) == IF 4 * m + k \in S THEN 1 ELSE 0
           b0 == bit(0)
           b1 == bit(1)
           b2 == bit(2)
           b3 == bit(3)
           v == b0 + 2 * b1 + 4 * b2 + 8 * b3
<1>1. b0 \in 0 .. 1 /\ b1 \in 0 .. 1 /\ b2 \in 0 .. 1 /\ b3 \in 0 .. 1
  OBVIOUS
<1>2. Nibble(S, m) = v
  BY DEF Nibble
<1>3. /\ b0 = 1 <=> 4 * m + 0 \in S
      /\ b1 = 1 <=> 4 * m + 1 \in S
      /\ b2 = 1 <=> 4 * m + 2 \in S
      /\ b3 = 1 <=> 4 * m + 3 \in S
  OBVIOUS
<1> HIDE DEF b0, b1, b2, b3
<1>4. /\ v \in 0 .. 15
      /\ (v \div 1) % 2 = b0 /\ (v \div 2) % 2 = b1
      /\ (v \div 4) % 2 = b2 /\ (v \div 8) % 2 = b3
  BY <1>1
<1> HIDE DEF v
<1>5. 2^0 = 1 /\ 2^1 = 2 /\ 2^2 = 4 /\ 2^3 = 8
  OBVIOUS
<1>6. CHUNKSZ \in Nat /\ CHUNKSZ >= 4
  BY WidthAssumption
<1>7. /\ 0 \in BitsOf(v) <=> b0 = 1
      /\ 1 \in BitsOf(v) <=> b1 = 1
      /\ 2 \in BitsOf(v) <=> b2 = 1
      /\ 3 \in BitsOf(v) <=> b3 = 1
  BY <1>4, <1>5, <1>6 DEF BitsOf
<1>8. 0 .. 3 = {0, 1, 2, 3}
  OBVIOUS
<1> QED
  BY <1>2, <1>3, <1>4, <1>7, <1>8

\* The digits of a group are those of the whole mask, higher up.
LEMMA GroupDigits ==
    ASSUME NEW S, S \subseteq 0 .. nmaskbits - 1, NEW g \in 1 .. Groups,
           NEW w \in Nat, CHUNKSZ = 4 * w,
           NEW m \in Nat, m < (GroupBits(g) + 3) \div 4
    PROVE  Nibble(Group(S, g), m) = Nibble(S, w * (g - 1) + m)
<1>1. /\ Groups \in Nat /\ nmaskbits \in Nat /\ nmaskbits = CHUNKSZ * (Groups - 1) + GroupBits(Groups)
      /\ GroupBits(g) \in 1 .. CHUNKSZ /\ (g # Groups => GroupBits(g) = CHUNKSZ)
      /\ CHUNKSZ \in Nat
  BY GroupFacts, WidthAssumption
<1> DEFINE base == w * (g - 1)
<1>2. base \in Nat /\ CHUNKSZ * (g - 1) = 4 * base
  BY <1>1
<1> HIDE DEF base
<1>3. ASSUME NEW r \in 0 .. 3
      PROVE  4 * m + r \in Group(S, g) <=> 4 * (base + m) + r \in S
  <2>1. 4 * m + r \in Int /\ 4 * m + r >= 0 /\ 4 * m + r + CHUNKSZ * (g - 1) = 4 * (base + m) + r
    BY <1>2
  <2>2. 4 * m + r \in Group(S, g) <=> 4 * m + r <= GroupBits(g) - 1 /\ 4 * (base + m) + r \in S
    BY <1>1, <2>1 DEF Group
  <2>3. ASSUME 4 * (base + m) + r \in S PROVE 4 * m + r <= GroupBits(g) - 1
    <3>1. CASE g = Groups
      <4>1. 4 * (base + m) + r < nmaskbits
        <5>1. 4 * (base + m) + r \in 0 .. nmaskbits - 1
          BY <2>3
        <5> QED
          BY <1>1, <5>1
      <4> QED
        BY <1>1, <1>2, <3>1, <4>1
    <3>2. CASE g # Groups
      BY <1>1, <3>2
    <3> QED
      BY <3>1, <3>2
  <2> QED
    BY <2>2, <2>3
<1>4. /\ 4 * m + 0 \in Group(S, g) <=> 4 * (base + m) + 0 \in S
      /\ 4 * m + 1 \in Group(S, g) <=> 4 * (base + m) + 1 \in S
      /\ 4 * m + 2 \in Group(S, g) <=> 4 * (base + m) + 2 \in S
      /\ 4 * m + 3 \in Group(S, g) <=> 4 * (base + m) + 3 \in S
  BY <1>3
<1>5. Nibble(Group(S, g), m) = Nibble(S, base + m)
  BY <1>4, Zenon DEF Nibble
<1> QED
  BY <1>5 DEF base

HexChars == { Digits[d + 1] : d \in 0 .. 15 }

LEMMA HexCharsFacts ==
    /\ \A c \in HexChars : c # Comma
    /\ \A d \in 0 .. 15 : Digits[1 + d] \in HexChars /\ Digits[1 + d] = Digits[d + 1]
<1>1. \A c \in HexChars : c # Comma
  BY DigitsDiffer DEF HexChars
<1>2. ASSUME NEW d \in 0 .. 15 PROVE Digits[1 + d] \in HexChars /\ Digits[1 + d] = Digits[d + 1]
  <2>1. 1 + d = d + 1
    OBVIOUS
  <2> QED
    BY <2>1 DEF HexChars
<1> QED
  BY <1>1, <1>2

\* D is the part of the mask S from nibble `base' up, and S has nothing above it.
HexOf(S, base, D) ==
    /\ D \in Seq(HexChars)
    /\ \A k \in 1 .. Len(D) : D[k] = Digits[1 + Nibble(S, base + (Len(D) - k))]
    /\ \A k \in S : k >= 4 * base => k < 4 * (base + Len(D))

HexOfGroup(S, g) == Hex(Group(S, g), (GroupBits(g) + 3) \div 4)

\* What bitmap_scnprintf prints of a group.
LEMMA HexGroup ==
    ASSUME NEW S, S \subseteq 0 .. nmaskbits - 1, NEW g \in 1 .. Groups,
           NEW w \in Nat, CHUNKSZ = 4 * w
    PROVE  /\ HexOfGroup(S, g) \in Seq(HexChars)
           /\ Len(HexOfGroup(S, g)) = (GroupBits(g) + 3) \div 4
           /\ \A k \in 1 .. (GroupBits(g) + 3) \div 4 :
                 HexOfGroup(S, g)[k] = Digits[1 + Nibble(S, w * (g - 1)
                                                   + (((GroupBits(g) + 3) \div 4) - k))]
<1> DEFINE n == (GroupBits(g) + 3) \div 4
           H == HexOfGroup(S, g)
           D(k) == Digits[1 + Nibble(Group(S, g), n - k)]
<1>1. n \in Nat /\ GroupBits(g) \in Nat
  BY GroupFacts, WidthAssumption
<1>2. H = [k \in 1 .. n |-> D(k)]
  BY DEF HexOfGroup, Hex
<1>3. ASSUME NEW k \in 1 .. n
      PROVE  D(k) = Digits[1 + Nibble(S, w * (g - 1) + (n - k))] /\ D(k) \in HexChars
  <2>1. n - k \in Nat /\ n - k < n
    BY <1>1
  <2>2. Nibble(Group(S, g), n - k) = Nibble(S, w * (g - 1) + (n - k))
    BY <2>1, GroupDigits
  <2>3. Nibble(Group(S, g), n - k) \in 0 .. 15
    BY <2>1, NibbleFacts
  <2> HIDE DEF n
  <2> QED
    BY <2>2, <2>3, HexCharsFacts
<1> HIDE DEF D, n
<1>4. H \in Seq(HexChars) /\ Len(H) = n /\ \A k \in 1 .. n : H[k] = D(k)
  BY <1>1, <1>2, <1>3
<1> HIDE DEF H
<1>5. /\ H \in Seq(HexChars) /\ Len(H) = n
      /\ \A k \in 1 .. n : H[k] = Digits[1 + Nibble(S, w * (g - 1) + (n - k))]
  BY <1>3, <1>4, Zenon
<1> QED
  BY <1>5, Zenon DEF n, H

\* Where a group is, in nibbles.
LEMMA GroupPlace ==
    ASSUME NEW g \in 1 .. Groups, NEW w \in Nat, CHUNKSZ = 4 * w
    PROVE  /\ w * (g - 1) \in Nat /\ w * g = w * (g - 1) + w
           /\ CHUNKSZ * (g - 1) = 4 * (w * (g - 1))
           /\ GroupBits(g) \in Nat /\ nmaskbits \in Nat
           /\ g # Groups => GroupBits(g) = 4 * w
           /\ g = Groups => nmaskbits = 4 * (w * (g - 1)) + GroupBits(g)
<1>1. /\ Groups \in Nat /\ GroupBits(g) \in 1 .. CHUNKSZ
      /\ nmaskbits \in Nat /\ nmaskbits = CHUNKSZ * (Groups - 1) + GroupBits(Groups)
      /\ (g # Groups => GroupBits(g) = CHUNKSZ)
  BY GroupFacts, WidthAssumption
<1>2. g \in Nat /\ g >= 1
  BY <1>1
<1>3. w * (g - 1) \in Nat /\ w * g = w * (g - 1) + w
  BY <1>2
<1>4. CHUNKSZ * (g - 1) = 4 * (w * (g - 1))
  BY <1>2
<1>5. GroupBits(g) \in Nat
  BY <1>1, WidthAssumption
<1>6. ASSUME g = Groups PROVE nmaskbits = 4 * (w * (g - 1)) + GroupBits(g)
  BY <1>1, <1>4, <1>6, Zenon
<1>7. g # Groups => GroupBits(g) = 4 * w
  BY <1>1
<1> QED
  BY <1>1, <1>3, <1>4, <1>5, <1>6, <1>7, Zenon

LEMMA HexJoined ==
    \A D, H : D \in Seq(HexChars) /\ H \in Seq(HexChars) =>
        /\ D \o H \in Seq(HexChars) /\ Len(D \o H) = Len(D) + Len(H)
        /\ \A k \in 1 .. Len(D) + Len(H) :
              (D \o H)[k] = IF k <= Len(D) THEN D[k] ELSE H[k - Len(D)]
  BY ConcatFacts

\* A group more.
LEMMA HexOfNext ==
    ASSUME NEW S, S \subseteq 0 .. nmaskbits - 1, NEW g \in 1 .. Groups,
           NEW w \in Nat, CHUNKSZ = 4 * w, NEW D, HexOf(S, w * g, D),
           g = Groups => D = <<>>
    PROVE  HexOf(S, w * (g - 1), D \o HexOfGroup(S, g))
<1> DEFINE H == HexOfGroup(S, g)
           E == D \o H
           base == w * (g - 1)
           n == (GroupBits(g) + 3) \div 4
<1>2. /\ base \in Nat /\ w * g = base + w
      /\ GroupBits(g) \in Nat /\ nmaskbits \in Nat
      /\ g # Groups => GroupBits(g) = 4 * w
      /\ g = Groups => nmaskbits = 4 * base + GroupBits(g)
  BY GroupPlace, Zenon
<1>3. n \in Nat /\ 4 * n >= GroupBits(g) /\ (g # Groups => n = w)
  <2> DEFINE b == GroupBits(g)
  <2>1. b \in Nat /\ (g # Groups => b = 4 * w) /\ n = (b + 3) \div 4
    BY <1>2
  <2> HIDE DEF b, n, base
  <2>2. n \in Nat /\ 4 * n >= b
    BY <2>1
  <2>3. g # Groups => n = w
    BY <2>1
  <2> QED
    BY <2>2, <2>3 DEF b
<1>4. /\ H \in Seq(HexChars) /\ Len(H) = n
      /\ \A k \in 1 .. n : H[k] = Digits[1 + Nibble(S, base + (n - k))]
  BY HexGroup, Zenon
<1>5. /\ D \in Seq(HexChars) /\ Len(D) \in Nat
      /\ \A k \in 1 .. Len(D) : D[k] = Digits[1 + Nibble(S, (base + w) + (Len(D) - k))]
      /\ \A k \in S : k >= 4 * (base + w) => k < 4 * ((base + w) + Len(D))
  <2> HIDE DEF base
  <2>1. HexOf(S, base + w, D)
    BY <1>2, Zenon
  <2>2. /\ D \in Seq(HexChars)
        /\ \A k \in 1 .. Len(D) : D[k] = Digits[1 + Nibble(S, (base + w) + (Len(D) - k))]
        /\ \A k \in S : k >= 4 * (base + w) => k < 4 * ((base + w) + Len(D))
    BY <2>1, Zenon DEF HexOf
  <2> QED
    BY <2>2
<1>6. g = Groups => Len(D) = 0
  OBVIOUS
<1> HIDE DEF H, base, n
<1>7. /\ E \in Seq(HexChars) /\ Len(E) = Len(D) + n
      /\ \A k \in 1 .. Len(D) + n : E[k] = IF k <= Len(D) THEN D[k] ELSE H[k - Len(D)]
  <2>1. D \in Seq(HexChars) /\ H \in Seq(HexChars) /\ Len(H) = n
    BY <1>4, <1>5
  <2>2. /\ E \in Seq(HexChars) /\ Len(E) = Len(D) + Len(H)
        /\ \A k \in 1 .. Len(D) + Len(H) :
              E[k] = IF k <= Len(D) THEN D[k] ELSE H[k - Len(D)]
    BY <2>1, HexJoined, Zenon
  <2> HIDE DEF E
  <2> QED
    BY <2>1, <2>2, Zenon
<1> HIDE DEF E
<1>8. ASSUME NEW k \in 1 .. Len(E)
      PROVE  E[k] = Digits[1 + Nibble(S, base + (Len(E) - k))]
  <2>1. k \in 1 .. Len(D) + n
    BY <1>7
  <2>2. CASE k <= Len(D)
    <3>1. g # Groups /\ n = w
      BY <1>3, <1>5, <1>6, <2>1, <2>2
    <3>2. (base + w) + (Len(D) - k) = base + (Len(E) - k) /\ k \in 1 .. Len(D)
      BY <1>2, <1>5, <1>7, <2>1, <2>2, <3>1
    <3>3. E[k] = D[k]
      BY <1>7, <2>1, <2>2
    <3> QED
      BY <1>5, <3>2, <3>3
  <2>3. CASE ~(k <= Len(D))
    <3>1. /\ k - Len(D) \in 1 .. n
          /\ base + (n - (k - Len(D))) = base + (Len(E) - k)
      BY <1>2, <1>3, <1>5, <1>7, <2>1, <2>3
    <3>2. E[k] = H[k - Len(D)]
      BY <1>7, <2>1, <2>3
    <3> QED
      BY <1>4, <3>1, <3>2
  <2> QED
    BY <2>2, <2>3
<1>9. ASSUME NEW k \in S, k >= 4 * base PROVE k < 4 * (base + Len(E))
  <2>0. k \in 0 .. nmaskbits - 1
    OBVIOUS
  <2>1. CASE g = Groups
    <3>1. k < 4 * base + GroupBits(g)
      BY <1>2, <2>0, <2>1
    <3> QED
      BY <1>2, <1>3, <1>5, <1>7, <2>0, <3>1
  <2>2. CASE g # Groups
    <3>1. n = w
      BY <1>3, <2>2
    <3>2. CASE k >= 4 * (base + w)
      BY <1>2, <1>3, <1>5, <1>7, <2>0, <3>1, <3>2
    <3>3. CASE ~(k >= 4 * (base + w))
      BY <1>2, <1>3, <1>5, <1>7, <2>0, <3>1, <3>3
    <3> QED
      BY <3>2, <3>3
  <2> QED
    BY <2>1, <2>2
<1>10. HexOf(S, base, E)
  BY <1>7, <1>8, <1>9 DEF HexOf
<1> QED
  BY <1>10 DEF base, E, H

\* Nothing is printed of groups of zeros in front.
LEMMA HexOfZeros ==
    ASSUME NEW S, S \subseteq 0 .. nmaskbits - 1, NEW g \in 1 .. Groups,
           NEW w \in Nat, CHUNKSZ = 4 * w, HexOf(S, w * g, <<>>), Group(S, g) = {}
    PROVE  HexOf(S, w * (g - 1), <<>>)
<1> DEFINE base == w * (g - 1)
<1>2. /\ base \in Nat /\ w * g = base + w /\ CHUNKSZ * (g - 1) = 4 * base
      /\ GroupBits(g) \in Nat /\ nmaskbits \in Nat
      /\ g # Groups => GroupBits(g) = 4 * w
      /\ g = Groups => nmaskbits = 4 * base + GroupBits(g)
  BY GroupPlace, Zenon
<1>3. \A k \in S : k >= 4 * (base + w) => k < 4 * (base + w)
  <2> HIDE DEF base
  <2> QED
    BY <1>2 DEF HexOf
<1> HIDE DEF base
<1>4. ASSUME NEW k \in S, k >= 4 * base PROVE FALSE
  <2>0. k \in 0 .. nmaskbits - 1
    OBVIOUS
  <2>1. k < 4 * (base + w)
    BY <1>2, <1>3, <2>0
  <2>2. k - 4 * base \in 0 .. GroupBits(g) - 1
    <3>1. CASE g = Groups
      BY <1>2, <1>4, <2>0, <3>1
    <3>2. CASE g # Groups
      BY <1>2, <1>4, <2>0, <2>1, <3>2
    <3> QED
      BY <3>1, <3>2
  <2>3. (k - 4 * base) + CHUNKSZ * (g - 1) = k
    BY <1>2, <2>0
  <2> QED
    BY <2>2, <2>3 DEF Group
<1>5. Len(<<>>) = 0 /\ <<>> \in Seq(HexChars)
  OBVIOUS
<1>6. HexOf(S, base, <<>>)
  BY <1>4, <1>5 DEF HexOf
<1> QED
  BY <1>6 DEF base

\* What bitmap_scnprintf prints of group g.
ShownGroup(S, g) ==
    LET first == \A h \in g + 1 .. Groups : Group(S, h) = {}
    IN  IF first /\ Group(S, g) = {} /\ g # 1 THEN <<>> ELSE GroupText(S, g, first)

LEMMA ShownFacts ==
    ASSUME NEW S, S \subseteq 0 .. nmaskbits - 1, NEW g \in 1 .. Groups
    PROVE  /\ ShownGroup(S, g) \in Seq(HexChars \cup {Comma})
           /\ (\A h \in g .. Groups : Group(S, h) = {}) /\ g # 1 => ShownGroup(S, g) = <<>>
           /\ (\E h \in g .. Groups : Group(S, h) # {}) \/ g = 1 =>
                 Strip(ShownGroup(S, g)) = HexOfGroup(S, g)
<1> DEFINE C == HexChars \cup {Comma}
           first == \A h \in g + 1 .. Groups : Group(S, h) = {}
           H == HexOfGroup(S, g)
           pre == IF first THEN <<>> ELSE <<Comma>>
<1>1. Groups \in Nat /\ g \in Nat /\ g .. Groups = {g} \cup (g + 1 .. Groups)
  BY GroupFacts
<1>2. PICK w \in Nat : CHUNKSZ = 4 * w
  <2>1. CHUNKSZ \div 4 \in Nat /\ CHUNKSZ = 4 * (CHUNKSZ \div 4)
    BY WidthAssumption
  <2> QED
    BY <2>1
<1>3. H \in Seq(HexChars)
  BY <1>2, HexGroup
<1>4. H \in Seq(C) /\ pre \in Seq(C) /\ \A k \in 1 .. Len(H) : H[k] # Comma
  <2>1. HexChars \subseteq C /\ Comma \in C
    OBVIOUS
  <2> HIDE DEF H, first, C
  <2>2. \A k \in 1 .. Len(H) : H[k] \in HexChars
    BY <1>3
  <2>3. H \in Seq(C)
    BY <1>3, <2>1
  <2>4. pre \in Seq(C)
    BY <2>1
  <2> QED
    BY <2>2, <2>3, <2>4, HexCharsFacts
<1>5. Strip(pre) = <<>> /\ Strip(H) = H
  <2>1. Strip(H) = H
    <3> HIDE DEF H
    <3> QED
      BY <1>4, StripParts
  <2>2. Strip(pre) = <<>>
    <3> HIDE DEF first
    <3> QED
      BY StripParts
  <2> QED
    BY <2>1, <2>2
<1>6. GroupText(S, g, first) = pre \o H
  BY DEF GroupText, HexOfGroup
<1>7. ShownGroup(S, g) = IF first /\ Group(S, g) = {} /\ g # 1 THEN <<>> ELSE pre \o H
  <2> HIDE DEF pre, H
  <2> QED
    BY <1>6 DEF ShownGroup
<1>8. (\A h \in g .. Groups : Group(S, h) = {}) <=> first /\ Group(S, g) = {}
  BY <1>1
<1> HIDE DEF pre, H, first, C
<1>9. pre \o H \in Seq(C) /\ <<>> \in Seq(C)
  BY <1>4, ConcatFacts
<1>10. Strip(pre \o H) = H
  <2>1. Strip(pre \o H) = Strip(pre) \o Strip(H)
    BY <1>4, StripConcat
  <2>2. <<>> \o H = H
    BY <1>4, ConcatEmptySeq
  <2> QED
    BY <1>5, <2>1, <2>2
<1> QED
  BY <1>7, <1>8, <1>9, <1>10, Zenon DEF C, H

\* The interface reads the mask that the daemon printed: parse_setup and hex_to_bitmap
\* undo bitmap_scnprintf.
LEMMA MaskRead ==
    ASSUME NEW S, S \subseteq 0 .. nmaskbits - 1
    PROVE  parse_banned(bitmap_scnprintf(S)) = S
<1> DEFINE C == HexChars \cup {Comma}
           n == Groups
           zero(g) == \A h \in g .. n : Group(S, h) = {}
           ss == [j \in 1 .. n |-> ShownGroup(S, n + 1 - j)]
<1>1. n \in Nat /\ n >= 1
  BY GroupFacts
<1>2. PICK w \in Nat : CHUNKSZ = 4 * w
  <2>1. CHUNKSZ \div 4 \in Nat /\ CHUNKSZ = 4 * (CHUNKSZ \div 4)
    BY WidthAssumption
  <2> QED
    BY <2>1
<1>3. bitmap_scnprintf(S) = FlattenSeq(ss)
  BY DEF bitmap_scnprintf, ShownGroup
<1>4. ss \in Seq(Seq(C)) /\ Len(ss) = n /\ \A j \in 1 .. n : ss[j] = ShownGroup(S, n + 1 - j)
  <2>1. \A j \in 1 .. n : n + 1 - j \in 1 .. n
    BY <1>1
  <2>2. \A j \in 1 .. n : ShownGroup(S, n + 1 - j) \in Seq(C)
    BY <2>1, ShownFacts
  <2> HIDE DEF C, n
  <2> QED
    BY <1>1, <2>2
<1> HIDE DEF ss
<1>5. PICK f : Joins(f, ss, C) /\ f[n] = FlattenSeq(ss)
  <2> HIDE DEF C, n
  <2> QED
    BY <1>4, FlattenTrace
<1>6. /\ f[0] = <<>> /\ \A j \in 0 .. n : f[j] \in Seq(C)
      /\ \A j \in 1 .. n : f[j] = f[j - 1] \o ShownGroup(S, n + 1 - j)
  <2> HIDE DEF C, n
  <2> QED
    BY <1>4, <1>5 DEF Joins
<1> DEFINE P(j) == /\ HexOf(S, w * (n - j), Strip(f[j]))
                   /\ j < n /\ zero(n - j + 1) => f[j] = <<>>
           T == { j \in 0 .. n : P(j) }
<1>7. 0 \in T
  <2>1. HexOf(S, w * n, <<>>)
    <3>1. w * n \in Nat /\ nmaskbits <= 4 * (w * n) /\ nmaskbits \in Nat
      <4>1. nmaskbits = CHUNKSZ * (n - 1) + GroupBits(n) /\ GroupBits(n) \in 1 .. CHUNKSZ
            /\ nmaskbits \in Nat
        BY GroupFacts, WidthAssumption
      <4>2. CHUNKSZ * (n - 1) + CHUNKSZ = 4 * (w * n) /\ w * n \in Nat
            /\ CHUNKSZ * (n - 1) \in Int
        BY <1>1, <1>2
      <4> HIDE DEF n
      <4> QED
        BY <1>2, <4>1, <4>2
    <3>2. ASSUME NEW k \in S PROVE ~(k >= 4 * (w * n))
      <4>1. k \in 0 .. nmaskbits - 1
        OBVIOUS
      <4> HIDE DEF n
      <4> QED
        BY <3>1, <4>1
    <3>3. <<>> \in Seq(HexChars) /\ Len(<<>>) = 0
      OBVIOUS
    <3> HIDE DEF n
    <3> QED
      BY <3>2, <3>3 DEF HexOf
  <2>2. n - 0 = n /\ 0 \in 0 .. n
    BY <1>1
  <2>3. P(0)
    <3> HIDE DEF n, zero
    <3> QED
      BY <1>6, <2>1, <2>2, StripParts
  <2> HIDE DEF P, n
  <2> QED
    BY <2>2, <2>3
<1>8. ASSUME NEW j \in 1 .. n, j - 1 \in T PROVE j \in T
  <2> DEFINE g == n + 1 - j
             D == Strip(f[j - 1])
             X == ShownGroup(S, g)
  <2>1. /\ g \in 1 .. n /\ g \in Int /\ j - 1 \in 0 .. n /\ j \in 0 .. n /\ n - (j - 1) = g /\ n - j = g - 1
        /\ (n - j) + 1 = g /\ (n - (j - 1)) + 1 = g + 1 /\ (j - 1 < n)
        /\ (g = n => j = 1) /\ (j < n <=> g # 1)
    BY <1>1
  <2>2. HexOf(S, w * g, D) /\ (zero(g + 1) => f[j - 1] = <<>>)
    <3>1. P(j - 1)
      BY <1>8
    <3> HIDE DEF n, zero, g
    <3> QED
      BY <2>1, <3>1
  <2>3. f[j] = f[j - 1] \o X /\ f[j - 1] \in Seq(C) /\ X \in Seq(C)
    <3> HIDE DEF n
    <3>1. X \in Seq(C)
      BY <2>1, ShownFacts DEF n
    <3> QED
      BY <1>6, <2>1, <3>1
  <2>4. Strip(f[j]) = D \o Strip(X)
    <3> HIDE DEF C, X
    <3> QED
      BY <2>3, StripConcat
  <2>5. zero(g) => zero(g + 1) /\ Group(S, g) = {}
    BY <1>1, <2>1
  <2>6. CASE zero(g) /\ g # 1
    <3>1. X = <<>> /\ f[j - 1] = <<>> /\ Group(S, g) = {}
      <4>1. X = <<>>
        BY <2>1, <2>6, ShownFacts
      <4> QED
        BY <2>2, <2>5, <2>6, <4>1
    <3>2. f[j] = <<>>
      BY <2>3, <3>1
    <3>3. D = <<>> /\ Strip(f[j]) = <<>>
      BY <3>1, <3>2, StripParts
    <3>4. HexOf(S, w * (g - 1), <<>>)
      <4> HIDE DEF g, D
      <4> QED
        BY <1>2, <2>1, <2>2, <3>1, <3>3, HexOfZeros
    <3>5. P(j)
      <4> HIDE DEF g, zero, n
      <4> QED
        BY <2>1, <3>2, <3>3, <3>4
    <3> HIDE DEF P
    <3> QED
      BY <2>1, <3>5
  <2>7. CASE ~(zero(g) /\ g # 1)
    <3>1. Strip(X) = HexOfGroup(S, g)
      BY <2>1, <2>7, ShownFacts
    <3>2. g = n => D = <<>>
      <4>1. ASSUME g = n PROVE D = <<>>
        <5>1. j - 1 = 0
          BY <2>1, <4>1
        <5> QED
          BY <1>6, <5>1, StripParts
      <4> QED
        BY <4>1
    <3>3. HexOf(S, w * (g - 1), D \o HexOfGroup(S, g))
      <4> HIDE DEF g, D
      <4> QED
        BY <1>2, <2>1, <2>2, <3>2, HexOfNext
    <3>4. HexOf(S, w * (n - j), Strip(f[j]))
      <4> HIDE DEF g, D, n, X
      <4> QED
        BY <2>1, <2>4, <3>1, <3>3
    <3>5. ~(j < n /\ zero(n - j + 1))
      <4> HIDE DEF g, n, zero
      <4> QED
        BY <2>1, <2>7
    <3>6. P(j)
      BY <3>4, <3>5
    <3> HIDE DEF P, g
    <3> QED
      BY <2>1, <3>6
  <2> QED
    BY <2>6, <2>7
<1>9. n \in T
  <2> HIDE DEF T, n
  <2>1. \A j \in 0 .. n : j \in T
    BY <1>1, <1>7, <1>8, InductionUpTo
  <2> QED
    BY <1>1, <2>1
<1> DEFINE D == Strip(bitmap_scnprintf(S))
           L == Len(D)
<1>10. HexOf(S, 0, D)
  <2>1. n - n = 0 /\ w * 0 = 0
    BY <1>1, <1>2
  <2>2. HexOf(S, w * (n - n), Strip(f[n]))
    BY <1>9
  <2> HIDE DEF n, ss
  <2> QED
    BY <1>3, <1>5, <2>1, <2>2
<1> HIDE DEF D, n, P, T, C, zero
<1>11. /\ D \in Seq(HexChars) /\ L \in Nat
       /\ \A k \in 1 .. L : D[k] = Digits[1 + Nibble(S, L - k)]
       /\ \A k \in S : k >= 0 => k < 4 * L
  <2>1. /\ D \in Seq(HexChars)
        /\ \A k \in 1 .. Len(D) : D[k] = Digits[1 + Nibble(S, 0 + (Len(D) - k))]
        /\ \A k \in S : k >= 4 * 0 => k < 4 * (0 + Len(D))
    BY <1>10, Zenon DEF HexOf
  <2>2. L \in Nat /\ \A k \in 1 .. L : 0 + (L - k) = L - k
    BY <2>1
  <2>3. \A k \in S : k >= 0 => k < 4 * L
    BY <2>1, <2>2
  <2> QED
    BY <2>1, <2>2, <2>3
<1> HIDE DEF L
<1>12. parse_banned(bitmap_scnprintf(S)) =
         { k \in 0 .. 4 * L - 1 :
             isxdigit(D[L - (k \div 4)]) /\ k % 4 \in BitsOf(unhex[D[L - (k \div 4)]]) }
  BY DEF parse_banned, Strip, D, L
<1>13. ASSUME NEW k \in 0 .. 4 * L - 1
       PROVE  (isxdigit(D[L - (k \div 4)]) /\ k % 4 \in BitsOf(unhex[D[L - (k \div 4)]]))
                 <=> k \in S
  <2> DEFINE m == k \div 4
             r == k % 4
  <2>1. m \in Nat /\ r \in 0 .. 3 /\ k = 4 * m + r /\ L - m \in 1 .. L /\ L - (L - m) = m
    BY <1>11
  <2> HIDE DEF m, r
  <2>2. D[L - m] = Digits[1 + Nibble(S, m)]
    BY <1>11, <2>1
  <2>3. Nibble(S, m) \in 0 .. 15 /\ (r \in BitsOf(Nibble(S, m)) <=> 4 * m + r \in S)
    BY <2>1, NibbleFacts
  <2>4. D[L - m] = Digits[Nibble(S, m) + 1]
    BY <2>2, <2>3, HexCharsFacts
  <2>5. isxdigit(D[L - m]) /\ unhex[D[L - m]] = Nibble(S, m)
    BY <2>3, <2>4, DigitFacts
  <2>6. (isxdigit(D[L - m]) /\ r \in BitsOf(unhex[D[L - m]])) <=> k \in S
    BY <2>1, <2>3, <2>5
  <2> QED
    BY <2>6 DEF m, r
<1>14. \A k \in S : k \in 0 .. 4 * L - 1
  <2> SUFFICES ASSUME NEW k \in S PROVE k \in 0 .. 4 * L - 1
    OBVIOUS
  <2>1. k \in 0 .. nmaskbits - 1
    OBVIOUS
  <2> QED
    BY <1>11, <2>1
<1> QED
  BY <1>12, <1>13, <1>14, Zenon

-----------------------------------------------------------------------------
(* Words                                                                   *)

\* strtok returns a part of the text, and all of a text without blanks.
LEMMA FirstWordFacts ==
    ASSUME NEW C, NEW text \in Seq(C)
    PROVE  /\ FirstWord(text) \in Seq(C)
           /\ (\A k \in 1 .. Len(text) : text[k] # Blank) => FirstWord(text) = text
<1> DEFINE n == Len(text)
           starts == { i \in 1 .. n : text[i] # Blank }
           i == CHOOSE k \in starts : \A j \in starts : k <= j
           ends == { k \in i .. n : \A j \in i .. k : text[j] # Blank }
           e == CHOOSE k \in ends : \A j \in ends : j <= k
<1>0. n \in Nat /\ \A k \in 1 .. n : text[k] \in C
  OBVIOUS
<1>1. FirstWord(text) = IF starts = {} THEN <<>> ELSE SubSeq(text, i, e)
  BY Zenon DEF FirstWord
<1>2. CASE starts = {}
  <2>1. FirstWord(text) = <<>>
    BY <1>1, <1>2
  <2>2. (\A k \in 1 .. n : text[k] # Blank) => n = 0
    BY <1>0, <1>2
  <2> QED
    BY <2>1, <2>2
<1>3. CASE starts # {}
  <2>1. i \in starts /\ \A j \in starts : i <= j
    <3>1. starts \subseteq Int /\ 0 \in Int /\ \A x \in starts : 0 <= x
      OBVIOUS
    <3> HIDE DEF starts
    <3>2. \E k \in starts : \A j \in starts : k <= j
      BY <1>3, <3>1, LeastNumber
    <3> QED
      BY <3>2
  <2>2. i \in 1 .. n /\ text[i] # Blank /\ i \in Nat
    BY <2>1
  <2> HIDE DEF i
  <2>3. e \in ends /\ \A j \in ends : j <= e
    <3>1. ends \subseteq 0 .. n /\ i \in ends /\ n \in Int
      BY <1>0, <2>2
    <3>2. ends # {}
      BY <3>1
    <3> HIDE DEF ends, n
    <3>3. Max(ends) \in ends /\ \A j \in ends : j <= Max(ends)
      BY <3>1, <3>2, MaxFacts, Zenon
    <3> QED
      BY <3>3
  <2>4. e \in i .. n
    BY <2>3
  <2>5. (\A k \in 1 .. n : text[k] # Blank) => i = 1 /\ e = n
    <3> SUFFICES ASSUME \A k \in 1 .. n : text[k] # Blank PROVE i = 1 /\ e = n
      OBVIOUS
    <3>1. 1 \in starts
      BY <1>0, <2>2
    <3>2. i = 1
      BY <2>1, <2>2, <3>1
    <3>3. n \in ends
      BY <1>0, <2>2
    <3> QED
      BY <1>0, <2>2, <2>3, <2>4, <3>2, <3>3
  <2> HIDE DEF e
  <2>6. SubSeq(text, i, e) \in Seq(C)
    BY <1>0, <2>2, <2>4
  <2>7. SubSeq(text, 1, n) = text
    BY <1>0
  <2> QED
    BY <1>1, <1>3, <2>5, <2>6, <2>7
<1> QED
  BY <1>2, <1>3

\* What the daemon bans for a list it was sent, and for a selection of cpus.
Listed(string) == IF string # <<>> THEN cpulist_parse(string) ELSE IsolatedCpus
Selected(cpus) == IF cpus = {} THEN IsolatedCpus ELSE cpus

\* A text without blanks is one word.
LEMMA OneWord ==
    ASSUME NEW text \in Seq(ListChars)
    PROVE  FirstWord(text) = text
<1>1. \A k \in 1 .. Len(text) : text[k] \in ListChars
  OBVIOUS
<1>2. \A k \in 1 .. Len(text) : text[k] # Blank
  BY <1>1, ListCharsFacts
<1> QED
  BY <1>2, FirstWordFacts

\* "settings cpus" with the text of the interface: the daemon takes the numbers of the
\* banned rows, or goes back to the isolated cpus when there is none.
LEMMA BanTextListed ==
    ASSUME NEW q \in Seq(0 .. nmaskbits - 1)
    PROVE  Listed(BanString(FirstWord(BanText(q)))) = Selected(Range(q))
<1> DEFINE text == BanText(q)
<1>1. /\ text \in Seq(ListChars) /\ text # <<>>
      /\ Head(text) = "NULL" <=> q = <<>>
      /\ q # <<>> => cpulist_parse(text) = Range(q)
  BY BanTextRead
<1> HIDE DEF text
<1>2. FirstWord(text) = text
  BY <1>1, OneWord
<1>3. Range(q) = {} <=> q = <<>>
  <2> DEFINE B == 0 .. nmaskbits - 1
  <2>1. q \in Seq(B)
    OBVIOUS
  <2> HIDE DEF B
  <2>2. q # <<>> => 1 \in DOMAIN q
    BY <2>1
  <2>3. q = <<>> => DOMAIN q = {}
    OBVIOUS
  <2> QED
    BY <2>2, <2>3 DEF Range
<1> QED
  BY <1>1, <1>2, <1>3 DEF Listed, Selected, BanString, text

\* What another client's list of one number means: with more of them only the first is
\* read.
OneCpuLists == \A list \in ClientLists : Len(list) = 1

LEMMA ClientListed ==
    ASSUME OneCpuLists, NEW list \in ClientLists
    PROVE  /\ Listed(BanString(FirstWord(ListText(list)))) = Selected(Range(list))
           /\ Range(list) \subseteq 0 .. nmaskbits - 1
<1> DEFINE B == 0 .. nmaskbits - 1
           v == list[1]
           t == Decimal(v)
<1>1. list \in Seq(B) /\ Len(list) = 1
  BY ConsoleAssumption DEF OneCpuLists
<1> HIDE DEF B
<1>2. DOMAIN list = {1} /\ v \in B /\ Range(list) = {v}
  BY <1>1 DEF Range
<1>3. t \in Seq(ListChars) /\ t # <<>> /\ Head(t) # "NULL" /\ cpulist_parse(t) = {v}
  BY <1>2, OneCpuRead DEF B
<1> HIDE DEF t
<1>4. ListText(list) = t
  <2> DEFINE ss == [k \in 1 .. Len(list) |->
                       (IF k = 1 THEN <<>> ELSE <<Blank>>) \o Decimal(list[k])]
  <2>1. ss = [k \in 1 .. 1 |-> (IF k = 1 THEN <<>> ELSE <<Blank>>) \o Decimal(list[k])]
    BY <1>1
  <2>2. 1 \in 1 .. 1 /\ ss[1] = <<>> \o t
    BY <2>1 DEF t
  <2>3. <<>> \o t = t
    BY <1>3
  <2>4. ss = [k \in 1 .. 1 |-> t]
    <3>1. \A k \in 1 .. 1 : k = 1
      OBVIOUS
    <3> QED
      BY <2>1, <2>3, <3>1 DEF t
  <2>5. ListText(list) = FlattenSeq(ss)
    BY DEF ListText
  <2> HIDE DEF ss
  <2>6. ss \in Seq(Seq(ListChars)) /\ Len(ss) = 1
    BY <1>3, <2>4
  <2>7. PICK f : Joins(f, ss, ListChars) /\ f[1] = FlattenSeq(ss)
    BY <2>6, FlattenTrace
  <2>8. f[0] = <<>> /\ f[1] = f[0] \o ss[1]
    <3>1. 1 \in 1 .. Len(ss) /\ 1 - 1 = 0
      BY <2>6
    <3> QED
      BY <2>7, <3>1 DEF Joins
  <2> QED
    BY <2>2, <2>3, <2>5, <2>7, <2>8
<1>5. FirstWord(t) = t
  BY <1>3, OneWord
<1>6. Range(list) \subseteq 0 .. nmaskbits - 1 /\ Range(list) # {}
  BY <1>2 DEF B
<1> QED
  BY <1>2, <1>3, <1>4, <1>5, <1>6 DEF Listed, Selected, BanString

-----------------------------------------------------------------------------
(* The lists of the editors                                                *)

Row(S) == [number : S, is_banned : BOOLEAN]

\* The rows are in the order of their numbers.
Sorted(list) == \A j, k \in 1 .. Len(list) : j <= k => list[j].number <= list[k].number

\* Row k is number k - 1.
Straight(list) == Len(list) > 0 /\ \A k \in 1 .. Len(list) : list[k].number = k - 1

\* What goes to the end of a sorted list.
LEMMA SortedJoin ==
    ASSUME NEW S, S \subseteq Nat, NEW list \in Seq(Row(S)), NEW piece \in Seq(Row(S)),
           Sorted(list), NEW v \in Nat,
           \A k \in 1 .. Len(list) : list[k].number <= v,
           \A k \in 1 .. Len(piece) : piece[k].number = v
    PROVE  /\ list \o piece \in Seq(Row(S)) /\ Sorted(list \o piece)
           /\ \A k \in 1 .. Len(list \o piece) : (list \o piece)[k].number <= v
<1> DEFINE l == list \o piece
           m == Len(list)
<1>1. /\ l \in Seq(Row(S)) /\ m \in Nat /\ Len(piece) \in Nat /\ Len(l) = m + Len(piece)
      /\ \A k \in 1 .. m + Len(piece) :
            l[k] = IF k <= m THEN list[k] ELSE piece[k - m]
  BY ConcatFacts
<1>2. \A k \in 1 .. m : list[k].number \in Nat
  <2> SUFFICES ASSUME NEW k \in 1 .. m PROVE list[k].number \in Nat
    OBVIOUS
  <2>1. list[k] \in Row(S)
    OBVIOUS
  <2> QED
    BY <2>1 DEF Row
<1> HIDE DEF l, m
<1>3. \A k \in 1 .. Len(l) :
         /\ l[k] = IF k <= m THEN list[k] ELSE piece[k - m]
         /\ k > m => l[k].number = v
         /\ k <= m => l[k] = list[k] /\ l[k].number <= v /\ k \in 1 .. m
  <2> SUFFICES ASSUME NEW k \in 1 .. Len(l)
               PROVE  /\ l[k] = IF k <= m THEN list[k] ELSE piece[k - m]
                      /\ k > m => l[k].number = v
                      /\ k <= m => l[k] = list[k] /\ l[k].number <= v /\ k \in 1 .. m
    OBVIOUS
  <2>1. l[k] = IF k <= m THEN list[k] ELSE piece[k - m]
    BY <1>1
  <2>2. k > m => k - m \in 1 .. Len(piece)
    BY <1>1
  <2>3. k <= m => k \in 1 .. m
    BY <1>1
  <2> QED
    BY <1>1, <2>1, <2>2, <2>3 DEF m
<1>4. Sorted(l)
  <2> SUFFICES ASSUME NEW j \in 1 .. Len(l), NEW k \in 1 .. Len(l), j <= k
               PROVE  l[j].number <= l[k].number
    BY DEF Sorted
  <2>1. CASE k <= m
    BY <1>1, <1>3, <2>1 DEF Sorted, m
  <2>2. CASE k > m /\ j <= m
    BY <1>1, <1>3, <2>2
  <2>3. CASE k > m /\ j > m
    BY <1>1, <1>3, <2>3
  <2> QED
    BY <1>1, <2>1, <2>2, <2>3
<1>5. ASSUME NEW k \in 1 .. Len(l) PROVE l[k].number <= v
  <2>1. CASE k <= m
    BY <1>3, <2>1
  <2>2. CASE k > m
    BY <1>3, <2>2
  <2> QED
    BY <1>1, <2>1, <2>2
<1> QED
  BY <1>1, <1>4, <1>5 DEF l

\* The lists get_cpu, get_banned_cpu and get_all_irqs make: in order, with the numbers of
\* the two sets; and when the sets are parts of 0 .. n, every row is at its number.
LEMMA MergedFacts ==
    ASSUME NEW n \in Nat, NEW S, S \subseteq 0 .. n,
           NEW free, free \subseteq S, NEW banned, banned \subseteq S
    PROVE  /\ Merged(free, banned) \in Seq(Row(S)) /\ Sorted(Merged(free, banned))
           /\ S = 0 .. n /\ free = S \ banned => Straight(Merged(free, banned))
<1> DEFINE row(v, b) == <<[number |-> v, is_banned |-> b]>>
           rows(v) == (IF v \in free THEN row(v, FALSE) ELSE <<>>)
                        \o (IF v \in banned THEN row(v, TRUE) ELSE <<>>)
           top == Max(free \cup banned \cup {0})
           ss == [k \in 1 .. top + 1 |-> rows(k - 1)]
<1>1. top \in 0 .. n /\ \A x \in free \cup banned : x <= top
  <2> DEFINE A == free \cup banned \cup {0}
  <2>1. A # {} /\ A \subseteq 0 .. n /\ n \in Int
    OBVIOUS
  <2> HIDE DEF A
  <2>2. Max(A) \in A /\ \A x \in A : x <= Max(A)
    BY <2>1, MaxFacts, Zenon
  <2>3. Max(A) \in 0 .. n /\ top = Max(A)
    BY <2>1, <2>2 DEF A
  <2> QED
    BY <2>2, <2>3 DEF A
<1>2. Merged(free, banned) = FlattenSeq(ss)
  BY Zenon DEF Merged
<1> HIDE DEF top
<1>3. ASSUME NEW v \in Nat
      PROVE  /\ rows(v) \in Seq(Row(S)) /\ Len(rows(v)) \in Nat
             /\ \A k \in 1 .. Len(rows(v)) : rows(v)[k].number = v
             /\ v \in S /\ free = S \ banned => Len(rows(v)) = 1
  <2> DEFINE a == IF v \in free THEN row(v, FALSE) ELSE <<>>
             b == IF v \in banned THEN row(v, TRUE) ELSE <<>>
             R == rows(v)
  <2>1. /\ a \in Seq(Row(S)) /\ Len(a) = (IF v \in free THEN 1 ELSE 0)
        /\ \A k \in 1 .. Len(a) : a[k].number = v
    <3>1. v \in free => [number |-> v, is_banned |-> FALSE] \in Row(S)
      BY DEF Row
    <3>2. CASE v \in free
      BY <3>1, <3>2
    <3>3. CASE v \notin free
      BY <3>3
    <3> QED
      BY <3>2, <3>3
  <2>2. /\ b \in Seq(Row(S)) /\ Len(b) = (IF v \in banned THEN 1 ELSE 0)
        /\ \A k \in 1 .. Len(b) : b[k].number = v
    <3>1. v \in banned => [number |-> v, is_banned |-> TRUE] \in Row(S)
      BY DEF Row
    <3>2. CASE v \in banned
      BY <3>1, <3>2
    <3>3. CASE v \notin banned
      BY <3>3
    <3> QED
      BY <3>2, <3>3
  <2>3. R = a \o b
    OBVIOUS
  <2> HIDE DEF a, b, R
  <2>4. /\ R \in Seq(Row(S)) /\ Len(a) \in Nat /\ Len(b) \in Nat /\ Len(R) = Len(a) + Len(b)
        /\ \A k \in 1 .. Len(a) + Len(b) : R[k] = IF k <= Len(a) THEN a[k] ELSE b[k - Len(a)]
    BY <2>1, <2>2, <2>3, ConcatFacts
  <2>5. ASSUME NEW k \in 1 .. Len(R) PROVE R[k].number = v
    <3>1. CASE k <= Len(a)
      BY <2>1, <2>4, <3>1
    <3>2. CASE ~(k <= Len(a))
      <4>1. k - Len(a) \in 1 .. Len(b) /\ R[k] = b[k - Len(a)]
        BY <2>4, <3>2
      <4> QED
        BY <2>2, <4>1
    <3> QED
      BY <3>1, <3>2
  <2>6. v \in S /\ free = S \ banned => Len(R) = 1
    <3>1. v \in S /\ free = S \ banned => (v \in free <=> v \notin banned)
      OBVIOUS
    <3> QED
      BY <2>1, <2>2, <2>4, <3>1
  <2> QED
    BY <2>4, <2>5, <2>6 DEF R
<1> HIDE DEF rows
<1>4. /\ ss \in Seq(Seq(Row(S))) /\ Len(ss) = top + 1 /\ top + 1 \in Nat
      /\ \A k \in 1 .. top + 1 : ss[k] = rows(k - 1) /\ k - 1 \in Nat
  BY <1>1, <1>3
<1> HIDE DEF ss
<1>5. PICK f : Joins(f, ss, Row(S)) /\ f[top + 1] = FlattenSeq(ss)
  BY <1>4, FlattenTrace
<1>6. /\ f[0] = <<>> /\ \A i \in 0 .. top + 1 : f[i] \in Seq(Row(S))
      /\ \A i \in 1 .. top + 1 : f[i] = f[i - 1] \o rows(i - 1)
  BY <1>4, <1>5 DEF Joins
<1> DEFINE Q == S = 0 .. n /\ free = S \ banned
           P(i) == /\ Sorted(f[i]) /\ \A k \in 1 .. Len(f[i]) : f[i][k].number <= i
                   /\ Q => Len(f[i]) = i /\ \A k \in 1 .. i : f[i][k].number = k - 1
           T == { i \in 0 .. top + 1 : P(i) }
<1>7. 0 \in T
  <2>1. 0 \in 0 .. top + 1 /\ Len(f[0]) = 0
    BY <1>4, <1>6
  <2>2. P(0)
    BY <2>1 DEF Sorted
  <2> HIDE DEF P
  <2> QED
    BY <2>1, <2>2
<1>8. ASSUME NEW i \in 1 .. top + 1, i - 1 \in T PROVE i \in T
  <2> DEFINE l == f[i - 1]
             p == rows(i - 1)
  <2>1. i - 1 \in 0 .. top + 1 /\ i \in 0 .. top + 1 /\ i - 1 \in Nat /\ i \in Nat
    BY <1>4
  <2>2. P(i - 1)
    BY <1>8
  <2>3. /\ l \in Seq(Row(S)) /\ p \in Seq(Row(S)) /\ f[i] = l \o p
        /\ \A k \in 1 .. Len(p) : p[k].number = i - 1
    BY <1>3, <1>6, <2>1
  <2>4. Sorted(l) /\ \A k \in 1 .. Len(l) : l[k].number <= i - 1
    BY <2>2
  <2>5. S \subseteq Nat
    OBVIOUS
  <2> HIDE DEF l, p
  <2>6. Sorted(f[i]) /\ \A k \in 1 .. Len(f[i]) : f[i][k].number <= i - 1
    <3> HIDE DEF P, T, Q
    <3>1. Sorted(l \o p) /\ \A k \in 1 .. Len(l \o p) : (l \o p)[k].number <= i - 1
      BY <2>1, <2>3, <2>4, <2>5, SortedJoin
    <3> QED
      BY <2>3, <3>1
  <2>7. \A k \in 1 .. Len(f[i]) : f[i][k].number <= i
    <3> SUFFICES ASSUME NEW k \in 1 .. Len(f[i]) PROVE f[i][k].number <= i
      OBVIOUS
    <3>1. f[i] \in Seq(Row(S))
      BY <1>6, <2>1
    <3>2. f[i][k] \in Row(S)
      BY <3>1
    <3>3. f[i][k].number \in Nat /\ f[i][k].number <= i - 1
      BY <2>5, <2>6, <3>2 DEF Row
    <3> QED
      BY <2>1, <3>3
  <2>8. ASSUME Q PROVE Len(f[i]) = i /\ \A k \in 1 .. i : f[i][k].number = k - 1
    <3>1. Len(l) = i - 1 /\ \A k \in 1 .. i - 1 : l[k].number = k - 1
      BY <2>2, <2>8 DEF l
    <3>2. i - 1 \in S
      BY <1>1, <2>1, <2>8
    <3>3. Len(p) = 1 /\ 1 \in 1 .. Len(p) /\ p[1].number = i - 1
      <4>1. Len(p) = 1
        BY <1>3, <2>1, <2>8, <3>2, Zenon DEF p
      <4> HIDE DEF P, T, Q
      <4> QED
        BY <2>3, <4>1
    <3>4. Len(f[i]) = i /\ \A k \in 1 .. i : f[i][k] = IF k <= i - 1 THEN l[k] ELSE p[k - (i - 1)]
      <4> HIDE DEF P, T, Q
      <4>1. Len(f[i]) = Len(l) + Len(p) /\ \A k \in 1 .. Len(l) + Len(p) :
               f[i][k] = IF k <= Len(l) THEN l[k] ELSE p[k - Len(l)]
        BY <2>3, ConcatFacts
      <4>2. Len(l) + Len(p) = i /\ Len(l) = i - 1
        BY <2>1, <3>1, <3>3
      <4> QED
        BY <4>1, <4>2, Zenon
    <3>5. ASSUME NEW k \in 1 .. i PROVE f[i][k].number = k - 1
      <4>1. CASE k <= i - 1
        BY <3>1, <3>4, <4>1
      <4>2. CASE k = i
        <5>1. i - (i - 1) = 1 /\ ~(i <= i - 1) /\ i \in 1 .. i
          BY <2>1
        <5>2. f[i][i] = p[i - (i - 1)]
          BY <3>4, <5>1
        <5>3. f[i][i] = p[1]
          BY <5>1, <5>2
        <5> QED
          BY <3>3, <4>2, <5>3
      <4> QED
        BY <4>1, <4>2
    <3> QED
      BY <3>4, <3>5
  <2>9. P(i)
    BY <2>6, <2>7, <2>8
  <2> HIDE DEF P
  <2> QED
    BY <2>1, <2>9
<1>9. P(top + 1)
  <2>1. \A i \in 0 .. top + 1 : i \in T
    <3> HIDE DEF T
    <3> QED
      BY <1>4, <1>7, <1>8, InductionUpTo
  <2>2. top + 1 \in T
    BY <1>4, <2>1
  <2> HIDE DEF P
  <2> QED
    BY <2>2
<1>10. f[top + 1] \in Seq(Row(S)) /\ Merged(free, banned) = f[top + 1]
  BY <1>2, <1>4, <1>5, <1>6
<1>11. Q => Straight(f[top + 1])
  BY <1>1, <1>9, <1>10 DEF Straight
<1> QED
  BY <1>9, <1>10, <1>11

\* The numbers of the banned rows, in order when the list is.
LEMMA BannedNumbersFacts ==
    ASSUME NEW S, S \subseteq Nat, NEW list \in Seq(Row(S))
    PROVE  /\ BannedNumbers(list) \in Seq(S)
           /\ Sorted(list) => \A j, k \in 1 .. Len(BannedNumbers(list)) :
                                 j <= k => BannedNumbers(list)[j] <= BannedNumbers(list)[k]
<1> DEFINE n == Len(list)
           piece(k) == IF list[k].is_banned THEN <<list[k].number>> ELSE <<>>
           ss == [k \in 1 .. n |-> piece(k)]
<1>1. n \in Nat /\ \A k \in 1 .. n : list[k].number \in S /\ list[k].number \in Nat
  <2>1. n \in Nat /\ \A k \in 1 .. n : list[k] \in Row(S)
    OBVIOUS
  <2> HIDE DEF n
  <2> QED
    BY <2>1 DEF Row
<1>2. BannedNumbers(list) = FlattenSeq(ss)
  BY DEF BannedNumbers
<1>0. Sorted(list) => \A j, k \in 1 .. n : j <= k => list[j].number <= list[k].number
  BY DEF Sorted
<1> HIDE DEF n
<1>3. ss \in Seq(Seq(S)) /\ Len(ss) = n /\ \A k \in 1 .. n : ss[k] = piece(k)
  <2>1. \A k \in 1 .. n : piece(k) \in Seq(S)
    BY <1>1
  <2> HIDE DEF piece
  <2> QED
    BY <1>1, <2>1
<1> HIDE DEF ss
<1>4. PICK f : Joins(f, ss, S) /\ f[n] = FlattenSeq(ss)
  BY <1>3, FlattenTrace
<1>5. /\ f[0] = <<>> /\ \A i \in 0 .. n : f[i] \in Seq(S)
      /\ \A i \in 1 .. n : f[i] = f[i - 1] \o piece(i)
  BY <1>3, <1>4 DEF Joins
<1>6. ASSUME Sorted(list) PROVE \A j, k \in 1 .. Len(f[n]) : j <= k => f[n][j] <= f[n][k]
  <2> DEFINE P(i) == /\ \A j, k \in 1 .. Len(f[i]) : j <= k => f[i][j] <= f[i][k]
                     /\ \A j \in 1 .. Len(f[i]) : \A k \in i + 1 .. n : f[i][j] <= list[k].number
             T == { i \in 0 .. n : P(i) }
  <2>1. 0 \in T
    <3>1. 0 \in 0 .. n /\ Len(f[0]) = 0
      BY <1>1, <1>5
    <3>2. P(0)
      BY <3>1
    <3> HIDE DEF P
    <3> QED
      BY <3>1, <3>2
  <2>2. ASSUME NEW i \in 1 .. n, i - 1 \in T PROVE i \in T
    <3> DEFINE l == f[i - 1]
               x == list[i].number
    <3>1. /\ i - 1 \in 0 .. n /\ i \in 0 .. n /\ (i - 1) + 1 = i
          /\ \A k \in i + 1 .. n : k \in i .. n /\ k \in 1 .. n /\ i <= k
          /\ i \in i .. n
      BY <1>1
    <3>2. /\ \A j, k \in 1 .. Len(l) : j <= k => l[j] <= l[k]
          /\ \A j \in 1 .. Len(l) : \A k \in i .. n : l[j] <= list[k].number
      BY <2>2, <3>1
    <3>3. l \in Seq(S) /\ x \in S /\ x \in Nat /\ \A k \in i + 1 .. n : x <= list[k].number
      <4>1. \A k \in i + 1 .. n : x <= list[k].number
        BY <1>0, <1>6, <3>1
      <4> QED
        BY <1>1, <1>5, <3>1, <4>1
    <3> HIDE DEF l, x
    <3>4. CASE list[i].is_banned
      <4>1. f[i] = l \o <<x>>
        BY <1>5, <3>4 DEF l, x
      <4>2. /\ Len(l) \in Nat /\ Len(f[i]) = Len(l) + 1
            /\ \A k \in 1 .. Len(l) : f[i][k] = l[k] /\ f[i][k] \in Nat
            /\ f[i][Len(l) + 1] = x
        <5>1. <<x>> \in Seq(S) /\ Len(<<x>>) = 1 /\ <<x>>[1] = x
          BY <3>3
        <5>2. \A k \in 1 .. Len(l) : l[k] \in S
          BY <3>3
        <5>3. \A k \in 1 .. Len(l) : l[k] \in Nat
          BY <5>2
        <5> DEFINE y == <<x>>
        <5> HIDE DEF P, T, y
        <5>4. /\ Len(l) \in Nat /\ Len(f[i]) = Len(l) + Len(y)
              /\ \A k \in 1 .. Len(l) + Len(y) :
                    f[i][k] = IF k <= Len(l) THEN l[k] ELSE y[k - Len(l)]
          BY <3>3, <4>1, <5>1, ConcatFacts DEF y
        <5>5. Len(y) = 1 /\ y[1] = x
          BY <5>1 DEF y
        <5>6. Len(l) + 1 \in 1 .. Len(l) + Len(y) /\ (Len(l) + 1) - Len(l) = 1
              /\ ~(Len(l) + 1 <= Len(l))
              /\ \A k \in 1 .. Len(l) : k \in 1 .. Len(l) + Len(y) /\ k <= Len(l)
          BY <5>4, <5>5
        <5> QED
          BY <5>3, <5>4, <5>5, <5>6, Zenon
      <4>3. ASSUME NEW k \in 1 .. Len(f[i])
            PROVE  \/ k \in 1 .. Len(l) /\ f[i][k] = l[k] /\ f[i][k] \in Nat
                   \/ k = Len(l) + 1 /\ f[i][k] = x
        <5>1. k \in 1 .. Len(l) \/ k = Len(l) + 1
          BY <4>2
        <5> QED
          BY <4>2, <5>1, Zenon
      <4>4. \A k \in 1 .. Len(l) : l[k] <= x
        BY <3>1, <3>2 DEF x
      <4>5. ASSUME NEW j \in 1 .. Len(f[i]), NEW k \in 1 .. Len(f[i]), j <= k
            PROVE  f[i][j] <= f[i][k]
        <5>1. CASE k \in 1 .. Len(l)
          <6>1. j \in 1 .. Len(l)
            BY <4>2, <4>5, <5>1
          <6> QED
            BY <3>2, <4>2, <4>5, <5>1, <6>1
        <5>2. CASE k = Len(l) + 1 /\ j \in 1 .. Len(l)
          BY <4>2, <4>4, <5>2
        <5>3. CASE k = Len(l) + 1 /\ j = Len(l) + 1
          BY <3>3, <4>2, <5>3
        <5> QED
          BY <4>3, <5>1, <5>2, <5>3
      <4>6. ASSUME NEW j \in 1 .. Len(f[i]), NEW k \in i + 1 .. n
            PROVE  f[i][j] <= list[k].number
        <5>1. CASE j \in 1 .. Len(l)
          BY <3>1, <3>2, <4>2, <5>1
        <5>2. CASE j = Len(l) + 1
          BY <3>3, <4>2, <5>2
        <5> QED
          BY <4>3, <5>1, <5>2
      <4>7. P(i)
        BY <4>5, <4>6
      <4> HIDE DEF P
      <4> QED
        BY <3>1, <4>7
    <3>5. CASE ~list[i].is_banned
      <4>1. f[i] = l
        <5>1. f[i] = l \o <<>>
          BY <1>5, <3>5 DEF l
        <5>2. l \o <<>> = l
          BY <3>3, ConcatEmptySeq
        <5> QED
          BY <5>1, <5>2
      <4>2. P(i)
        BY <3>1, <3>2, <4>1
      <4> HIDE DEF P
      <4> QED
        BY <3>1, <4>2
    <3> QED
      BY <3>4, <3>5
  <2>3. n \in T
    <3> HIDE DEF T
    <3>1. \A i \in 0 .. n : i \in T
      BY <1>1, <2>1, <2>2, InductionUpTo
    <3> QED
      BY <1>1, <3>1
  <2> QED
    BY <2>3
<1>7. f[n] \in Seq(S) /\ BannedNumbers(list) = f[n]
  BY <1>1, <1>2, <1>4, <1>5
<1> QED
  BY <1>6, <1>7

IrqNumbers == 0 .. (INT \div 2) - 1

\* The irqs that are banned are those that were asked for, or irq 0 was in the way.
IrqsMeant(irqs, means) == irqs = means \/ (irqs = {0} /\ (means = {} \/ 0 \in means))

\* "settings ban irqs" with the text of the interface.
LEMMA IrqsParsed ==
    ASSUME NEW q \in Seq(IrqNumbers),
           \A j, k \in 1 .. Len(q) : j <= k => q[j] <= q[k]
    PROVE  /\ IrqsMeant(ParsedIrqs(Append(q, NONE)), Range(q))
           /\ ParsedIrqs(Append(q, NONE)) \subseteq IrqNumbers /\ Range(q) \subseteq IrqNumbers
<1> DEFINE n == Len(q)
           t == Append(q, NONE)
           N == { m \in 1 .. n + 1 : \A j \in 2 .. m : Value(t[j]) # 0 }
<1>0. IrqNumbers \subseteq Nat /\ 0 \in IrqNumbers
  BY ConsoleAssumption DEF IrqNumbers
<1>1. /\ n \in Nat /\ DOMAIN q = 1 .. n
      /\ \A k \in 1 .. n : q[k] \in IrqNumbers /\ q[k] \in Nat
  <2>1. n \in Nat /\ DOMAIN q = 1 .. n /\ \A k \in 1 .. n : q[k] \in IrqNumbers
    OBVIOUS
  <2> QED
    BY <1>0, <2>1, Zenon
<1>2. /\ Len(t) = n + 1 /\ t[n + 1] = NONE /\ \A k \in 1 .. n : t[k] = q[k]
  <2>1. q \in Seq(Int) /\ NONE \in Int
    BY <1>1 DEF NONE
  <2> QED
    BY <2>1
<1> HIDE DEF n, t
<1>3. /\ Value(t[n + 1]) = 0
      /\ \A k \in 1 .. n : Value(t[k]) = q[k]
  BY <1>1, <1>2 DEF Value, NONE
<1>4. ParsedIrqs(t) = { Value(t[k]) : k \in N }
  BY <1>2 DEF ParsedIrqs
<1>5. Range(q) = { q[k] : k \in 1 .. n }
  BY <1>1 DEF Range
<1>6. 1 \in N
  BY <1>1
<1>7. CASE n = 0
  <2>1. N = {1}
    BY <1>1, <1>6, <1>7
  <2>2. Value(t[1]) = 0
    BY <1>3, <1>7
  <2>3. ParsedIrqs(t) = {0}
    <3> HIDE DEF N
    <3> QED
      BY <1>4, <2>1, <2>2
  <2>4. Range(q) = {}
    BY <1>5, <1>7
  <2> QED
    BY <1>0, <2>3, <2>4 DEF IrqsMeant, t
<1>8. CASE n > 0 /\ \E k \in 2 .. n : q[k] = 0
  <2>1. PICK k \in 2 .. n : q[k] = 0
    BY <1>8
  <2>2. 1 \in 1 .. n /\ 2 \in 1 .. n /\ k \in 1 .. n /\ 1 <= 2 /\ 2 <= k
    BY <1>1
  <2>3. q[2] <= 0 /\ q[1] <= 0
    <3>1. q[2] <= q[k]
      BY <2>2 DEF n
    <3>2. q[1] <= q[k]
      BY <2>2 DEF n
    <3> QED
      BY <2>1, <3>1, <3>2
  <2>4. q[2] = 0 /\ q[1] = 0
    BY <1>1, <2>2, <2>3
  <2>5. ASSUME NEW m \in N PROVE m = 1
    <3>1. m # 1 => 2 \in 2 .. m
      BY <1>1
    <3>2. Value(t[2]) = 0
      BY <1>3, <2>2, <2>4
    <3> QED
      BY <3>1, <3>2
  <2>6. N = {1}
    <3> HIDE DEF N
    <3> QED
      BY <1>6, <2>5
  <2>7. ParsedIrqs(t) = {0}
    <3>1. Value(t[1]) = 0
      BY <1>3, <2>2, <2>4
    <3> HIDE DEF N
    <3> QED
      BY <1>4, <2>6, <3>1
  <2>8. 0 \in Range(q) /\ Range(q) \subseteq IrqNumbers
    BY <1>1, <1>5, <2>2, <2>4
  <2> QED
    BY <1>0, <2>7, <2>8 DEF IrqsMeant, t
<1>9. CASE n > 0 /\ \A k \in 2 .. n : q[k] # 0
  <2>1. ASSUME NEW m \in 1 .. n PROVE m \in N
    <3>1. \A j \in 2 .. m : j \in 2 .. n /\ j \in 1 .. n
      BY <1>1
    <3>2. \A j \in 2 .. m : Value(t[j]) # 0
      BY <1>3, <1>9, <3>1
    <3>3. m \in 1 .. n + 1
      BY <1>1
    <3> QED
      BY <3>2, <3>3
  <2>2. n + 1 \notin N
    <3>1. n + 1 \in 2 .. n + 1
      BY <1>1, <1>9
    <3> QED
      BY <1>3, <3>1
  <2>3. N = 1 .. n
    <3>1. ASSUME NEW m \in N PROVE m \in 1 .. n
      <4>1. m \in 1 .. n + 1 /\ m # n + 1
        BY <2>2
      <4> QED
        BY <1>1, <4>1
    <3> HIDE DEF N
    <3> QED
      BY <2>1, <3>1
  <2>4. ParsedIrqs(t) = Range(q)
    <3> HIDE DEF N
    <3> QED
      BY <1>3, <1>4, <1>5, <2>3
  <2>5. Range(q) \subseteq IrqNumbers
    BY <1>1, <1>5
  <2> QED
    BY <2>4, <2>5 DEF IrqsMeant, t
<1> QED
  BY <1>1, <1>7, <1>8, <1>9

\* An interval that an int can hold goes through int and uint64_t unchanged.
LEMMA SleepRead ==
    ASSUME NEW v \in Nat, v < INT \div 2
    PROVE  ToInt(ToUint64(ToInt(v))) = v
<1>1. INT \in Nat /\ INT >= 4 /\ INT \div 2 \in Nat /\ INT \div 2 < INT
  BY ConsoleAssumption
<1>2. UINT64 \in Nat /\ UINT64 >= INT
  <2>1. UINT64 \in Nat /\ UINT64 > 0 /\ UINT64 % INT = 0
    BY ConsoleAssumption
  <2>2. UINT64 < INT => UINT64 % INT = UINT64
    BY <1>1, <2>1
  <2> QED
    BY <1>1, <2>1, <2>2
<1>3. v % INT = v /\ v % UINT64 = v
  BY <1>1, <1>2
<1> QED
  BY <1>3 DEF ToInt, ToUint64

\* What the daemon makes of any number is an int.
LEMMA IntFacts ==
    ASSUME NEW v \in Int
    PROVE  ToInt(v) \in Int /\ ToInt(v) < INT \div 2 /\ ToUint64(v) \in Nat
<1>1. INT \in Nat /\ INT >= 4 /\ INT \div 2 \in Nat /\ INT = 2 * (INT \div 2)
  BY ConsoleAssumption
<1>2. UINT64 \in Nat /\ UINT64 > 0
  BY ConsoleAssumption
<1>3. v % INT \in 0 .. INT - 1 /\ v % UINT64 \in Nat
  BY <1>1, <1>2
<1> QED
  BY <1>1, <1>3 DEF ToInt, ToUint64

-----------------------------------------------------------------------------
(* The invariant.  S is a set that holds every cpu that may be banned.     *)

Universe(S) ==
    /\ Cpus \subseteq S /\ S \subseteq 0 .. nmaskbits - 1
    /\ \A list \in ClientLists : Range(list) \subseteq S

Requests(S) == [cpus : SUBSET S, lost : BOOLEAN, irqs : SUBSET IrqNumbers,
                left_out : SUBSET IrqNumbers, sleep : Nat]

\* The daemon: what it has in force or still has to put in force is what it was asked.
\* A list that was lost is in force until the next rescan.
DaemonInv(S) ==
    /\ asked \in Requests(S)
    /\ need_rescan \in BOOLEAN
    /\ banned_cpus \subseteq S /\ thermal_banned_cpus \subseteq S
    /\ cl_banned_irqs \subseteq IrqNumbers
    /\ Listed(cpu_ban_string) = Selected(IF asked.lost THEN {} ELSE asked.cpus)
    /\ ~need_rescan => banned_cpus = Selected(asked.cpus) \cup thermal_banned_cpus
    /\ ~need_rescan => db_banned = cl_banned_irqs
    /\ \E irqs : IrqsMeant(irqs, asked.irqs) /\ cl_banned_irqs = irqs \ asked.left_out
    /\ SleepAsAsked

\* A request that waits at the socket will be understood.
GoodRequest(r, S) ==
    /\ r.what = "sleep" => /\ r.value \in Int /\ r.means \in Nat
                           /\ r.means < INT \div 2 => ToInt(r.value) = r.means /\ r.means >= 1
    /\ r.what = "irqs" => /\ r.means \subseteq IrqNumbers
                          /\ ParsedIrqs(r.tokens) \subseteq IrqNumbers
                          /\ IrqsMeant(ParsedIrqs(r.tokens), r.means)
    /\ r.what = "cpus" => /\ r.means \subseteq S
                          /\ Listed(BanString(FirstWord(r.text))) = Selected(r.means)

QueueInv(S) ==
    /\ requests \in Seq(Range(requests))
    /\ \A k \in 1 .. Len(requests) : GoodRequest(requests[k], S)

Data == {"stats", "setup"}

\* The interface has at most one request for data under way, for the first of its calls.
MatchInv ==
    /\ \A k \in 1 .. Len(requests) :
          requests[k].what \in Data => /\ reply = Awaited /\ calls # <<>>
                                       /\ Head(calls) = requests[k].what
    /\ \A j, k \in 1 .. Len(requests) :
          requests[j].what \in Data /\ requests[k].what \in Data => j = k

\* An answer is for the first of the calls.
ReplyInv(S) ==
    /\ reply.got \in {"nothing", "awaited", "closed", "stats", "setup"}
    /\ reply.got = "nothing" => reply = Nothing
    /\ reply.got = "awaited" => reply = Awaited
    /\ reply.got = "closed" => reply = Closed
    /\ reply.got = "stats" => reply.cpus \subseteq Cpus /\ reply.irqs \subseteq Irqs
    /\ reply.got = "setup" => /\ reply.sleep \in Int /\ reply.irqs \subseteq IrqNumbers
                              /\ parse_banned(reply.mask) \subseteq S
    /\ reply.got \in Data => calls # <<>> /\ Head(calls) = reply.got

CopyInv(S) ==
    /\ setup \in [sleep : Int, irqs : SUBSET IrqNumbers, cpus : SUBSET S]
    /\ tree \in [cpus : SUBSET Cpus, irqs : SUBSET Irqs]
    /\ all_cpus \in Seq(Row(S))
    /\ all_irqs \in Seq(Row(IrqNumbers)) /\ Sorted(all_irqs)
    /\ editor = "cpus" => tmp \in Seq(Row(S))
    /\ editor = "irqs" => tmp \in Seq(Row(IrqNumbers)) /\ Sorted(tmp)

ConsoleInv(S) == DaemonInv(S) /\ QueueInv(S) /\ MatchInv /\ ReplyInv(S) /\ CopyInv(S)

\* What an action leaves alone.
LEMMA DaemonKept ==
    ASSUME NEW S, DaemonInv(S), UNCHANGED daemonVars, UNCHANGED asked
    PROVE  DaemonInv(S)'
  BY DEF DaemonInv, daemonVars, SleepAsAsked

LEMMA QueueKept ==
    ASSUME NEW S, QueueInv(S), UNCHANGED requests
    PROVE  QueueInv(S)'
  BY DEF QueueInv

LEMMA MatchKept ==
    ASSUME MatchInv, UNCHANGED requests, UNCHANGED reply, UNCHANGED calls
    PROVE  MatchInv'
  BY DEF MatchInv

LEMMA ReplyKept ==
    ASSUME NEW S, ReplyInv(S), UNCHANGED reply, UNCHANGED calls
    PROVE  ReplyInv(S)'
  BY DEF ReplyInv

LEMMA CopyKept ==
    ASSUME NEW S, CopyInv(S), UNCHANGED copyVars, UNCHANGED editor
    PROVE  CopyInv(S)'
  BY DEF CopyInv, copyVars

\* A sequence of anything, a request longer.
LEMMA AppendAny ==
    ASSUME NEW s, NEW r, s \in Seq(Range(s))
    PROVE  /\ Append(s, r) \in Seq(Range(Append(s, r)))
           /\ Len(s) \in Nat /\ Len(Append(s, r)) = Len(s) + 1
           /\ \A k \in 1 .. Len(s) : Append(s, r)[k] = s[k]
           /\ Append(s, r)[Len(s) + 1] = r
<1> DEFINE X == Range(s) \cup {r}
<1>1. s \in Seq(X) /\ r \in X
  <2>1. \A k \in 1 .. Len(s) : s[k] \in Range(s)
    OBVIOUS
  <2>2. Range(s) \subseteq X /\ r \in X
    OBVIOUS
  <2> HIDE DEF X
  <2> QED
    BY <2>1, <2>2
<1>2. Range(Append(s, r)) = X /\ Append(s, r) \in Seq(X)
  <2> HIDE DEF X
  <2>1. Append(s, r) \in Seq(X) /\ Range(Append(s, r)) = Range(s) \cup {r}
    BY <1>1, AppendFacts
  <2> QED
    BY <2>1 DEF X
<1>3. Len(s) \in Nat /\ Len(Append(s, r)) = Len(s) + 1
      /\ (\A k \in 1 .. Len(s) : Append(s, r)[k] = s[k])
      /\ Append(s, r)[Len(s) + 1] = r
  <2> HIDE DEF X
  <2> QED
    BY <1>1
<1> HIDE DEF X
<1> QED
  BY <1>2, <1>3

\* A request shorter.
LEMMA TailAny ==
    ASSUME NEW s, s \in Seq(Range(s)), s # <<>>
    PROVE  /\ Tail(s) \in Seq(Range(Tail(s)))
           /\ Len(s) \in Nat /\ Len(s) >= 1 /\ Len(Tail(s)) = Len(s) - 1
           /\ \A k \in 1 .. Len(s) - 1 : Tail(s)[k] = s[k + 1]
           /\ Head(s) = s[1]
<1> DEFINE X == Range(s)
<1>1. s \in Seq(X)
  OBVIOUS
<1> HIDE DEF X
<1>2. /\ Tail(s) \in Seq(X)
      /\ Len(s) \in Nat /\ Len(s) >= 1 /\ Len(Tail(s)) = Len(s) - 1
      /\ \A k \in 1 .. Len(s) - 1 : Tail(s)[k] = s[k + 1]
      /\ Head(s) = s[1]
  BY <1>1
<1>3. Tail(s) \in Seq(Range(Tail(s)))
  <2> DEFINE t == Tail(s)
  <2>1. t \in Seq(X)
    BY <1>2
  <2> HIDE DEF t
  <2>2. Len(t) \in Nat /\ DOMAIN t = 1 .. Len(t) /\ t = [k \in 1 .. Len(t) |-> t[k]]
    BY <2>1
  <2>3. \A k \in 1 .. Len(t) : t[k] \in Range(t)
    BY <2>2 DEF Range
  <2>4. t \in Seq(Range(t))
    BY <2>2, <2>3
  <2> QED
    BY <2>4 DEF t
<1> QED
  BY <1>2, <1>3

LEMMA QueueAppended ==
    ASSUME NEW S, NEW r, QueueInv(S), GoodRequest(r, S), requests' = Append(requests, r)
    PROVE  QueueInv(S)'
<1>1. /\ requests' \in Seq(Range(requests'))
      /\ Len(requests) \in Nat /\ Len(requests') = Len(requests) + 1
      /\ \A k \in 1 .. Len(requests) : requests'[k] = requests[k]
      /\ requests'[Len(requests) + 1] = r
  BY AppendAny DEF QueueInv
<1>2. ASSUME NEW k \in 1 .. Len(requests') PROVE GoodRequest(requests'[k], S)
  <2>1. k \in 1 .. Len(requests) \/ k = Len(requests) + 1
    BY <1>1
  <2> QED
    BY <1>1, <2>1 DEF QueueInv
<1> QED
  BY <1>1, <1>2 DEF QueueInv

LEMMA QueueServed ==
    ASSUME NEW S, QueueInv(S), requests # <<>>, requests' = Tail(requests)
    PROVE  QueueInv(S)' /\ GoodRequest(Head(requests), S)
<1>1. /\ requests' \in Seq(Range(requests'))
      /\ Len(requests) \in Nat /\ Len(requests) >= 1 /\ Len(requests') = Len(requests) - 1
      /\ \A k \in 1 .. Len(requests) - 1 : requests'[k] = requests[k + 1]
      /\ Head(requests) = requests[1]
  BY TailAny DEF QueueInv
<1>2. ASSUME NEW k \in 1 .. Len(requests') PROVE GoodRequest(requests'[k], S)
  <2>1. k \in 1 .. Len(requests) - 1 /\ k + 1 \in 1 .. Len(requests)
    BY <1>1
  <2> QED
    BY <1>1, <2>1 DEF QueueInv
<1>3. 1 \in 1 .. Len(requests)
  BY <1>1
<1> QED
  BY <1>1, <1>2, <1>3 DEF QueueInv

LEMMA MatchAppended ==
    ASSUME NEW S, NEW r, QueueInv(S), MatchInv, r.what \notin Data,
           requests' = Append(requests, r), UNCHANGED reply, UNCHANGED calls
    PROVE  MatchInv'
<1>1. /\ Len(requests) \in Nat /\ Len(requests') = Len(requests) + 1
      /\ \A k \in 1 .. Len(requests) : requests'[k] = requests[k]
      /\ requests'[Len(requests) + 1] = r
  BY AppendAny DEF QueueInv
<1>2. ASSUME NEW k \in 1 .. Len(requests'), requests'[k].what \in Data
      PROVE  k \in 1 .. Len(requests) /\ requests[k] = requests'[k]
  <2>1. k \in 1 .. Len(requests) \/ k = Len(requests) + 1
    BY <1>1
  <2> QED
    BY <1>1, <1>2, <2>1
<1> QED
  BY <1>2 DEF MatchInv

LEMMA MatchServed ==
    ASSUME NEW S, QueueInv(S), MatchInv, requests # <<>>, requests' = Tail(requests),
           Head(requests).what \in Data \/ (UNCHANGED reply /\ UNCHANGED calls)
    PROVE  MatchInv'
<1>1. /\ Len(requests) \in Nat /\ Len(requests) >= 1 /\ Len(requests') = Len(requests) - 1
      /\ \A k \in 1 .. Len(requests) - 1 : requests'[k] = requests[k + 1]
      /\ Head(requests) = requests[1]
  BY TailAny DEF QueueInv
<1>2. ASSUME NEW k \in 1 .. Len(requests')
      PROVE  /\ k + 1 \in 1 .. Len(requests) /\ requests'[k] = requests[k + 1]
             /\ 1 \in 1 .. Len(requests) /\ k + 1 # 1 /\ k \in Nat
  BY <1>1
<1>3. CASE Head(requests).what \in Data
  <2>1. ASSUME NEW k \in 1 .. Len(requests') PROVE requests'[k].what \notin Data
    BY <1>1, <1>2, <1>3 DEF MatchInv
  <2> QED
    BY <2>1 DEF MatchInv
<1>4. CASE UNCHANGED reply /\ UNCHANGED calls
  <2>1. ASSUME NEW j \in 1 .. Len(requests'), NEW k \in 1 .. Len(requests'),
               requests'[j].what \in Data, requests'[k].what \in Data
        PROVE  j = k
    <3>1. j + 1 = k + 1
      BY <1>2, <2>1 DEF MatchInv
    <3> QED
      BY <1>2, <3>1
  <2>2. ASSUME NEW k \in 1 .. Len(requests'), requests'[k].what \in Data
        PROVE  reply' = Awaited /\ calls' # <<>> /\ Head(calls') = requests'[k].what
    BY <1>2, <1>4, <2>2 DEF MatchInv
  <2> QED
    BY <2>1, <2>2 DEF MatchInv
<1> QED
  BY <1>3, <1>4

-----------------------------------------------------------------------------
(* The invariant is kept: the daemon and another client                    *)

LEMMA RescanKeeps ==
    ASSUME NEW S, Universe(S), ConsoleInv(S), Rescan
    PROVE  ConsoleInv(S)'
<1>1. DaemonInv(S) /\ QueueInv(S) /\ MatchInv /\ ReplyInv(S) /\ CopyInv(S)
  BY DEF ConsoleInv
<1>2. UNCHANGED requests /\ UNCHANGED reply /\ UNCHANGED calls /\ UNCHANGED copyVars
      /\ UNCHANGED editor
  BY DEF Rescan, screenVars
<1>3. DaemonInv(S)'
  <2> DEFINE wanted == IF asked.lost THEN {} ELSE asked.cpus
  <2>1. /\ asked \in Requests(S) /\ banned_cpus \subseteq S /\ thermal_banned_cpus \subseteq S
        /\ Listed(cpu_ban_string) = Selected(wanted)
    BY <1>1 DEF DaemonInv
  <2>2. WantedBans = thermal_banned_cpus \cup Selected(wanted)
    BY <2>1, Zenon DEF WantedBans, Listed
  <2>3. /\ need_rescan' = FALSE /\ banned_cpus' = thermal_banned_cpus \cup Selected(wanted)
        /\ db_banned' = cl_banned_irqs
        /\ asked' = [asked EXCEPT !.cpus = wanted, !.lost = FALSE]
        /\ UNCHANGED <<cpu_ban_string, thermal_banned_cpus, cl_banned_irqs, sleep_interval>>
    BY <2>2 DEF Rescan
  <2>4. wanted \in SUBSET S /\ IsolatedCpus \subseteq S
    BY <2>1, ConsoleAssumption DEF Requests, Universe
  <2> HIDE DEF wanted
  <2>5. /\ asked' \in Requests(S) /\ asked'.cpus = wanted /\ ~asked'.lost
        /\ asked'.irqs = asked.irqs /\ asked'.left_out = asked.left_out
        /\ asked'.sleep = asked.sleep
    BY <2>1, <2>3, <2>4 DEF Requests
  <2>6. Selected(wanted) \subseteq S
    BY <2>4 DEF Selected
  <2>7. /\ Listed(cpu_ban_string)' = Selected(IF asked'.lost THEN {} ELSE asked'.cpus)
        /\ banned_cpus' \subseteq S
        /\ banned_cpus' = Selected(asked'.cpus) \cup thermal_banned_cpus'
    BY <2>1, <2>3, <2>5, <2>6 DEF Listed
  <2> QED
    BY <1>1, <2>3, <2>5, <2>7 DEF DaemonInv, SleepAsAsked
<1> QED
  BY <1>1, <1>2, <1>3, QueueKept, MatchKept, ReplyKept, CopyKept DEF ConsoleInv

LEMMA ThermalKeeps ==
    ASSUME NEW S, Universe(S), ConsoleInv(S), Thermal
    PROVE  ConsoleInv(S)'
<1>1. DaemonInv(S) /\ QueueInv(S) /\ MatchInv /\ ReplyInv(S) /\ CopyInv(S)
  BY DEF ConsoleInv
<1>2. UNCHANGED requests /\ UNCHANGED reply /\ UNCHANGED calls /\ UNCHANGED copyVars
      /\ UNCHANGED editor
  BY DEF Thermal, screenVars
<1>3. DaemonInv(S)'
  <2>1. thermal_banned_cpus' \subseteq S
    BY ConsoleAssumption DEF Thermal, Universe
  <2>2. /\ need_rescan' = TRUE
        /\ UNCHANGED <<banned_cpus, cpu_ban_string, cl_banned_irqs, db_banned,
                       sleep_interval, asked>>
    BY DEF Thermal
  <2>3. UNCHANGED Listed(cpu_ban_string)
    BY <2>2 DEF Listed
  <2> QED
    BY <1>1, <2>1, <2>2, <2>3 DEF DaemonInv, SleepAsAsked
<1> QED
  BY <1>1, <1>2, <1>3, QueueKept, MatchKept, ReplyKept, CopyKept DEF ConsoleInv

LEMMA SendStatsKeeps ==
    ASSUME NEW S, Universe(S), ConsoleInv(S), SendStats
    PROVE  ConsoleInv(S)'
<1>1. DaemonInv(S) /\ QueueInv(S) /\ MatchInv /\ ReplyInv(S) /\ CopyInv(S)
  BY DEF ConsoleInv
<1>0. PICK cpus, irqs :
         reply' = [got |-> "stats", cpus |-> Cpus \ (banned_cpus \cup cpus),
                   irqs |-> Irqs \ (db_banned \cup irqs)]
  BY DEF SendStats
<1>2. /\ requests # <<>> /\ Head(requests).what = "stats" /\ requests' = Tail(requests)
      /\ UNCHANGED daemonVars /\ UNCHANGED asked /\ UNCHANGED calls
      /\ UNCHANGED copyVars /\ UNCHANGED editor
  BY DEF SendStats, Serves, screenVars
<1>3. QueueInv(S)' /\ MatchInv'
  BY <1>1, <1>2, QueueServed, MatchServed DEF Data
<1>4. calls # <<>> /\ Head(calls) = "stats"
  <2>1. 1 \in 1 .. Len(requests) /\ Head(requests) = requests[1]
    BY <1>1, <1>2, TailAny DEF QueueInv
  <2> QED
    BY <1>1, <1>2, <2>1 DEF MatchInv, Data
<1>5. ReplyInv(S)'
  <2>1. /\ reply'.got = "stats" /\ reply'.cpus \subseteq Cpus /\ reply'.irqs \subseteq Irqs
    BY <1>0
  <2> QED
    BY <1>2, <1>4, <2>1 DEF ReplyInv, Data
<1> QED
  BY <1>1, <1>2, <1>3, <1>5, DaemonKept, CopyKept DEF ConsoleInv

LEMMA SendSetupKeeps ==
    ASSUME NEW S, Universe(S), ConsoleInv(S), SendSetup
    PROVE  ConsoleInv(S)' /\ parse_banned(reply'.mask) = banned_cpus
<1>1. DaemonInv(S) /\ QueueInv(S) /\ MatchInv /\ ReplyInv(S) /\ CopyInv(S)
  BY DEF ConsoleInv
<1>0. PICK irqs \in SUBSET cl_banned_irqs :
         reply' = [got |-> "setup", sleep |-> sleep_interval, irqs |-> cl_banned_irqs \ irqs,
                   mask |-> bitmap_scnprintf(banned_cpus)]
  BY DEF SendSetup
<1>2. /\ requests # <<>> /\ Head(requests).what = "setup" /\ requests' = Tail(requests)
      /\ UNCHANGED daemonVars /\ UNCHANGED asked /\ UNCHANGED calls
      /\ UNCHANGED copyVars /\ UNCHANGED editor
  BY DEF SendSetup, Serves, screenVars
<1>3. QueueInv(S)' /\ MatchInv'
  BY <1>1, <1>2, QueueServed, MatchServed DEF Data
<1>4. calls # <<>> /\ Head(calls) = "setup"
  <2>1. 1 \in 1 .. Len(requests) /\ Head(requests) = requests[1]
    BY <1>1, <1>2, TailAny DEF QueueInv
  <2> QED
    BY <1>1, <1>2, <2>1 DEF MatchInv, Data
<1>5. /\ reply'.got = "setup" /\ reply'.sleep = sleep_interval
      /\ reply'.irqs \subseteq cl_banned_irqs /\ reply'.mask = bitmap_scnprintf(banned_cpus)
  BY <1>0
<1>6. parse_banned(reply'.mask) = banned_cpus
  <2>1. banned_cpus \subseteq 0 .. nmaskbits - 1
    BY <1>1 DEF DaemonInv, Universe
  <2>2. parse_banned(bitmap_scnprintf(banned_cpus)) = banned_cpus
    BY <2>1, MaskRead
  <2> QED
    BY <1>5, <2>2
<1>7. ReplyInv(S)'
  <2>1. sleep_interval \in Int /\ cl_banned_irqs \subseteq IrqNumbers /\ banned_cpus \subseteq S
    BY <1>1 DEF DaemonInv, SleepAsAsked
  <2>2. /\ reply'.sleep \in Int /\ reply'.irqs \subseteq IrqNumbers
        /\ parse_banned(reply'.mask) \subseteq S
    BY <1>5, <1>6, <2>1, Zenon
  <2> QED
    BY <1>2, <1>4, <1>5, <2>2, Zenon DEF ReplyInv, Data
<1> QED
  BY <1>1, <1>2, <1>3, <1>6, <1>7, DaemonKept, CopyKept DEF ConsoleInv

\* A setting that is served, or a request that is not.
LEMMA ServedKeeps ==
    ASSUME NEW S, Universe(S), ConsoleInv(S), Head(requests).what \notin Data,
           requests # <<>>, requests' = Tail(requests), UNCHANGED reply,
           UNCHANGED screenVars, UNCHANGED copyVars, DaemonInv(S)'
    PROVE  ConsoleInv(S)'
<1>1. QueueInv(S) /\ MatchInv /\ ReplyInv(S) /\ CopyInv(S)
  BY DEF ConsoleInv
<1>2. UNCHANGED calls /\ UNCHANGED editor
  BY DEF screenVars
<1>3. QueueInv(S)' /\ MatchInv'
  BY <1>1, <1>2, QueueServed, MatchServed
<1> QED
  BY <1>1, <1>2, <1>3, ReplyKept, CopyKept DEF ConsoleInv

LEMMA SettingsSleepKeeps ==
    ASSUME NEW S, Universe(S), ConsoleInv(S), SettingsSleep
    PROVE  ConsoleInv(S)'
<1> DEFINE r == Head(requests)
           v == ToInt(r.value)
<1>1. DaemonInv(S) /\ QueueInv(S)
  BY DEF ConsoleInv
<1>2. /\ requests # <<>> /\ r.what = "sleep" /\ requests' = Tail(requests)
      /\ UNCHANGED reply /\ UNCHANGED screenVars /\ UNCHANGED copyVars
  BY DEF SettingsSleep, Serves
<1>3. r.value \in Int /\ r.means \in Nat
      /\ (r.means < INT \div 2 => v = r.means /\ r.means >= 1)
  <2>1. GoodRequest(r, S)
    BY <1>1, <1>2, QueueServed
  <2> HIDE DEF r
  <2> QED
    BY <1>2, <2>1 DEF GoodRequest
<1>4. v \in Int /\ v < INT \div 2 /\ INT \div 2 \in Nat
  <2> HIDE DEF r
  <2>1. v \in Int /\ v < INT \div 2
    BY <1>3, IntFacts, Zenon
  <2>2. INT \div 2 \in Nat
    BY ConsoleAssumption
  <2> QED
    BY <2>1, <2>2
<1>5. /\ sleep_interval' = IF v >= 1 THEN v ELSE sleep_interval
      /\ asked' = [asked EXCEPT !.sleep = r.means]
      /\ UNCHANGED <<banned_cpus, cpu_ban_string, thermal_banned_cpus, cl_banned_irqs,
                     db_banned, need_rescan>>
  BY DEF SettingsSleep, Means
<1> HIDE DEF r, v
<1>6. DaemonInv(S)'
  <2>1. /\ asked' \in Requests(S)
        /\ asked'.cpus = asked.cpus /\ asked'.lost = asked.lost /\ asked'.irqs = asked.irqs
        /\ asked'.left_out = asked.left_out /\ asked'.sleep = r.means
    BY <1>1, <1>3, <1>5 DEF DaemonInv, Requests
  <2>3. UNCHANGED Listed(cpu_ban_string)
    BY <1>5 DEF Listed
  <2>2. SleepAsAsked'
    <3>1. sleep_interval \in 1 .. (INT \div 2) - 1
      BY <1>1 DEF DaemonInv, SleepAsAsked
    <3>2. sleep_interval' \in 1 .. (INT \div 2) - 1
      BY <1>4, <1>5, <3>1
    <3>3. asked'.sleep < INT \div 2 => sleep_interval' = asked'.sleep
      BY <1>3, <1>4, <1>5, <2>1
    <3> QED
      BY <3>2, <3>3 DEF SleepAsAsked
  <2> QED
    BY <1>1, <1>5, <2>1, <2>2, <2>3 DEF DaemonInv
<1> QED
  BY <1>2, <1>6, ServedKeeps DEF r, Data

LEMMA SettingsIrqsKeeps ==
    ASSUME NEW S, Universe(S), ConsoleInv(S), SettingsIrqs
    PROVE  ConsoleInv(S)'
<1> DEFINE r == Head(requests)
           irqs == ParsedIrqs(r.tokens)
<1>1. DaemonInv(S) /\ QueueInv(S)
  BY DEF ConsoleInv
<1>2. /\ requests # <<>> /\ r.what = "irqs" /\ requests' = Tail(requests)
      /\ UNCHANGED reply /\ UNCHANGED screenVars /\ UNCHANGED copyVars
  BY DEF SettingsIrqs, Serves
<1>3. irqs \subseteq IrqNumbers /\ r.means \subseteq IrqNumbers /\ IrqsMeant(irqs, r.means)
  <2>1. GoodRequest(r, S)
    BY <1>1, <1>2, QueueServed
  <2> HIDE DEF r
  <2> QED
    BY <1>2, <2>1 DEF GoodRequest
<1>4. PICK left_out \in SUBSET irqs :
         /\ cl_banned_irqs' = irqs \ left_out
         /\ asked' = [asked EXCEPT !.irqs = r.means, !.left_out = left_out]
  BY DEF SettingsIrqs, Means
<1>6. /\ need_rescan' = TRUE
      /\ UNCHANGED <<banned_cpus, cpu_ban_string, thermal_banned_cpus, db_banned,
                     sleep_interval>>
  BY DEF SettingsIrqs
<1> HIDE DEF r, irqs
<1>5. DaemonInv(S)'
  <2>1. /\ asked' \in Requests(S)
        /\ asked'.cpus = asked.cpus /\ asked'.lost = asked.lost /\ asked'.irqs = r.means
        /\ asked'.left_out = left_out /\ asked'.sleep = asked.sleep
    BY <1>1, <1>3, <1>4 DEF DaemonInv, Requests
  <2>2. UNCHANGED Listed(cpu_ban_string)
    BY <1>6 DEF Listed
  <2>3. /\ IrqsMeant(irqs, asked'.irqs) /\ cl_banned_irqs' = irqs \ asked'.left_out
        /\ cl_banned_irqs' \subseteq IrqNumbers
    BY <1>3, <1>4, <2>1
  <2> QED
    BY <1>1, <1>6, <2>1, <2>2, <2>3 DEF DaemonInv, SleepAsAsked
<1> QED
  BY <1>2, <1>5, ServedKeeps DEF r, Data

LEMMA SettingsCpusKeeps ==
    ASSUME NEW S, Universe(S), ConsoleInv(S), SettingsCpus
    PROVE  ConsoleInv(S)'
<1> DEFINE r == Head(requests)
           string == BanString(FirstWord(r.text))
<1>1. DaemonInv(S) /\ QueueInv(S)
  BY DEF ConsoleInv
<1>2. /\ requests # <<>> /\ r.what = "cpus" /\ requests' = Tail(requests)
      /\ UNCHANGED reply /\ UNCHANGED screenVars /\ UNCHANGED copyVars
  BY DEF SettingsCpus, Serves
<1>3. r.means \subseteq S /\ Listed(string) = Selected(r.means)
  <2>1. GoodRequest(r, S)
    BY <1>1, <1>2, QueueServed
  <2> HIDE DEF r
  <2> QED
    BY <1>2, <2>1 DEF GoodRequest
<1>4. /\ cpu_ban_string' = string /\ need_rescan' = TRUE
      /\ asked' = [asked EXCEPT !.cpus = r.means, !.lost = FALSE]
      /\ UNCHANGED <<banned_cpus, thermal_banned_cpus, cl_banned_irqs, db_banned,
                     sleep_interval>>
  BY DEF SettingsCpus, Means
<1> HIDE DEF r, string
<1>5. DaemonInv(S)'
  <2>1. /\ asked' \in Requests(S)
        /\ asked'.cpus = r.means /\ ~asked'.lost /\ asked'.irqs = asked.irqs
        /\ asked'.left_out = asked.left_out /\ asked'.sleep = asked.sleep
    BY <1>1, <1>3, <1>4 DEF DaemonInv, Requests
  <2>2. Listed(cpu_ban_string)' = Selected(IF asked'.lost THEN {} ELSE asked'.cpus)
    BY <1>3, <1>4, <2>1 DEF Listed
  <2> QED
    BY <1>1, <1>4, <2>1, <2>2 DEF DaemonInv, SleepAsAsked
<1> QED
  BY <1>2, <1>5, ServedKeeps DEF r, Data

\* A request that ends with a closed connection.
LEMMA HungUpKeeps ==
    ASSUME NEW S, Universe(S), ConsoleInv(S), requests # <<>>, requests' = Tail(requests),
           HangUp, UNCHANGED screenVars, UNCHANGED copyVars, DaemonInv(S)'
    PROVE  ConsoleInv(S)'
<1>1. DaemonInv(S) /\ QueueInv(S) /\ MatchInv /\ ReplyInv(S) /\ CopyInv(S)
  BY DEF ConsoleInv
<1>2. reply' = IF Head(requests).what \in Data THEN Closed ELSE reply
  BY DEF HangUp, Data
<1>3. CASE Head(requests).what \in Data
  <2>1. reply' = Closed
    BY <1>2, <1>3
  <2>2. ReplyInv(S)'
    <3>1. reply'.got = "closed"
      BY <2>1 DEF Closed
    <3> QED
      BY <2>1, <3>1 DEF ReplyInv, Data
  <2>3. QueueInv(S)' /\ MatchInv'
    BY <1>1, <1>3, QueueServed, MatchServed
  <2>4. CopyInv(S)'
    BY <1>1, CopyKept DEF screenVars
  <2> QED
    BY <2>2, <2>3, <2>4 DEF ConsoleInv
<1>4. CASE Head(requests).what \notin Data
  BY <1>2, <1>4, ServedKeeps
<1> QED
  BY <1>3, <1>4

LEMMA OutCloseKeeps ==
    ASSUME NEW S, Universe(S), ConsoleInv(S), OutClose
    PROVE  ConsoleInv(S)'
<1>1. DaemonInv(S)
  BY DEF ConsoleInv
<1>2. /\ requests # <<>> /\ requests' = Tail(requests) /\ HangUp
      /\ UNCHANGED screenVars /\ UNCHANGED copyVars
      /\ UNCHANGED <<banned_cpus, thermal_banned_cpus, cl_banned_irqs, db_banned,
                     sleep_interval, need_rescan, down>>
  BY DEF OutClose
<1>3. DaemonInv(S)'
  <2>1. CASE UNCHANGED <<cpu_ban_string, asked>>
    BY <1>1, <1>2, <2>1, DaemonKept DEF daemonVars
  <2>2. CASE cpu_ban_string' = <<>> /\ asked' = [asked EXCEPT !.lost = TRUE]
    <3>1. /\ asked' \in Requests(S) /\ asked'.cpus = asked.cpus /\ asked'.lost
          /\ asked'.irqs = asked.irqs /\ asked'.left_out = asked.left_out
          /\ asked'.sleep = asked.sleep
      BY <1>1, <2>2 DEF DaemonInv, Requests
    <3>2. Listed(cpu_ban_string)' = Selected(IF asked'.lost THEN {} ELSE asked'.cpus)
      BY <2>2, <3>1 DEF Listed, Selected
    <3> QED
      BY <1>1, <1>2, <3>1, <3>2 DEF DaemonInv, SleepAsAsked
  <2> QED
    BY <2>1, <2>2 DEF OutClose, ListLost
<1> QED
  BY <1>2, <1>3, HungUpKeeps

\* The daemon dies, or is dead.
LEMMA DownKeeps ==
    ASSUME NEW S, Universe(S), ConsoleInv(S), StatsNull \/ Refused
    PROVE  ConsoleInv(S)'
<1>1. DaemonInv(S)
  BY DEF ConsoleInv
<1>2. /\ requests # <<>> /\ requests' = Tail(requests) /\ HangUp
      /\ UNCHANGED screenVars /\ UNCHANGED copyVars /\ UNCHANGED asked
      /\ UNCHANGED <<banned_cpus, cpu_ban_string, thermal_banned_cpus, cl_banned_irqs,
                     db_banned, sleep_interval, need_rescan>>
  BY DEF StatsNull, Refused, Serves, daemonVars
<1>3. DaemonInv(S)'
  BY <1>1, <1>2 DEF DaemonInv, SleepAsAsked, Listed
<1> QED
  BY <1>2, <1>3, HungUpKeeps

LEMMA ClientSendsKeeps ==
    ASSUME OneCpuLists, NEW S, Universe(S), ConsoleInv(S), ClientSends
    PROVE  ConsoleInv(S)'
<1>1. DaemonInv(S) /\ QueueInv(S) /\ MatchInv /\ ReplyInv(S) /\ CopyInv(S)
  BY DEF ConsoleInv
<1>2. PICK list \in ClientLists :
         requests' = Append(requests, [from |-> "client", what |-> "cpus",
                                       text |-> ListText(list), means |-> Range(list)])
  BY DEF ClientSends
<1> DEFINE r == [from |-> "client", what |-> "cpus", text |-> ListText(list),
                 means |-> Range(list)]
<1>3. r.what = "cpus" /\ r.text = ListText(list) /\ r.means = Range(list)
  OBVIOUS
<1> HIDE DEF r
<1>4. GoodRequest(r, S) /\ r.what \notin Data /\ requests' = Append(requests, r)
  <2>1. /\ Listed(BanString(FirstWord(ListText(list)))) = Selected(Range(list))
        /\ Range(list) \subseteq S
    BY ClientListed DEF Universe
  <2> QED
    BY <1>2, <1>3, <2>1 DEF GoodRequest, Data, r
<1>5. /\ UNCHANGED daemonVars /\ UNCHANGED asked /\ UNCHANGED reply /\ UNCHANGED calls
      /\ UNCHANGED copyVars /\ UNCHANGED editor
  BY DEF ClientSends, screenVars
<1>6. QueueInv(S)' /\ MatchInv'
  BY <1>1, <1>4, <1>5, QueueAppended, MatchAppended
<1> QED
  BY <1>1, <1>5, <1>6, DaemonKept, ReplyKept, CopyKept DEF ConsoleInv

-----------------------------------------------------------------------------
(* The invariant is kept: the interface                                    *)

LEMMA get_dataKeeps ==
    ASSUME NEW S, Universe(S), ConsoleInv(S), get_data
    PROVE  ConsoleInv(S)'
<1>1. DaemonInv(S) /\ QueueInv(S) /\ MatchInv /\ ReplyInv(S) /\ CopyInv(S)
  BY DEF ConsoleInv
<1> DEFINE r == [from |-> "ui", what |-> Head(calls)]
<1>2. /\ calls # <<>> /\ Head(calls) \in Data /\ reply = Nothing /\ reply' = Awaited
      /\ requests' = Append(requests, r)
      /\ UNCHANGED daemonVars /\ UNCHANGED asked /\ UNCHANGED calls
      /\ UNCHANGED copyVars /\ UNCHANGED editor
  BY DEF get_data, Data, screenVars
<1>3. r.what = Head(calls)
  OBVIOUS
<1> HIDE DEF r
<1>4. QueueInv(S)'
  <2>1. GoodRequest(r, S)
    BY <1>2, <1>3 DEF GoodRequest, Data
  <2> QED
    BY <1>1, <1>2, <2>1, QueueAppended
<1>5. MatchInv'
  <2>1. /\ Len(requests) \in Nat /\ Len(requests') = Len(requests) + 1
        /\ \A k \in 1 .. Len(requests) : requests'[k] = requests[k]
        /\ requests'[Len(requests) + 1] = r
    BY <1>1, <1>2, AppendAny DEF QueueInv
  <2>2. \A k \in 1 .. Len(requests) : requests[k].what \notin Data
    <3>1. Nothing.got = "nothing" /\ Awaited.got = "awaited"
      BY DEF Nothing, Awaited
    <3>2. Nothing # Awaited
      BY <3>1
    <3> QED
      BY <1>1, <1>2, <3>2 DEF MatchInv
  <2>3. ASSUME NEW k \in 1 .. Len(requests'), requests'[k].what \in Data
        PROVE  k = Len(requests) + 1
    <3>1. k \in 1 .. Len(requests) \/ k = Len(requests) + 1
      BY <2>1
    <3> QED
      BY <2>1, <2>2, <2>3, <3>1
  <2> QED
    BY <1>2, <1>3, <2>1, <2>3 DEF MatchInv
<1>6. ReplyInv(S)'
  <2>1. reply'.got = "awaited"
    BY <1>2 DEF Awaited
  <2> QED
    BY <1>2, <2>1 DEF ReplyInv, Data
<1> QED
  BY <1>1, <1>2, <1>4, <1>5, <1>6, DaemonKept, CopyKept DEF ConsoleInv

\* There is an answer, and it is taken.
LEMMA AnsweredFacts ==
    ASSUME NEW S, ConsoleInv(S), NEW call \in Data, Answered(call),
           UNCHANGED requests, UNCHANGED daemonVars, UNCHANGED asked
    PROVE  /\ DaemonInv(S)' /\ QueueInv(S)' /\ MatchInv' /\ ReplyInv(S)'
           /\ reply = Closed \/ reply.got = call
           /\ reply.got = call => reply # Closed
<1>1. DaemonInv(S) /\ QueueInv(S) /\ MatchInv /\ ReplyInv(S)
  BY DEF ConsoleInv
<1>2. Nothing.got = "nothing" /\ Awaited.got = "awaited" /\ Closed.got = "closed"
  BY DEF Nothing, Awaited, Closed
<1>3. reply # Awaited /\ reply # Nothing /\ reply' = Nothing /\ Head(calls) = call
  BY DEF Answered
<1>4. reply = Closed \/ reply.got = call
  BY <1>1, <1>3 DEF ReplyInv, Data
<1>5. reply.got = call => reply # Closed
  BY <1>2 DEF Data
<1>6. MatchInv'
  <2>1. \A k \in 1 .. Len(requests) : requests[k].what \notin Data
    BY <1>1, <1>3 DEF MatchInv
  <2> QED
    BY <2>1 DEF MatchInv
<1>7. ReplyInv(S)'
  BY <1>2, <1>3 DEF ReplyInv, Data
<1> QED
  BY <1>1, <1>4, <1>5, <1>6, <1>7, DaemonKept, QueueKept

LEMMA parse_setupKeeps ==
    ASSUME NEW S, Universe(S), ConsoleInv(S), parse_setup
    PROVE  ConsoleInv(S)'
<1>1. ReplyInv(S) /\ CopyInv(S)
  BY DEF ConsoleInv
<1>2. /\ DaemonInv(S)' /\ QueueInv(S)' /\ MatchInv' /\ ReplyInv(S)'
      /\ reply = Closed \/ reply.got = "setup"
  <2>1. Answered("setup") /\ UNCHANGED requests /\ UNCHANGED daemonVars /\ UNCHANGED asked
        /\ "setup" \in Data
    BY DEF parse_setup, Data
  <2> QED
    BY <2>1, AnsweredFacts
<1>3. setup' \in [sleep : Int, irqs : SUBSET IrqNumbers, cpus : SUBSET S]
  <2>1. CASE UNCHANGED setup
    BY <1>1, <2>1 DEF CopyInv
  <2>2. CASE /\ reply # Closed
             /\ setup' = [sleep |-> reply.sleep, irqs |-> reply.irqs,
                          cpus |-> parse_banned(reply.mask)]
    <3>1. /\ reply.sleep \in Int /\ reply.irqs \subseteq IrqNumbers
          /\ parse_banned(reply.mask) \subseteq S
      BY <1>1, <1>2, <2>2 DEF ReplyInv
    <3> QED
      BY <2>2, <3>1
  <2> QED
    BY <2>1, <2>2 DEF parse_setup
<1>4. UNCHANGED <<tree, all_cpus, all_irqs, editor, tmp>>
  BY DEF parse_setup
<1>5. CopyInv(S)'
  BY <1>1, <1>3, <1>4 DEF CopyInv
<1> QED
  BY <1>2, <1>5 DEF ConsoleInv

LEMMA parse_into_treeKeeps ==
    ASSUME NEW S, Universe(S), ConsoleInv(S), parse_into_tree
    PROVE  ConsoleInv(S)'
<1>1. ReplyInv(S) /\ CopyInv(S)
  BY DEF ConsoleInv
<1>2. /\ DaemonInv(S)' /\ QueueInv(S)' /\ MatchInv' /\ ReplyInv(S)'
      /\ reply = Closed \/ reply.got = "stats"
  <2>1. Answered("stats") /\ UNCHANGED requests /\ UNCHANGED daemonVars /\ UNCHANGED asked
        /\ "stats" \in Data
    BY DEF parse_into_tree, Data
  <2> QED
    BY <2>1, AnsweredFacts
<1>3. tree' \in [cpus : SUBSET Cpus, irqs : SUBSET Irqs]
  <2>1. CASE tree' = [cpus |-> {}, irqs |-> {}]
    BY <2>1
  <2>2. CASE reply # Closed /\ tree' = [cpus |-> reply.cpus, irqs |-> reply.irqs]
    <3>1. reply.cpus \subseteq Cpus /\ reply.irqs \subseteq Irqs
      BY <1>1, <1>2, <2>2 DEF ReplyInv
    <3> QED
      BY <2>2, <3>1
  <2> QED
    BY <2>1, <2>2 DEF parse_into_tree
<1>4. UNCHANGED <<setup, all_cpus, all_irqs, editor, tmp>>
  BY DEF parse_into_tree
<1>5. CopyInv(S)'
  BY <1>1, <1>3, <1>4 DEF CopyInv
<1> QED
  BY <1>2, <1>5 DEF ConsoleInv

\* The two lists.
LEMMA ListFacts ==
    ASSUME NEW S, Universe(S), CopyInv(S)
    PROVE  /\ CpuList \in Seq(Row(S))
           /\ IrqList \in Seq(Row(IrqNumbers)) /\ Sorted(IrqList)
<1>1. CpuList \in Seq(Row(S))
  <2>1. nmaskbits - 1 \in Nat /\ S \subseteq 0 .. nmaskbits - 1
    BY WidthAssumption DEF Universe
  <2>2. tree.cpus \subseteq S /\ setup.cpus \subseteq S
    BY DEF CopyInv, Universe
  <2>3. Merged(tree.cpus, setup.cpus) \in Seq(Row(S))
    BY <2>1, <2>2, MergedFacts
  <2> QED
    BY <2>3 DEF CpuList
<1>2. IrqList \in Seq(Row(IrqNumbers)) /\ Sorted(IrqList)
  <2>1. (INT \div 2) - 1 \in Nat /\ IrqNumbers \subseteq 0 .. (INT \div 2) - 1
    BY ConsoleAssumption DEF IrqNumbers
  <2>2. tree.irqs \subseteq IrqNumbers /\ setup.irqs \subseteq IrqNumbers
    BY ConsoleAssumption DEF CopyInv, IrqNumbers
  <2>3. /\ Merged(tree.irqs, setup.irqs) \in Seq(Row(IrqNumbers))
        /\ Sorted(Merged(tree.irqs, setup.irqs))
    BY <2>1, <2>2, MergedFacts
  <2> QED
    BY <2>3 DEF IrqList
<1> QED
  BY <1>1, <1>2

\* Calls change only when the interface does not wait for data.
LEMMA CallsChange ==
    ASSUME NEW S, ConsoleInv(S), UNCHANGED reply, UNCHANGED requests,
           calls = <<>> \/ Head(calls) \notin Data
    PROVE  MatchInv' /\ ReplyInv(S)'
<1>1. MatchInv /\ ReplyInv(S)
  BY DEF ConsoleInv
<1>2. reply.got \notin Data
  BY <1>1 DEF ReplyInv
<1>3. \A k \in 1 .. Len(requests) : requests[k].what \notin Data
  BY <1>1 DEF MatchInv
<1>4. MatchInv'
  BY <1>3 DEF MatchInv
<1>5. ReplyInv(S)'
  BY <1>1, <1>2 DEF ReplyInv
<1> QED
  BY <1>4, <1>5

LEMMA print_all_cpusKeeps ==
    ASSUME NEW S, Universe(S), ConsoleInv(S), print_all_cpus
    PROVE  ConsoleInv(S)'
<1>1. DaemonInv(S) /\ QueueInv(S) /\ CopyInv(S)
  BY DEF ConsoleInv
<1>2. /\ calls # <<>> /\ Head(calls) = "print_all_cpus"
      /\ all_cpus' = all_cpus \/ all_cpus' = CpuList
      /\ UNCHANGED requests /\ UNCHANGED reply /\ UNCHANGED daemonVars /\ UNCHANGED asked
      /\ UNCHANGED <<setup, tree, all_irqs, tmp, editor>>
  BY DEF print_all_cpus
<1>3. MatchInv' /\ ReplyInv(S)'
  BY <1>2, CallsChange DEF Data
<1>4. CopyInv(S)'
  <2>1. all_cpus' \in Seq(Row(S))
    BY <1>1, <1>2, ListFacts DEF CopyInv
  <2> QED
    BY <1>1, <1>2, <2>1 DEF CopyInv
<1> QED
  BY <1>1, <1>2, <1>3, <1>4, DaemonKept, QueueKept DEF ConsoleInv

\* F3, F4, F5 and scrolling.
LEMMA ScreenKeeps ==
    ASSUME NEW S, Universe(S), ConsoleInv(S), Screen \/ Scroll
    PROVE  ConsoleInv(S)'
<1>1. DaemonInv(S) /\ QueueInv(S) /\ CopyInv(S)
  BY DEF ConsoleInv
<1>2. /\ calls = <<>> /\ (all_irqs' = all_irqs \/ all_irqs' = IrqList)
      /\ UNCHANGED requests /\ UNCHANGED reply /\ UNCHANGED daemonVars /\ UNCHANGED asked
      /\ UNCHANGED <<setup, tree, all_cpus, tmp, editor>>
  <2>1. CASE Screen
    BY <2>1 DEF Screen, Key
  <2>2. CASE Scroll
    BY <2>2 DEF Scroll, Key
  <2> QED
    BY <2>1, <2>2
<1>3. MatchInv' /\ ReplyInv(S)'
  BY <1>2, CallsChange
<1>4. CopyInv(S)'
  <2>1. all_irqs' \in Seq(Row(IrqNumbers)) /\ Sorted(all_irqs')
    BY <1>1, <1>2, ListFacts DEF CopyInv
  <2> QED
    BY <1>1, <1>2, <2>1 DEF CopyInv
<1> QED
  BY <1>1, <1>2, <1>3, <1>4, DaemonKept, QueueKept DEF ConsoleInv

\* Keys that only change the editor.
LEMMA EditorKeeps ==
    ASSUME NEW S, ConsoleInv(S), UNCHANGED daemonVars, UNCHANGED asked,
           UNCHANGED requests, UNCHANGED reply, UNCHANGED calls,
           UNCHANGED <<setup, tree, all_cpus, all_irqs>>,
           editor' = "cpus" => tmp' \in Seq(Row(S)),
           editor' = "irqs" => tmp' \in Seq(Row(IrqNumbers)) /\ Sorted(tmp')
    PROVE  ConsoleInv(S)'
<1>1. DaemonInv(S) /\ QueueInv(S) /\ MatchInv /\ ReplyInv(S) /\ CopyInv(S)
  BY DEF ConsoleInv
<1>2. CopyInv(S)'
  BY <1>1 DEF CopyInv
<1> QED
  BY <1>1, <1>2, DaemonKept, QueueKept, MatchKept, ReplyKept DEF ConsoleInv

LEMMA EditKeeps ==
    ASSUME NEW S, Universe(S), ConsoleInv(S), Edit \/ Discard
    PROVE  ConsoleInv(S)'
<1>1. CopyInv(S)
  BY DEF ConsoleInv
<1>2. CASE Edit
  <2>1. /\ editor' = "cpus" => tmp' \in Seq(Row(S))
        /\ editor' = "irqs" => tmp' \in Seq(Row(IrqNumbers)) /\ Sorted(tmp')
    BY <1>1, <1>2 DEF Edit, CopyInv
  <2> QED
    BY <1>2, <2>1, EditorKeeps DEF Edit
<1>3. CASE Discard
  <2>1. editor' = "keys"
    BY <1>3 DEF Discard
  <2> QED
    BY <1>3, <2>1, EditorKeeps DEF Discard
<1> QED
  BY <1>2, <1>3

\* The numbers of a list do not change when a row is flipped.
LEMMA FlipFacts ==
    ASSUME NEW S, tmp \in Seq(Row(S)), NEW k \in 1 .. Len(tmp)
    PROVE  /\ Flipped(k) \in Seq(Row(S)) /\ Len(Flipped(k)) = Len(tmp)
           /\ \A j \in 1 .. Len(tmp) : Flipped(k)[j].number = tmp[j].number
<1>1. Len(tmp) \in Nat /\ \A j \in 1 .. Len(tmp) : tmp[j] \in Row(S)
  OBVIOUS
<1> DEFINE new == [tmp[k] EXCEPT !.is_banned = ~@]
<1>2. new \in Row(S) /\ new.number = tmp[k].number
  <2> DEFINE old == tmp[k]
  <2>1. old \in Row(S)
    BY <1>1
  <2> HIDE DEF old
  <2>2. [old EXCEPT !.is_banned = ~@] \in Row(S)
        /\ [old EXCEPT !.is_banned = ~@].number = old.number
    BY <2>1 DEF Row
  <2> QED
    BY <2>2 DEF old
<1>3. Flipped(k) = [tmp EXCEPT ![k] = new]
  BY DEF Flipped
<1> HIDE DEF new
<1> QED
  BY <1>1, <1>2, <1>3

LEMMA ToggleKeeps ==
    ASSUME NEW S, Universe(S), ConsoleInv(S), toggle_cpu \/ toggle_irq
    PROVE  ConsoleInv(S)'
<1>1. CopyInv(S)
  BY DEF ConsoleInv
<1>2. CASE toggle_cpu
  <2>1. editor = "cpus" /\ editor' = "cpus" /\ tmp \in Seq(Row(S))
    BY <1>1, <1>2 DEF toggle_cpu, Key, screenVars, CopyInv
  <2>2. tmp' \in Seq(Row(S))
    <3>1. PICK row \in 0 .. Max({Len(tmp) - 1, 0}) :
            LET found == { k \in 1 .. Len(tmp) : tmp[k].number = row }
                first == CHOOSE k \in found : \A j \in found : k <= j
            IN  IF found = {} THEN crashed' = TRUE /\ UNCHANGED tmp
                ELSE tmp' = Flipped(first) /\ UNCHANGED crashed
      BY <1>2, Zenon DEF toggle_cpu
    <3> DEFINE found == { k \in 1 .. Len(tmp) : tmp[k].number = row }
               first == CHOOSE k \in found : \A j \in found : k <= j
    <3>2. CASE found = {}
      BY <2>1, <3>1, <3>2
    <3>3. CASE found # {}
      <4>1. found \subseteq Int /\ 0 \in Int /\ \A x \in found : 0 <= x
        OBVIOUS
      <4>2. first \in found
        <5> HIDE DEF found
        <5>1. \E k \in found : \A j \in found : k <= j
          BY <3>3, <4>1, LeastNumber
        <5> QED
          BY <5>1
      <4>3. first \in 1 .. Len(tmp)
        BY <4>2
      <4>4. tmp' = Flipped(first)
        BY <3>1, <3>3
      <4> HIDE DEF first
      <4> QED
        BY <2>1, <4>3, <4>4, FlipFacts
    <3> QED
      BY <3>2, <3>3
  <2> QED
    BY <1>2, <2>1, <2>2, EditorKeeps DEF toggle_cpu, screenVars
<1>3. CASE toggle_irq
  <2>1. editor = "irqs" /\ editor' = "irqs" /\ tmp \in Seq(Row(IrqNumbers)) /\ Sorted(tmp)
    BY <1>1, <1>3 DEF toggle_irq, Key, screenVars, CopyInv
  <2>2. PICK k \in 1 .. Len(tmp) : tmp' = Flipped(k)
    BY <1>3 DEF toggle_irq
  <2>3. /\ tmp' \in Seq(Row(IrqNumbers)) /\ Len(tmp') = Len(tmp)
        /\ \A j \in 1 .. Len(tmp) : tmp'[j].number = tmp[j].number
    BY <2>1, <2>2, FlipFacts
  <2>4. Sorted(tmp')
    BY <2>1, <2>3 DEF Sorted
  <2> QED
    BY <1>3, <2>1, <2>3, <2>4, EditorKeeps DEF toggle_irq, screenVars
<1> QED
  BY <1>2, <1>3

\* A setting is sent.
LEMMA SentKeeps ==
    ASSUME NEW S, ConsoleInv(S), NEW r, GoodRequest(r, S), r.what \notin Data,
           requests' = Append(requests, r), UNCHANGED daemonVars, UNCHANGED asked,
           UNCHANGED reply, UNCHANGED calls, CopyInv(S)'
    PROVE  ConsoleInv(S)'
<1>1. DaemonInv(S) /\ QueueInv(S) /\ MatchInv /\ ReplyInv(S)
  BY DEF ConsoleInv
<1> QED
  BY <1>1, DaemonKept, QueueAppended, MatchAppended, ReplyKept DEF ConsoleInv

LEMMA SaveCpusKeeps ==
    ASSUME NEW S, Universe(S), ConsoleInv(S), SaveCpus
    PROVE  ConsoleInv(S)'
<1> DEFINE q == BannedNumbers(tmp)
           r == [from |-> "ui", what |-> "cpus", text |-> BanText(q),
                 means |-> Range(q)]
<1>1. CopyInv(S)
  BY DEF ConsoleInv
<1>2. /\ editor = "cpus" /\ requests' = Append(requests, r)
      /\ all_cpus' = tmp /\ tmp' = <<>> /\ editor' = "keys"
      /\ UNCHANGED daemonVars /\ UNCHANGED asked /\ UNCHANGED reply /\ UNCHANGED calls
      /\ UNCHANGED <<setup, tree, all_irqs>>
  BY Zenon DEF SaveCpus, Key
<1>3. tmp \in Seq(Row(S))
  BY <1>1, <1>2 DEF CopyInv
<1>4. q \in Seq(S)
  <2>1. S \subseteq Nat
    BY DEF Universe
  <2> QED
    BY <1>3, <2>1, BannedNumbersFacts
<1>5. r.what = "cpus" /\ r.text = BanText(q) /\ r.means = Range(q)
  OBVIOUS
<1> HIDE DEF q, r
<1>6. Range(q) \subseteq S /\ q \in Seq(0 .. nmaskbits - 1)
  <2>1. \A k \in 1 .. Len(q) : q[k] \in S
    BY <1>4
  <2>2. Range(q) \subseteq S
    BY <1>4, <2>1 DEF Range
  <2>4. q \in Seq(0 .. nmaskbits - 1)
    <3> DEFINE B == 0 .. nmaskbits - 1
    <3>1. S \subseteq B
      BY DEF Universe
    <3> HIDE DEF B
    <3>2. q \in Seq(B)
      BY <1>4, <3>1
    <3> QED
      BY <3>2 DEF B
  <2> QED
    BY <2>2, <2>4
<1>7. GoodRequest(r, S) /\ r.what \notin Data
  <2>1. Listed(BanString(FirstWord(BanText(q)))) = Selected(Range(q))
    BY <1>6, BanTextListed
  <2>2. r.means \subseteq S
    BY <1>5, <1>6, Zenon
  <2>3. r.what = "cpus" /\ Listed(BanString(FirstWord(r.text))) = Selected(r.means)
    BY <1>5, <2>1, Zenon
  <2> QED
    BY <2>2, <2>3 DEF GoodRequest, Data
<1>8. CopyInv(S)'
  BY <1>1, <1>2, <1>3 DEF CopyInv
<1> QED
  BY <1>2, <1>7, <1>8, SentKeeps

LEMMA SaveIrqsKeeps ==
    ASSUME NEW S, Universe(S), ConsoleInv(S), SaveIrqs
    PROVE  ConsoleInv(S)'
<1> DEFINE q == BannedNumbers(tmp)
           r == [from |-> "ui", what |-> "irqs", tokens |-> Append(q, NONE),
                 means |-> Range(q)]
<1>1. CopyInv(S)
  BY DEF ConsoleInv
<1>2. /\ editor = "irqs" /\ requests' = Append(requests, r)
      /\ all_irqs' = tmp /\ tmp' = <<>> /\ editor' = "keys"
      /\ UNCHANGED daemonVars /\ UNCHANGED asked /\ UNCHANGED reply /\ UNCHANGED calls
      /\ UNCHANGED <<setup, tree, all_cpus>>
  BY Zenon DEF SaveIrqs, Key
<1>3. tmp \in Seq(Row(IrqNumbers)) /\ Sorted(tmp)
  BY <1>1, <1>2 DEF CopyInv
<1>4. q \in Seq(IrqNumbers) /\ \A j, k \in 1 .. Len(q) : j <= k => q[j] <= q[k]
  <2>1. IrqNumbers \subseteq Nat
    BY DEF IrqNumbers
  <2> QED
    BY <1>3, <2>1, BannedNumbersFacts
<1>5. r.what = "irqs" /\ r.tokens = Append(q, NONE) /\ r.means = Range(q)
  OBVIOUS
<1> HIDE DEF q, r
<1>6. GoodRequest(r, S) /\ r.what \notin Data
  <2>1. /\ IrqsMeant(ParsedIrqs(Append(q, NONE)), Range(q))
        /\ ParsedIrqs(Append(q, NONE)) \subseteq IrqNumbers /\ Range(q) \subseteq IrqNumbers
    BY <1>4, IrqsParsed
  <2> QED
    BY <1>5, <2>1 DEF GoodRequest, Data
<1>7. CopyInv(S)'
  BY <1>1, <1>2, <1>3 DEF CopyInv
<1> QED
  BY <1>2, <1>6, <1>7, SentKeeps

LEMMA SaveSleepKeeps ==
    ASSUME NEW S, Universe(S), ConsoleInv(S), SaveSleep
    PROVE  ConsoleInv(S)'
<1>1. CopyInv(S)
  BY DEF ConsoleInv
<1>2. PICK typed \in SleepInputs :
        /\ setup' = [setup EXCEPT !.sleep = ToUint64(ToInt(typed))]
        /\ requests' = Append(requests, [from |-> "ui", what |-> "sleep",
                                         value |-> ToUint64(ToInt(typed)), means |-> typed])
  BY DEF SaveSleep
<1> DEFINE v == ToUint64(ToInt(typed))
           r == [from |-> "ui", what |-> "sleep", value |-> v, means |-> typed]
<1>3. r.what = "sleep" /\ r.value = v /\ r.means = typed
  OBVIOUS
<1>4. typed \in Nat /\ typed >= 1 /\ v \in Int
  <2>1. typed \in Nat /\ typed >= 1
    BY ConsoleAssumption
  <2>2. v \in Nat
    BY <2>1, IntFacts
  <2> QED
    BY <2>1, <2>2
<1>5. typed < INT \div 2 => ToInt(v) = typed
  BY <1>4, SleepRead
<1>6. setup' = [setup EXCEPT !.sleep = v] /\ requests' = Append(requests, r)
  BY <1>2
<1> HIDE DEF v, r
<1>7. GoodRequest(r, S) /\ r.what \notin Data
  BY <1>3, <1>4, <1>5 DEF GoodRequest, Data
<1>8. UNCHANGED <<tree, all_cpus, all_irqs, tmp, editor, reply, calls>> /\ UNCHANGED daemonVars
      /\ UNCHANGED asked
  BY DEF SaveSleep, screenVars
<1>9. CopyInv(S)'
  BY <1>1, <1>4, <1>6, <1>8 DEF CopyInv
<1> QED
  BY <1>6, <1>7, <1>8, <1>9, SentKeeps

-----------------------------------------------------------------------------
(* What the daemon was asked                                               *)

LEMMA ConsoleInit ==
    ASSUME OneCpuLists, NEW S, Universe(S), Init
    PROVE  ConsoleInv(S)
<1>1. /\ IsolatedCpus \subseteq S /\ CommandLineBans \subseteq IrqNumbers
      /\ DefaultInterval \in 1 .. (INT \div 2) - 1 /\ DefaultInterval \in Nat
  BY ConsoleAssumption DEF Universe, IrqNumbers, DefaultInterval
<1>2. DaemonInv(S)
  <2>1. /\ banned_cpus = IsolatedCpus /\ thermal_banned_cpus = {}
        /\ cl_banned_irqs = CommandLineBans /\ db_banned = CommandLineBans
        /\ sleep_interval = DefaultInterval
    BY DEF Init
  <2>2. PICK cpus \in SUBSET S :
           /\ asked = AskedOnly(cpus)
           /\ Listed(cpu_ban_string) = Selected(cpus)
           /\ need_rescan \in BOOLEAN /\ (need_rescan \/ cpus = {})
    <3>1. CASE cpu_ban_string = <<>> /\ need_rescan = FALSE /\ asked = AskedOnly({})
      <4>2. Listed(cpu_ban_string) = Selected({})
        BY <3>1 DEF Listed, Selected
      <4> QED
        BY <3>1, <4>2
    <3>2. ASSUME NEW list \in EarlierLists,
                 cpu_ban_string = BanString(FirstWord(ListText(list))), need_rescan = TRUE,
                 asked = AskedOnly(Range(list))
          PROVE  \E cpus \in SUBSET S :
                    /\ asked = AskedOnly(cpus)
                    /\ Listed(cpu_ban_string) = Selected(cpus)
                    /\ need_rescan \in BOOLEAN /\ (need_rescan \/ cpus = {})
      <4>1. list \in ClientLists
        BY ConsoleAssumption
      <4>2. Range(list) \in SUBSET S /\ Listed(cpu_ban_string) = Selected(Range(list))
        BY <3>2, <4>1, ClientListed DEF Universe
      <4> QED
        BY <3>2, <4>2
    <3> QED
      BY <3>1, <3>2 DEF Init
  <2>3. /\ asked \in Requests(S) /\ asked.cpus = cpus /\ ~asked.lost
        /\ asked.irqs = CommandLineBans /\ asked.left_out = {}
        /\ asked.sleep = DefaultInterval
    BY <1>1, <2>2 DEF AskedOnly, Requests
  <2>4. Selected({}) = IsolatedCpus
    BY DEF Selected
  <2>5. CommandLineBans = CommandLineBans \ {}
    OBVIOUS
  <2>6. /\ ~need_rescan => banned_cpus = Selected(asked.cpus) \cup thermal_banned_cpus
        /\ need_rescan \in BOOLEAN
    BY <2>1, <2>2, <2>3, <2>4
  <2>7. \E irqs : IrqsMeant(irqs, asked.irqs) /\ cl_banned_irqs = irqs \ asked.left_out
    BY <2>1, <2>3, <2>5 DEF IrqsMeant
  <2> QED
    BY <1>1, <2>1, <2>2, <2>3, <2>6, <2>7 DEF DaemonInv, SleepAsAsked
<1>3. QueueInv(S) /\ MatchInv
  <2>1. requests = <<>> /\ Len(requests) = 0
    BY DEF Init
  <2> QED
    BY <2>1 DEF QueueInv, MatchInv
<1>4. ReplyInv(S)
  <2>1. reply = Nothing /\ reply.got = "nothing"
    BY DEF Init, Nothing
  <2> QED
    BY <2>1 DEF ReplyInv, Data
<1>5. CopyInv(S)
  <2>1. /\ setup = [sleep |-> 0, irqs |-> {}, cpus |-> {}] /\ tree = [cpus |-> {}, irqs |-> {}]
        /\ all_cpus = <<>> /\ all_irqs = <<>> /\ editor = "keys"
    BY DEF Init
  <2>2. Sorted(<<>>)
    BY DEF Sorted
  <2> QED
    BY <2>1, <2>2 DEF CopyInv
<1> QED
  BY <1>2, <1>3, <1>4, <1>5 DEF ConsoleInv

LEMMA ConsoleStep ==
    ASSUME OneCpuLists, NEW S, Universe(S), ConsoleInv(S), [Next]_vars
    PROVE  ConsoleInv(S)'
<1>1. CASE Rescan
  BY <1>1, RescanKeeps
<1>2. CASE Thermal
  BY <1>2, ThermalKeeps
<1>3. CASE Serve
  BY <1>3, SendStatsKeeps, SendSetupKeeps, SettingsSleepKeeps, SettingsIrqsKeeps,
     SettingsCpusKeeps, OutCloseKeeps, DownKeeps DEF Serve
<1>4. CASE ClientSends
  BY <1>4, ClientSendsKeeps
<1>5. CASE Draw
  BY <1>5, get_dataKeeps, parse_setupKeeps, parse_into_treeKeeps, print_all_cpusKeeps DEF Draw
<1>6. CASE Keys
  BY <1>6, ScreenKeeps, EditKeeps, ToggleKeeps, SaveCpusKeeps, SaveIrqsKeeps, SaveSleepKeeps
     DEF Keys
<1>7. CASE UNCHANGED vars
  <2>1. DaemonInv(S) /\ QueueInv(S) /\ MatchInv /\ ReplyInv(S) /\ CopyInv(S)
    BY DEF ConsoleInv
  <2>2. /\ UNCHANGED daemonVars /\ UNCHANGED asked /\ UNCHANGED requests /\ UNCHANGED reply
        /\ UNCHANGED calls /\ UNCHANGED copyVars /\ UNCHANGED editor
    BY <1>7 DEF vars, screenVars
  <2> QED
    BY <2>1, <2>2, DaemonKept, QueueKept, MatchKept, ReplyKept, CopyKept DEF ConsoleInv
<1> QED
  BY <1>1, <1>2, <1>3, <1>4, <1>5, <1>6, <1>7 DEF Next

\* The widest set will do for the settings.
LEMMA MaskIsUniverse ==
    ASSUME OneCpuLists
    PROVE  Universe(0 .. nmaskbits - 1)
  BY ClientListed, ConsoleAssumption DEF Universe

\* The daemon does what it was last asked to, for every machine, every number of requests
\* and whatever the interface, another client, thermal events and failures do in between:
\* sock_handle, setup_banned_cpus, handle_cpu_banning, handle_irq_banning and
\* handle_sleep_setting.  For the clients that list one cpu at a time, that is: of a longer
\* list the daemon drops all but the first.
THEOREM SettingsAlwaysAsAsked == OneCpuLists => (Spec => []SettingsAsAsked)
<1> SUFFICES ASSUME OneCpuLists PROVE Spec => []SettingsAsAsked
  OBVIOUS
<1> DEFINE S == 0 .. nmaskbits - 1
<1>0. Universe(S)
  BY MaskIsUniverse
<1> HIDE DEF S
<1>1. Init => ConsoleInv(S)
  BY <1>0, ConsoleInit
<1>2. ConsoleInv(S) /\ [Next]_vars => ConsoleInv(S)'
  BY <1>0, ConsoleStep
<1>3. ConsoleInv(S) => SettingsAsAsked
  <2> SUFFICES ASSUME DaemonInv(S) PROVE SettingsAsAsked
    BY DEF ConsoleInv
  <2>1. CpusAsAsked
    BY DEF DaemonInv, CpusAsAsked, Settled, Selected
  <2>2. IrqsAsAsked
    BY DEF DaemonInv, IrqsAsAsked, Settled, IrqsMeant
  <2> QED
    BY <2>1, <2>2 DEF DaemonInv, SettingsAsAsked
<1> QED
  BY <1>1, <1>2, <1>3, PTL DEF Spec

-----------------------------------------------------------------------------
(* The cpu editor.  The numbers of the cpus have no gap, and no client     *)
(* bans a cpu that is not there.                                           *)

Gapless ==
    /\ \E n \in Nat : Cpus = 0 .. n
    /\ \A list \in ClientLists : Range(list) \subseteq Cpus

LEMMA GaplessUniverse ==
    ASSUME Gapless
    PROVE  Universe(Cpus)
  BY ConsoleAssumption DEF Gapless, Universe

Freshness ==
    [reply : BOOLEAN, setup : BOOLEAN, tree : BOOLEAN, same : BOOLEAN, list : BOOLEAN]

\* An answer or a copy that is of the last rescan is what the daemon has, and copies that
\* are of one rescan share the cpus between them.
FreshInv ==
    /\ fresh \in Freshness
    /\ fresh.reply /\ reply.got = "setup" => parse_banned(reply.mask) = banned_cpus
    /\ fresh.reply /\ reply.got = "stats" => reply.cpus = Cpus \ banned_cpus
    /\ fresh.setup => setup.cpus = banned_cpus
    /\ fresh.tree => tree.cpus = Cpus \ banned_cpus
    /\ fresh.same => tree.cpus = Cpus \ setup.cpus

Screens == {"tree", "settings", "irqs"}
Calls == {"setup", "stats", "print_all_cpus"}
Printing(list) == \E k \in 1 .. Len(list) : list[k] = "print_all_cpus"

\* A list made from such copies has cpu k in its row k, and is there when it can be edited.
RowsInv ==
    /\ state \in Screens /\ calls \in Seq(Calls)
    /\ fresh.list => all_cpus = <<>> \/ Straight(all_cpus)
    /\ fresh.list /\ all_cpus = <<>> /\ state = "settings" => Printing(calls)
    /\ fresh.list /\ editor = "cpus" => Straight(tmp)
    /\ editor # "keys" => calls = <<>>
    /\ crashed => ~fresh.list

LEMMA FreshKept ==
    ASSUME FreshInv, UNCHANGED fresh, UNCHANGED banned_cpus, UNCHANGED reply,
           UNCHANGED setup, UNCHANGED tree
    PROVE  FreshInv'
  BY DEF FreshInv

LEMMA RowsKept ==
    ASSUME RowsInv, fresh'.list = fresh.list, UNCHANGED screenVars, UNCHANGED all_cpus,
           UNCHANGED tmp, UNCHANGED crashed
    PROVE  RowsInv'
  BY DEF RowsInv, screenVars

\* A daemon that rescans makes everything older, and no copy different.
LEMMA RescanFresh ==
    ASSUME FreshInv, RowsInv, Rescan
    PROVE  FreshInv' /\ RowsInv'
<1>1. /\ fresh' \in Freshness /\ ~fresh'.reply /\ ~fresh'.setup /\ ~fresh'.tree
      /\ fresh'.same = fresh.same /\ fresh'.list = fresh.list
  BY DEF Rescan, FreshInv, Freshness
<1>2. UNCHANGED setup /\ UNCHANGED tree /\ UNCHANGED all_cpus /\ UNCHANGED tmp
      /\ UNCHANGED screenVars /\ UNCHANGED crashed
  BY DEF Rescan, copyVars
<1>3. FreshInv'
  BY <1>1, <1>2 DEF FreshInv
<1> QED
  BY <1>1, <1>2, <1>3, RowsKept

\* An answer that is of the tree the daemon has, in full.
LEMMA SendFresh ==
    ASSUME FreshInv, RowsInv, SendStats \/ SendSetup,
           SendSetup => parse_banned(reply'.mask) = banned_cpus
    PROVE  FreshInv' /\ RowsInv'
<1>1. /\ UNCHANGED banned_cpus /\ UNCHANGED setup /\ UNCHANGED tree /\ UNCHANGED all_cpus
      /\ UNCHANGED tmp /\ UNCHANGED screenVars /\ UNCHANGED crashed
  BY DEF SendStats, SendSetup, copyVars, daemonVars
<1>2. PICK full \in BOOLEAN :
         /\ fresh' = [fresh EXCEPT !.reply = full]
         /\ full /\ reply'.got = "setup" => parse_banned(reply'.mask) = banned_cpus
         /\ full /\ reply'.got = "stats" => reply'.cpus = Cpus \ banned_cpus
  <2>1. CASE SendStats
    <3>1. PICK cpus, irqs :
             /\ reply' = [got |-> "stats", cpus |-> Cpus \ (banned_cpus \cup cpus),
                          irqs |-> Irqs \ (db_banned \cup irqs)]
             /\ fresh' = [fresh EXCEPT !.reply = cpus = {}]
      BY <2>1 DEF SendStats
    <3>2. reply'.got # "setup" /\ (cpus = {} => reply'.cpus = Cpus \ banned_cpus)
      BY <3>1
    <3>3. (cpus = {}) \in BOOLEAN
      OBVIOUS
    <3> QED
      BY <3>1, <3>2, <3>3
  <2>2. CASE SendSetup
    <3>1. fresh' = [fresh EXCEPT !.reply = TRUE] /\ reply'.got # "stats"
      BY <2>2 DEF SendSetup
    <3> QED
      BY <2>2, <3>1
  <2> QED
    BY <2>1, <2>2
<1>3. /\ fresh' \in Freshness /\ fresh'.reply = full /\ fresh'.setup = fresh.setup
      /\ fresh'.tree = fresh.tree /\ fresh'.same = fresh.same /\ fresh'.list = fresh.list
  BY <1>2 DEF FreshInv, Freshness
<1>4. FreshInv'
  BY <1>1, <1>2, <1>3 DEF FreshInv
<1> QED
  BY <1>1, <1>3, <1>4, RowsKept

\* The daemon changes a setting, fails, or is sent one by another client.
LEMMA ServeFresh ==
    ASSUME FreshInv, RowsInv,
           Thermal \/ SettingsSleep \/ SettingsIrqs \/ SettingsCpus \/ ClientSends \/ get_data
    PROVE  FreshInv' /\ RowsInv'
<1>1. /\ UNCHANGED fresh /\ UNCHANGED banned_cpus /\ UNCHANGED setup /\ UNCHANGED tree
      /\ UNCHANGED screenVars /\ UNCHANGED all_cpus /\ UNCHANGED tmp /\ UNCHANGED crashed
      /\ reply' = reply \/ reply' = Awaited
  BY DEF Thermal, SettingsSleep, SettingsIrqs, SettingsCpus, ClientSends, get_data, copyVars,
     daemonVars
<1>2. Awaited.got = "awaited"
  BY DEF Awaited
<1>3. FreshInv'
  BY <1>1, <1>2 DEF FreshInv
<1> QED
  BY <1>1, <1>3, RowsKept

LEMMA OutCloseFresh ==
    ASSUME FreshInv, RowsInv, OutClose \/ StatsNull \/ Refused
    PROVE  FreshInv' /\ RowsInv'
<1>1. /\ UNCHANGED fresh /\ UNCHANGED banned_cpus /\ UNCHANGED setup /\ UNCHANGED tree
      /\ UNCHANGED screenVars /\ UNCHANGED all_cpus /\ UNCHANGED tmp /\ UNCHANGED crashed
      /\ reply' = reply \/ reply' = Closed
  BY DEF OutClose, StatsNull, Refused, HangUp, copyVars, daemonVars
<1>2. Closed.got = "closed"
  BY DEF Closed
<1>3. FreshInv'
  BY <1>1, <1>2 DEF FreshInv
<1> QED
  BY <1>1, <1>3, RowsKept

\* One call less, and not the one that makes the list.
LEMMA CallDone ==
    ASSUME RowsInv, calls # <<>>, calls' = Tail(calls)
    PROVE  /\ calls' \in Seq(Calls) /\ editor = "keys"
           /\ Head(calls) # "print_all_cpus" /\ Printing(calls) => Printing(calls')
<1>1. calls \in Seq(Calls) /\ editor = "keys"
  BY DEF RowsInv
<1>2. /\ Tail(calls) \in Seq(Calls) /\ Len(calls) \in Nat /\ Len(Tail(calls)) = Len(calls) - 1
      /\ \A k \in 1 .. Len(calls) - 1 : Tail(calls)[k] = calls[k + 1]
      /\ Head(calls) = calls[1]
  BY <1>1
<1>3. ASSUME Head(calls) # "print_all_cpus", Printing(calls) PROVE Printing(calls')
  <2>1. PICK k \in 1 .. Len(calls) : calls[k] = "print_all_cpus"
    BY <1>3 DEF Printing
  <2>2. k # 1 /\ k - 1 \in 1 .. Len(calls) - 1
    BY <1>2, <1>3, <2>1
  <2>3. Tail(calls)[k - 1] = "print_all_cpus"
    BY <1>2, <2>1, <2>2
  <2> QED
    BY <1>2, <2>2, <2>3 DEF Printing
<1> QED
  BY <1>1, <1>2, <1>3

\* A copy is as fresh as the answer.
LEMMA parse_setupFresh ==
    ASSUME NEW S, ConsoleInv(S), FreshInv, RowsInv, parse_setup
    PROVE  FreshInv' /\ RowsInv'
<1>1. reply = Closed \/ reply.got = "setup"
  <2>1. Answered("setup") /\ UNCHANGED requests /\ UNCHANGED daemonVars /\ UNCHANGED asked
        /\ "setup" \in Data
    BY DEF parse_setup, Data
  <2> QED
    BY <2>1, AnsweredFacts
<1>2. /\ calls # <<>> /\ Head(calls) # "print_all_cpus" /\ calls' = Tail(calls)
      /\ reply' = Nothing /\ reply'.got = "nothing"
      /\ UNCHANGED <<state, editor, tree, all_cpus, tmp, crashed>> /\ UNCHANGED banned_cpus
  BY DEF parse_setup, Answered, Nothing, daemonVars
<1>3. FreshInv' /\ fresh'.list = fresh.list
  <2>1. CASE UNCHANGED <<setup, fresh>>
    BY <1>2, <2>1 DEF FreshInv
  <2>2. CASE /\ reply # Closed
             /\ setup' = [sleep |-> reply.sleep, irqs |-> reply.irqs,
                          cpus |-> parse_banned(reply.mask)]
             /\ fresh' = [fresh EXCEPT !.setup = fresh.reply,
                                       !.same = fresh.reply /\ fresh.tree]
    <3>1. /\ fresh' \in Freshness /\ fresh'.setup = fresh.reply
          /\ fresh'.same = (fresh.reply /\ fresh.tree) /\ fresh'.reply = fresh.reply
          /\ fresh'.tree = fresh.tree /\ fresh'.list = fresh.list
      BY <2>2 DEF FreshInv, Freshness
    <3>2. fresh.reply => setup'.cpus = banned_cpus
      BY <1>1, <2>2 DEF FreshInv
    <3> QED
      BY <1>2, <3>1, <3>2 DEF FreshInv
  <2> QED
    BY <2>1, <2>2 DEF parse_setup
<1>4. RowsInv'
  BY <1>2, <1>3, CallDone DEF RowsInv
<1> QED
  BY <1>3, <1>4

LEMMA parse_into_treeFresh ==
    ASSUME NEW S, ConsoleInv(S), FreshInv, RowsInv, parse_into_tree
    PROVE  FreshInv' /\ RowsInv'
<1>1. reply = Closed \/ reply.got = "stats"
  <2>1. Answered("stats") /\ UNCHANGED requests /\ UNCHANGED daemonVars /\ UNCHANGED asked
        /\ "stats" \in Data
    BY DEF parse_into_tree, Data
  <2> QED
    BY <2>1, AnsweredFacts
<1>2. /\ calls # <<>> /\ Head(calls) # "print_all_cpus" /\ calls' = Tail(calls)
      /\ reply' = Nothing /\ reply'.got = "nothing"
      /\ UNCHANGED <<state, editor, setup, all_cpus, tmp, crashed>> /\ UNCHANGED banned_cpus
  BY DEF parse_into_tree, Answered, Nothing, daemonVars
<1>3. FreshInv' /\ fresh'.list = fresh.list
  <2>1. CASE fresh' = [fresh EXCEPT !.tree = FALSE, !.same = FALSE]
    <3>1. /\ fresh' \in Freshness /\ ~fresh'.tree /\ ~fresh'.same
          /\ fresh'.setup = fresh.setup /\ fresh'.list = fresh.list
      BY <2>1 DEF FreshInv, Freshness
    <3> QED
      BY <1>2, <3>1 DEF FreshInv
  <2>2. CASE /\ reply # Closed
             /\ tree' = [cpus |-> reply.cpus, irqs |-> reply.irqs]
             /\ fresh' = [fresh EXCEPT !.tree = fresh.reply,
                                       !.same = fresh.reply /\ fresh.setup]
    <3>1. /\ fresh' \in Freshness /\ fresh'.tree = fresh.reply
          /\ fresh'.same = (fresh.reply /\ fresh.setup) /\ fresh'.reply = fresh.reply
          /\ fresh'.setup = fresh.setup /\ fresh'.list = fresh.list
      BY <2>2 DEF FreshInv, Freshness
    <3>2. fresh.reply => tree'.cpus = Cpus \ banned_cpus
      BY <1>1, <2>2 DEF FreshInv
    <3> QED
      BY <1>2, <3>1, <3>2 DEF FreshInv
  <2> QED
    BY <2>1, <2>2 DEF parse_into_tree
<1>4. RowsInv'
  BY <1>2, <1>3, CallDone DEF RowsInv
<1> QED
  BY <1>3, <1>4

\* The list made from copies of one rescan has cpu k in its row k.
LEMMA print_all_cpusFresh ==
    ASSUME Gapless, ConsoleInv(Cpus), FreshInv, RowsInv, print_all_cpus
    PROVE  FreshInv' /\ RowsInv'
<1>1. /\ calls # <<>> /\ calls' = Tail(calls)
      /\ UNCHANGED <<state, editor, setup, tree, tmp, crashed, reply>> /\ UNCHANGED banned_cpus
      /\ ~crashed
  BY DEF print_all_cpus, daemonVars, Alive
<1>2. calls' \in Seq(Calls) /\ editor = "keys"
  BY <1>1, CallDone
<1>3. CASE all_cpus # <<>> /\ UNCHANGED <<all_cpus, fresh>>
  <2>1. FreshInv'
    BY <1>1, <1>3, FreshKept
  <2> QED
    BY <1>1, <1>2, <1>3, <2>1 DEF RowsInv
<1>4. CASE all_cpus' = CpuList /\ fresh' = [fresh EXCEPT !.list = fresh.same]
  <2>1. /\ fresh' \in Freshness /\ fresh'.list = fresh.same /\ fresh'.reply = fresh.reply
        /\ fresh'.setup = fresh.setup /\ fresh'.tree = fresh.tree /\ fresh'.same = fresh.same
    BY <1>4 DEF FreshInv, Freshness
  <2>2. FreshInv'
    BY <1>1, <2>1 DEF FreshInv
  <2>3. fresh.same => Straight(CpuList)
    <3> SUFFICES ASSUME fresh.same PROVE Straight(CpuList)
      OBVIOUS
    <3>1. PICK n \in Nat : Cpus = 0 .. n
      BY DEF Gapless
    <3>2. tree.cpus = Cpus \ setup.cpus /\ setup.cpus \subseteq Cpus
      BY DEF FreshInv, ConsoleInv, CopyInv
    <3>3. Cpus \subseteq 0 .. n /\ tree.cpus \subseteq Cpus
      BY <3>1, <3>2
    <3> QED
      BY <3>1, <3>2, <3>3, MergedFacts DEF CpuList
  <2>4. Straight(CpuList) => CpuList # <<>>
    BY DEF Straight
  <2> QED
    BY <1>1, <1>2, <1>4, <2>1, <2>2, <2>3, <2>4 DEF RowsInv
<1> QED
  BY <1>3, <1>4 DEF print_all_cpus

\* F4 and scrolling draw the settings, and with them the list.
LEMMA ScreenFresh ==
    ASSUME FreshInv, RowsInv, Screen \/ Scroll
    PROVE  FreshInv' /\ RowsInv'
<1>1. /\ UNCHANGED fresh /\ UNCHANGED banned_cpus /\ UNCHANGED reply /\ UNCHANGED setup
      /\ UNCHANGED tree /\ UNCHANGED all_cpus /\ UNCHANGED tmp /\ UNCHANGED crashed
      /\ editor = "keys" /\ editor' = "keys"
  BY DEF Screen, Scroll, Key, daemonVars
<1>2. /\ display_tree \in Seq(Calls) /\ settings \in Seq(Calls) /\ <<>> \in Seq(Calls)
      /\ settings \o settings \in Seq(Calls)
      /\ Printing(settings) /\ Printing(settings \o settings)
  <2>1. display_tree \in Seq(Calls) /\ settings \in Seq(Calls) /\ <<>> \in Seq(Calls)
    BY DEF display_tree, settings, Calls
  <2>2. Len(settings) = 2 /\ settings[2] = "print_all_cpus"
    BY DEF settings
  <2> HIDE DEF settings
  <2>3. /\ settings \o settings \in Seq(Calls) /\ Len(settings \o settings) = 4
        /\ (settings \o settings)[2] = "print_all_cpus"
    <3> DEFINE two == settings \o settings
    <3>1. /\ two \in Seq(Calls) /\ Len(two) = Len(settings) + Len(settings)
          /\ \A k \in 1 .. Len(settings) : two[k] = settings[k]
      BY <2>1, ConcatFacts
    <3> HIDE DEF two
    <3>2. two \in Seq(Calls) /\ Len(two) = 4 /\ two[2] = "print_all_cpus"
      BY <2>2, <3>1
    <3> QED
      BY <3>2 DEF two
  <2> QED
    BY <2>1, <2>2, <2>3 DEF Printing
<1>3. /\ state' \in Screens /\ calls' \in Seq(Calls)
      /\ state' = "settings" => Printing(calls')
  <2>1. CASE Screen
    BY <1>2, <2>1 DEF Screen, RowsInv, Screens
  <2>2. CASE Scroll
    <3>1. state \in Screens /\ state' = state
      BY <2>2 DEF Scroll, RowsInv
    <3>2. CASE state = "settings"
      BY <1>2, <2>2, <3>1, <3>2 DEF Scroll
    <3>3. CASE state = "tree"
      BY <1>2, <2>2, <3>1, <3>3 DEF Scroll
    <3>4. CASE state = "irqs"
      BY <1>2, <2>2, <3>1, <3>4 DEF Scroll
    <3> QED
      BY <3>1, <3>2, <3>3, <3>4 DEF Screens
  <2> QED
    BY <2>1, <2>2
<1>4. FreshInv'
  BY <1>1, FreshKept
<1> QED
  BY <1>1, <1>3, <1>4 DEF RowsInv

\* An editor starts on a list that is there, and ends.
LEMMA EditFresh ==
    ASSUME FreshInv, RowsInv, Edit \/ Discard
    PROVE  FreshInv' /\ RowsInv'
<1>1. /\ UNCHANGED fresh /\ UNCHANGED banned_cpus /\ UNCHANGED reply /\ UNCHANGED setup
      /\ UNCHANGED tree /\ UNCHANGED all_cpus /\ UNCHANGED crashed /\ UNCHANGED state
      /\ UNCHANGED calls /\ calls = <<>>
      /\ editor' = "cpus" => tmp' = all_cpus /\ state = "settings"
  BY DEF Edit, Discard, Key, daemonVars
<1>2. ~Printing(<<>>)
  BY DEF Printing
<1>3. FreshInv'
  BY <1>1, FreshKept
<1> QED
  BY <1>1, <1>2, <1>3 DEF RowsInv

\* With cpu k in row k there is a cpu in every row: toggle_cpu finds the one it looks for.
LEMMA ToggleFresh ==
    ASSUME NEW S, ConsoleInv(S), FreshInv, RowsInv, toggle_cpu
    PROVE  FreshInv' /\ RowsInv'
<1>1. /\ UNCHANGED fresh /\ UNCHANGED banned_cpus /\ UNCHANGED reply /\ UNCHANGED setup
      /\ UNCHANGED tree /\ UNCHANGED all_cpus /\ UNCHANGED screenVars
      /\ editor = "cpus" /\ ~crashed
  BY DEF toggle_cpu, Key, Alive, daemonVars
<1>2. FreshInv'
  BY <1>1, FreshKept
<1>3. tmp \in Seq(Row(S))
  BY <1>1 DEF ConsoleInv, CopyInv
<1>4. PICK row \in 0 .. Max({Len(tmp) - 1, 0}) :
        LET found == { k \in 1 .. Len(tmp) : tmp[k].number = row }
            first == CHOOSE k \in found : \A j \in found : k <= j
        IN  IF found = {} THEN crashed' = TRUE /\ UNCHANGED tmp
            ELSE tmp' = Flipped(first) /\ UNCHANGED crashed
  BY Zenon DEF toggle_cpu
<1> DEFINE found == { k \in 1 .. Len(tmp) : tmp[k].number = row }
           first == CHOOSE k \in found : \A j \in found : k <= j
<1>5. found # {} => first \in 1 .. Len(tmp)
  <2> SUFFICES ASSUME found # {} PROVE first \in 1 .. Len(tmp)
    OBVIOUS
  <2>1. found \subseteq Int /\ 0 \in Int /\ \A x \in found : 0 <= x
    OBVIOUS
  <2>2. first \in found
    <3> HIDE DEF found
    <3>1. \E k \in found : \A j \in found : k <= j
      BY <2>1, LeastNumber
    <3> QED
      BY <3>1
  <2> QED
    BY <2>2
<1>6. Straight(tmp) => found # {}
  <2> SUFFICES ASSUME Straight(tmp) PROVE found # {}
    OBVIOUS
  <2> DEFINE top == Len(tmp) - 1
  <2>1. top \in Nat
    BY <1>3 DEF Straight
  <2>2. {top, 0} \subseteq 0 .. top /\ {top, 0} # {} /\ top \in Int
    BY <2>1
  <2>3. Max({top, 0}) \in {top, 0}
    <3> HIDE DEF top
    <3> QED
      BY <2>2, MaxFacts, Zenon
  <2>4. row \in 0 .. top
    <3> DEFINE m == Max({top, 0})
    <3>1. m \in 0 .. top
      BY <2>1, <2>3
    <3>2. row \in 0 .. m
      OBVIOUS
    <3> HIDE DEF m, top
    <3> QED
      BY <2>1, <3>1, <3>2
  <2>5. row + 1 \in 1 .. Len(tmp) /\ tmp[row + 1].number = row
    BY <1>3, <2>4 DEF Straight
  <2> QED
    BY <2>5
<1>7. CASE found = {}
  <2>1. ~Straight(tmp) /\ UNCHANGED tmp
    BY <1>4, <1>6, <1>7
  <2>2. ~fresh.list
    BY <1>1, <2>1 DEF RowsInv
  <2> QED
    BY <1>1, <1>2, <2>2 DEF RowsInv, screenVars
<1>8. CASE found # {}
  <2>1. first \in 1 .. Len(tmp) /\ tmp' = Flipped(first) /\ UNCHANGED crashed
    BY <1>4, <1>5, <1>8
  <2> HIDE DEF first, found
  <2>2. /\ Len(tmp') = Len(tmp) /\ \A j \in 1 .. Len(tmp) : tmp'[j].number = tmp[j].number
    BY <1>3, <2>1, FlipFacts
  <2>3. Straight(tmp) => Straight(tmp')
    BY <2>2 DEF Straight
  <2> QED
    BY <1>1, <1>2, <2>1, <2>3 DEF RowsInv, screenVars
<1> QED
  BY <1>7, <1>8

\* The other keys.
LEMMA KeysFresh ==
    ASSUME NEW S, ConsoleInv(S), FreshInv, RowsInv, toggle_irq \/ SaveCpus \/ SaveIrqs \/ SaveSleep
    PROVE  FreshInv' /\ RowsInv'
<1>1. CASE toggle_irq
  <2>1. /\ UNCHANGED fresh /\ UNCHANGED banned_cpus /\ UNCHANGED reply /\ UNCHANGED setup
        /\ UNCHANGED tree /\ UNCHANGED all_cpus /\ UNCHANGED screenVars /\ UNCHANGED crashed
        /\ editor = "irqs"
    BY <1>1 DEF toggle_irq, Key, daemonVars
  <2>2. FreshInv'
    BY <2>1, FreshKept
  <2> QED
    BY <2>1, <2>2 DEF RowsInv, screenVars
<1>2. CASE SaveCpus
  <2>1. /\ UNCHANGED fresh /\ UNCHANGED banned_cpus /\ UNCHANGED reply /\ UNCHANGED setup
        /\ UNCHANGED tree /\ UNCHANGED state /\ UNCHANGED calls /\ UNCHANGED crashed
        /\ editor = "cpus" /\ editor' = "keys" /\ all_cpus' = tmp
    BY <1>2 DEF SaveCpus, Key, daemonVars
  <2>2. FreshInv'
    BY <2>1, FreshKept
  <2>3. Straight(tmp) => tmp # <<>>
    BY DEF Straight
  <2> QED
    BY <2>1, <2>2, <2>3 DEF RowsInv
<1>3. CASE SaveIrqs
  <2>1. /\ UNCHANGED fresh /\ UNCHANGED banned_cpus /\ UNCHANGED reply /\ UNCHANGED setup
        /\ UNCHANGED tree /\ UNCHANGED state /\ UNCHANGED calls /\ UNCHANGED crashed
        /\ UNCHANGED all_cpus /\ editor' = "keys"
    BY <1>3 DEF SaveIrqs, daemonVars
  <2>2. FreshInv'
    BY <2>1, FreshKept
  <2> QED
    BY <2>1, <2>2 DEF RowsInv
<1>4. CASE SaveSleep
  <2>1. /\ UNCHANGED fresh /\ UNCHANGED banned_cpus /\ UNCHANGED reply /\ UNCHANGED tree
        /\ UNCHANGED screenVars /\ UNCHANGED all_cpus /\ UNCHANGED tmp /\ UNCHANGED crashed
    BY <1>4 DEF SaveSleep, daemonVars
  <2>2. PICK typed \in SleepInputs : setup' = [setup EXCEPT !.sleep = ToUint64(ToInt(typed))]
    BY <1>4 DEF SaveSleep
  <2>3. setup'.cpus = setup.cpus
    BY <2>2 DEF ConsoleInv, CopyInv
  <2>4. FreshInv'
    BY <2>1, <2>3 DEF FreshInv
  <2> QED
    BY <2>1, <2>4, RowsKept
<1> QED
  BY <1>1, <1>2, <1>3, <1>4

LEMMA EditorStep ==
    ASSUME Gapless, ConsoleInv(Cpus), FreshInv, RowsInv, [Next]_vars
    PROVE  FreshInv' /\ RowsInv'
<1>1. CASE Rescan
  BY <1>1, RescanFresh
<1>2. CASE Thermal \/ SettingsSleep \/ SettingsIrqs \/ SettingsCpus \/ ClientSends \/ get_data
  BY <1>2, ServeFresh
<1>3. CASE SendStats
  <2>1. ~SendSetup
    BY <1>3 DEF SendStats, SendSetup, Serves
  <2> QED
    BY <1>3, <2>1, SendFresh
<1>4. CASE SendSetup
  <2>1. parse_banned(reply'.mask) = banned_cpus
    BY <1>4, GaplessUniverse, SendSetupKeeps
  <2> QED
    BY <1>4, <2>1, SendFresh
<1>5. CASE OutClose \/ StatsNull \/ Refused
  BY <1>5, OutCloseFresh
<1>6. CASE parse_setup \/ parse_into_tree \/ print_all_cpus
  BY <1>6, parse_setupFresh, parse_into_treeFresh, print_all_cpusFresh
<1>7. CASE Keys
  BY <1>7, ScreenFresh, EditFresh, ToggleFresh, KeysFresh DEF Keys
<1>8. CASE UNCHANGED vars
  <2>1. /\ UNCHANGED fresh /\ UNCHANGED banned_cpus /\ UNCHANGED reply /\ UNCHANGED setup
        /\ UNCHANGED tree /\ UNCHANGED screenVars /\ UNCHANGED all_cpus /\ UNCHANGED tmp
        /\ UNCHANGED crashed
    BY <1>8 DEF vars, daemonVars, copyVars
  <2> QED
    BY <2>1, FreshKept, RowsKept
<1> QED
  BY <1>1, <1>2, <1>3, <1>4, <1>5, <1>6, <1>7, <1>8 DEF Next, Serve, Draw

\* On a machine whose cpus are numbered without a gap, and with clients that list one cpu
\* at a time, of those that are there, toggle_cpu only follows a null pointer when the
\* list it looks at was made from a tree and a setup of different rescans, or from a tree
\* that the daemon did not send in full.  (With a gap, or with a banned cpu that is not
\* there, a row and the number of its cpu may differ in any list.)
THEOREM EditorStaysSafe == OneCpuLists /\ Gapless => (Spec => []EditorSafe)
<1> SUFFICES ASSUME OneCpuLists, Gapless PROVE Spec => []EditorSafe
  OBVIOUS
<1> DEFINE Inv == ConsoleInv(Cpus) /\ FreshInv /\ RowsInv
<1>0. Universe(Cpus)
  BY GaplessUniverse
<1>1. Init => Inv
  <2> SUFFICES ASSUME Init PROVE Inv
    OBVIOUS
  <2>1. ConsoleInv(Cpus)
    BY <1>0, ConsoleInit
  <2>2. FreshInv
    <3>1. fresh = [reply |-> FALSE, setup |-> FALSE, tree |-> FALSE, same |-> FALSE,
                   list |-> TRUE]
      BY DEF Init
    <3> QED
      BY <3>1 DEF FreshInv, Freshness
  <2>3. RowsInv
    BY DEF Init, RowsInv, Screens, Calls, display_tree
  <2> QED
    BY <2>1, <2>2, <2>3
<1>2. Inv /\ [Next]_vars => Inv'
  BY <1>0, ConsoleStep, EditorStep
<1>3. Inv => EditorSafe
  BY DEF RowsInv, EditorSafe
<1> QED
  BY <1>1, <1>2, <1>3, PTL DEF Spec
=============================================================================
