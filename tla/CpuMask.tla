------------------------------ MODULE CpuMask -------------------------------
(***************************************************************************)
(* How sets of cpus are written and read: the mask and list formats of     *)
(* bitmap.c, and what the user interface makes of them.  A mask is a set   *)
(* of bits, a text a sequence of one-character strings, but for the word   *)
(* NULL, which is one: no parser gets beyond its first letter.             *)
(* cpumask_t and the macros of cpumask.h only fix the width, nmaskbits.    *)
(*                                                                         *)
(* The two parsers are folds over the text; `ret' is "go" until they       *)
(* return.  Numbers are short enough not to overflow an int.               *)
(***************************************************************************)
EXTENDS Integers, Sequences, FiniteSets, SequencesExt

CONSTANTS
    nmaskbits,       \* width of a mask (NR_CPUS, 4096)
    CHUNKSZ          \* bits of a group of hex digits (32)

ASSUME WidthAssumption ==
    /\ nmaskbits \in Nat \ {0} /\ nmaskbits <= 10000
    /\ CHUNKSZ \in Nat \ {0} /\ CHUNKSZ % 4 = 0

Blank == " "
Comma == ","

Digits == <<"0", "1", "2", "3", "4", "5", "6", "7", "8", "9",
            "a", "b", "c", "d", "e", "f">>

\* unhex
unhex == [c \in Range(Digits) |-> CHOOSE v \in 0 .. 15 : Digits[v + 1] = c]

isdigit(c) == c \in Range(SubSeq(Digits, 1, 10))
isxdigit(c) == c \in Range(Digits)

\* The bits of a number below 2^CHUNKSZ.
BitsOf(v) == { k \in 0 .. CHUNKSZ - 1 : (v \div 2^k) % 2 = 1 }

-----------------------------------------------------------------------------
(* The list format: numbers and ranges separated by commas.                *)

NewItem == [a |-> 0, b |-> 0, exp_digit |-> TRUE, in_range |-> FALSE]

ListStart == [item |-> NewItem, c |-> "NUL", totaldigits |-> 0, mask |-> {}, ret |-> "go"]

\* Faulty variant: the numbers are not cleared for the next item.
EndItem_Keeps(s) ==
    IF ~(s.item.a <= s.item.b) THEN [s EXCEPT !.ret = "EINVAL"]
    ELSE IF s.item.b >= nmaskbits THEN [s EXCEPT !.ret = "ERANGE"]
    ELSE [s EXCEPT !.item = [@ EXCEPT !.exp_digit = TRUE, !.in_range = FALSE],
                   !.mask = @ \cup (s.item.a .. s.item.b)]

\* The end of a number or a range.  Nothing says whether there was one: an item
\* without digits is bit 0.
EndItem(s) ==
    IF ~(s.item.a <= s.item.b) THEN [s EXCEPT !.ret = "EINVAL"]
    ELSE IF s.item.b >= nmaskbits THEN [s EXCEPT !.ret = "ERANGE"]
    ELSE [s EXCEPT !.item = NewItem, !.mask = @ \cup (s.item.a .. s.item.b)]

\* `-' after a number
StartRange(s) ==
    IF s.item.exp_digit \/ s.item.in_range THEN [s EXCEPT !.ret = "EINVAL"]
    ELSE [s EXCEPT !.item.b = 0, !.item.in_range = TRUE, !.item.exp_digit = TRUE]

AddDigit(s, d) ==
    LET b == s.item.b * 10 + d
    IN  [s EXCEPT !.item.b = b,
                  !.item.a = IF s.item.in_range THEN @ ELSE b,
                  !.item.exp_digit = FALSE,
                  !.totaldigits = @ + 1]

\* A character of __bitmap_parselist
ListChar(s, c) ==
    LET t == [s EXCEPT !.c = c]
    IN  CASE s.ret # "go" -> s
          [] s.ret = "go" /\ c = Blank -> t
          [] s.ret = "go" /\ c # Blank /\ s.totaldigits > 0 /\ s.c = Blank ->
                [t EXCEPT !.ret = "EINVAL"]
          [] OTHER ->
                IF c = Comma THEN EndItem(t)
                ELSE IF c = "-" THEN StartRange(t)
                ELSE IF isdigit(c) THEN AddDigit(t, unhex[c])
                ELSE [t EXCEPT !.ret = "EINVAL"]

\* The end of the text; after a comma no further item is expected.
ListEnd(s) ==
    LET t == IF s.ret = "go" /\ s.c # Comma THEN EndItem(s) ELSE s
    IN  IF t.ret = "go" THEN [t EXCEPT !.ret = "ok"] ELSE t

\* cpulist_parse.  Its callers take the mask and drop the return value.
cpulist_parse(text) == ListEnd(FoldLeft(ListChar, ListStart, text)).mask

-----------------------------------------------------------------------------
(* The mask format: hex digits, in groups of CHUNKSZ bits.                 *)

HexStart == [chunk |-> 0, ndigits |-> 0, totaldigits |-> 0, nchunks |-> 0,
             nbits |-> 0, c |-> "NUL", mask |-> {}, ret |-> "go"]

\* __bitmap_shift_left
ShiftLeft(S, n) == { k + n : k \in { j \in S : j + n < nmaskbits } }

\* fls: the number of bits it takes to write v
fls(v) == IF v = 0 THEN 0
          ELSE 1 + CHOOSE k \in BitsOf(v) : \A j \in BitsOf(v) : j <= k

\* Faulty variant: the groups before are not shifted.
EndChunk_NoShift(s) ==
    LET nbits == s.nbits + IF s.nchunks = 0 THEN fls(s.chunk) ELSE CHUNKSZ
    IN  IF s.ndigits = 0 THEN [s EXCEPT !.ret = "EINVAL"]
        ELSE IF s.nchunks = 0 /\ s.chunk = 0 THEN [s EXCEPT !.ndigits = 0]
        ELSE [s EXCEPT !.chunk = 0, !.ndigits = 0, !.nchunks = @ + 1,
                       !.nbits = nbits,
                       !.mask = @ \cup BitsOf(s.chunk),
                       !.ret = IF nbits > nmaskbits THEN "EOVERFLOW" ELSE @]

\* The end of a group.  Leading groups of zeros do not count.
EndChunk(s) ==
    LET nbits == s.nbits + IF s.nchunks = 0 THEN fls(s.chunk) ELSE CHUNKSZ
    IN  IF s.ndigits = 0 THEN [s EXCEPT !.ret = "EINVAL"]
        ELSE IF s.nchunks = 0 /\ s.chunk = 0 THEN [s EXCEPT !.ndigits = 0]
        ELSE [s EXCEPT !.chunk = 0, !.ndigits = 0, !.nchunks = @ + 1,
                       !.nbits = nbits,
                       !.mask = ShiftLeft(@, CHUNKSZ) \cup BitsOf(s.chunk),
                       !.ret = IF nbits > nmaskbits THEN "EOVERFLOW" ELSE @]

\* A character of __bitmap_parse.  A blank inside the text ends it without an error.
HexChar(s, c) ==
    LET t == [s EXCEPT !.c = c]
    IN  CASE s.ret # "go" -> s
          [] s.ret = "go" /\ c = Blank -> t
          [] s.ret = "go" /\ c # Blank /\ s.totaldigits > 0 /\ s.c = Blank ->
                [t EXCEPT !.ret = "ok"]
          [] OTHER ->
                IF c = Comma THEN EndChunk(t)
                ELSE IF ~isxdigit(c) THEN [t EXCEPT !.ret = "EINVAL"]
                ELSE IF s.chunk >= 2^(CHUNKSZ - 4) THEN [t EXCEPT !.ret = "EOVERFLOW"]
                ELSE [t EXCEPT !.chunk = @ * 16 + unhex[c], !.ndigits = @ + 1,
                               !.totaldigits = @ + 1]

HexEnd(s) ==
    LET t == IF s.ret = "go" /\ s.c # Comma THEN EndChunk(s) ELSE s
    IN  IF t.ret = "go" THEN [t EXCEPT !.ret = "ok"] ELSE t

\* cpumask_parse_user
cpumask_parse_user(text) == HexEnd(FoldLeft(HexChar, HexStart, text)).mask

\* Four bits of a mask as a number, and the n lowest of them in hex
Nibble(S, m) == LET bit(k) == IF 4 * m + k \in S THEN 1 ELSE 0
                IN  bit(0) + 2 * bit(1) + 4 * bit(2) + 8 * bit(3)
Hex(S, n) == [k \in 1 .. n |-> Digits[1 + Nibble(S, n - k)]]

\* The groups of a mask, most significant first; only that one may be narrow.
Groups == (nmaskbits + CHUNKSZ - 1) \div CHUNKSZ
GroupBits(g) == IF g = Groups /\ nmaskbits % CHUNKSZ # 0 THEN nmaskbits % CHUNKSZ
                ELSE CHUNKSZ
Group(S, g) == { k \in 0 .. GroupBits(g) - 1 : k + CHUNKSZ * (g - 1) \in S }

\* The digits of a group, after a comma when it is not the first.
GroupText(S, g, first) ==
    (IF first THEN <<>> ELSE <<Comma>>) \o Hex(Group(S, g), (GroupBits(g) + 3) \div 4)

\* Faulty variant: a group of zeros is left out wherever it is.
bitmap_scnprintf_Skips(S) ==
    LET shown(g) == g = 1 \/ Group(S, g) # {}
        first(g) == \A h \in g + 1 .. Groups : ~shown(h)
        text(g) == IF shown(g) THEN GroupText(S, g, first(g)) ELSE <<>>
    IN  FlattenSeq([j \in 1 .. Groups |-> text(Groups + 1 - j)])

\* bitmap_scnprintf: the groups from the first that is not zero, each in full width.
bitmap_scnprintf(S) ==
    LET first(g) == \A h \in g + 1 .. Groups : Group(S, h) = {}
        text(g) == IF first(g) /\ Group(S, g) = {} /\ g # 1 THEN <<>>
                   ELSE GroupText(S, g, first(g))
    IN  FlattenSeq([j \in 1 .. Groups |-> text(Groups + 1 - j)])

-----------------------------------------------------------------------------
(* The user interface                                                      *)

\* parse_setup reads the mask of banned cpus from the end, four cpus a digit
\* (hex_to_bitmap).
parse_banned(text) ==
    LET digits == FlattenSeq([i \in 1 .. Len(text) |->
                                 IF text[i] = Comma THEN <<>> ELSE <<text[i]>>])
    IN  { k \in 0 .. 4 * Len(digits) - 1 :
            LET c == digits[Len(digits) - (k \div 4)]
            IN  isxdigit(c) /\ k % 4 \in BitsOf(unhex[c]) }

\* %d, for numbers below 10000
Decimal(n) ==
    LET ten == <<1, 10, 100, 1000>>
        width == IF n < 10 THEN 1 ELSE IF n < 100 THEN 2 ELSE IF n < 1000 THEN 3 ELSE 4
    IN  [k \in 1 .. width |-> Digits[1 + ((n \div ten[width + 1 - k]) % 10)]]

\* bsnl_emit
bsnl_emit(rbot, rtop) ==
    IF rbot = rtop THEN Decimal(rbot) ELSE Decimal(rbot) \o <<"-">> \o Decimal(rtop)

\* copy_assigned_obj: a number that does not continue the range starts another.
copy_assigned_obj(s, n) ==
    IF s.rtop = -1 THEN [s EXCEPT !.rbot = n, !.rtop = n]
    ELSE IF n > s.rtop + 1
    THEN [text |-> s.text \o bsnl_emit(s.rbot, s.rtop) \o <<Comma>>, rbot |-> n, rtop |-> n]
    ELSE [s EXCEPT !.rtop = n]

\* print_assigned_objects_string, for a list that is not empty
AssignedText(S) ==
    LET end == FoldLeft(LAMBDA s, n : copy_assigned_obj(s, n),
                        [text |-> <<>>, rbot |-> 0, rtop |-> -1],
                        SetToSortSeq(S, <))
    IN  end.text \o bsnl_emit(end.rbot, end.rtop)

\* handle_cpu_banning: each banned cpu with a comma, and always the word NULL.
BanText(numbers) ==
    FlattenSeq([k \in 1 .. Len(numbers) |-> Decimal(numbers[k]) \o <<Comma>>]) \o <<"NULL">>
=============================================================================
