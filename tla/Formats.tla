------------------------------ MODULE Formats -------------------------------
(***************************************************************************)
(* What is written between the parts of irqbalance and read back: sets of  *)
(* cpus (CpuMask) and the reply to a stats request, the object tree in     *)
(* the order of a walk.  A reader takes its input a character, or an       *)
(* object, at a time; every prefix is an input of its own.                 *)
(***************************************************************************)
EXTENDS CpuMask

CONSTANTS
    Alphabet,        \* the characters a person may type
    MaxText,         \* bound: length of a typed text
    MaxPrinted,      \* bound: size of a printed set
    MaxObjects       \* bound: objects of a stats reply

ASSUME FormatsAssumption ==
    /\ MaxText \in Nat /\ MaxPrinted \in Nat /\ MaxObjects \in Nat
    /\ MaxPrinted <= nmaskbits

VARIABLES
    source,          \* who wrote the input, and the set it stands for
    rest,            \* what is still to be read
    text,            \* what has been read
    list,            \* __bitmap_parselist after `text'
    hex,             \* __bitmap_parse after `text'
    objs,            \* the objects of a stats reply: type, parent and parent read
    open,            \* get_object_stat: the objects whose children are being written
    parent           \* parse_into_tree's parent, 0 for NULL

vars == <<source, rest, text, list, hex, objs, open, parent>>

Writers == {"bitmap_scnprintf", "print_assigned_objects_string", "handle_cpu_banning"}

Written(by, S) ==
    CASE by = "bitmap_scnprintf" -> bitmap_scnprintf(S)
      [] by = "print_assigned_objects_string" -> AssignedText(S)
      [] by = "handle_cpu_banning" -> BanText(SetToSortSeq(S, <))

Sources ==
    [by : {"typed", "stats"}, set : {{}}]
    \cup { [by |-> w, set |-> S] : w \in Writers,
           S \in UNION { kSubset(n, 0 .. nmaskbits - 1) : n \in 1 .. MaxPrinted } }
    \cup { [by |-> "bitmap_scnprintf", set |-> {}] }

Init ==
    /\ source \in Sources
    /\ rest = IF source.by \in Writers THEN Written(source.by, source.set) ELSE <<>>
    /\ text = <<>> /\ list = ListStart /\ hex = HexStart
    /\ objs = <<>> /\ open = <<>> /\ parent = 0

Read(c) ==
    /\ text' = Append(text, c)
    /\ list' = ListChar(list, c) /\ hex' = HexChar(hex, c)
    /\ UNCHANGED <<source, objs, open, parent>>

\* A person types a list or a mask, in an environment variable or a command.
Type ==
    /\ source.by = "typed" /\ Len(text) < MaxText
    /\ \E c \in Alphabet : Read(c)
    /\ UNCHANGED rest

ReadWritten ==
    /\ rest # <<>>
    /\ Read(Head(rest))
    /\ rest' = Tail(rest)

-----------------------------------------------------------------------------
(* The stats reply.  Types are as in types.h: a cpu is 0, a node is 3.     *)

TypeOf(i) == objs[i].type

\* Faulty variant: an object of the type of the last one goes below it.
ReadParent_Sibling(t) ==
    IF t = 3 THEN 0
    ELSE IF t > TypeOf(parent) THEN objs[parent].read
    ELSE parent

\* parse_into_tree finds the parent of an object of type t: the last object that
\* is not a cpu, or, when that is not of a higher type, the parent of that.
ReadParent(t) ==
    IF t = 3 THEN 0
    ELSE IF t >= TypeOf(parent) THEN objs[parent].read
    ELSE parent

\* What hangs below an object of type t: below a node also the cache domains of a
\* package that is on several nodes (connect_cpu_mem_topo).
ChildTypes(t) ==
    CASE t = 3 -> {2, 1} [] t = 2 -> {1} [] t = 1 -> {0} [] t = 0 -> {}

\* The next object of the walk is a node, or a child of one of the open objects.
\* An object that get_object_stat has no memory for is left out with its children.
get_object_stat ==
    /\ source.by = "stats" /\ Len(objs) < MaxObjects
    /\ \E k \in 0 .. Len(open) :
       \E t \in IF k = 0 THEN {3} ELSE ChildTypes(TypeOf(open[k])) :
        LET new == Len(objs) + 1
        IN  /\ objs' = Append(objs, [type |-> t,
                                     parent |-> IF k = 0 THEN 0 ELSE open[k],
                                     read |-> ReadParent(t)])
            /\ open' = Append(SubSeq(open, 1, k), new)
            /\ parent' = IF t = 0 THEN ReadParent(t) ELSE new
    /\ UNCHANGED <<source, rest, text, list, hex>>

Next == Type \/ ReadWritten \/ get_object_stat

Spec == Init /\ [][Next]_vars

-----------------------------------------------------------------------------
(* Properties                                                              *)

\* The texts between commas, as pairs of first and last position.
Spans == { span \in (1 .. Len(text) + 1) \X (0 .. Len(text)) :
            /\ span[1] <= span[2] + 1
            /\ span[1] = 1 \/ text[span[1] - 1] = Comma
            /\ span[2] = Len(text) \/ text[span[2] + 1] = Comma
            /\ \A k \in span[1] .. span[2] : text[k] # Comma }

Part(span) == SubSeq(text, span[1], span[2])

\* No blank between two other characters.
Unbroken == \A i, j, k \in 1 .. Len(text) :
                i < j /\ j < k /\ text[i] # Blank /\ text[k] # Blank => text[j] # Blank

\* What a comma-separated part says, outer blanks aside.
Stripped(span) == SelectSeq(Part(span), LAMBDA c : c # Blank)

NumberIn(base, s) == FoldLeft(LAMBDA v, c : base * v + unhex[c], 0, s)

Number(s) == s # <<>> /\ \A i \in 1 .. Len(s) : isdigit(s[i])

\* The bits that one part of a list names; none when it is not a number or a range.
Named(s) ==
    LET dashes == { i \in 1 .. Len(s) : s[i] = "-" }
        d == CHOOSE i \in dashes : TRUE
        lo == SubSeq(s, 1, d - 1)
        hi == SubSeq(s, d + 1, Len(s))
    IN  IF Number(s) THEN {NumberIn(10, s)}
        ELSE IF Cardinality(dashes) = 1 /\ Number(lo) /\ Number(hi)
        THEN NumberIn(10, lo) .. NumberIn(10, hi)
        ELSE {}

\* An empty part: cpu 0 to the parser, against irqbalance.1, which says that an empty
\* IRQBALANCE_BANNED_CPULIST bans nothing.
Empty(span) == Stripped(span) = <<>>

\* The nothing after the comma that ends a list, which is not a part of it.
Trailing(span) == span[2] = Len(text) /\ span[1] = Len(text) + 1 /\ span[1] > 1

\* A range from 0 without an end, cpu 0 too.
Endless(span) ==
    LET s == Stripped(span) IN s # <<>> /\ Last(s) = "-" /\ Named(Front(s)) = {0}

\* The bits a part of a list stands for.
StandsFor(span) == IF Empty(span) \/ Endless(span) THEN {0} ELSE Named(Stripped(span))

\* A list as the comment on __bitmap_parselist describes it, empty parts allowed,
\* every bit in the mask.
GoodList ==
    /\ Unbroken
    /\ \A span \in Spans :
        \/ Empty(span)
        \/ Named(Stripped(span)) # {} /\ Named(Stripped(span)) \subseteq 0 .. nmaskbits - 1

\* A good list is accepted, and read as the numbers and ranges it names, cpu 0 for an
\* empty part, and no others.
GoodListRead ==
    GoodList =>
        /\ ListEnd(list).ret = "ok"
        /\ ListEnd(list).mask =
              UNION { StandsFor(span) : span \in { sp \in Spans : ~Trailing(sp) } }

\* Every bit of the mask is one that a part of the list stands for.
NothingInvented ==
    \A b \in ListEnd(list).mask : \E span \in Spans : ~Trailing(span) /\ b \in StandsFor(span)

\* What the parser does not complain of it has taken in full.
NothingSkipped ==
    ListEnd(list).ret = "ok" => \A span \in Spans : StandsFor(span) # {}

\* __bitmap_parselist, which bans the cpus of IRQBALANCE_BANNED_CPULIST and of a
\* settings command: a good list gives the set it names.  The callers drop the error
\* and use the mask of a bad list as well, so whatever was typed, no cpu is banned
\* that the list does not stand for, and nothing is passed over in silence.  An empty
\* part stands for cpu 0.
ListParsed == GoodListRead /\ NothingInvented /\ NothingSkipped

GoodGroup(s) == s # <<>> /\ \A i \in 1 .. Len(s) : isxdigit(s[i])

\* The span's place among the groups of a mask, from the right.  A comma may end it.
PlaceOf(span) ==
    Cardinality({ other \in Spans : other[1] > span[1] /\ Part(other) # <<>> })

GroupIn(span) ==
    { k + CHUNKSZ * PlaceOf(span) : k \in BitsOf(NumberIn(16, Stripped(span))) }

HexBits == UNION { GroupIn(span) : span \in { sp \in Spans : Part(sp) # <<>> } }

GoodMask ==
    /\ text # <<>> /\ Unbroken
    /\ \A span \in Spans :
        \/ GoodGroup(Stripped(span)) /\ NumberIn(16, Stripped(span)) < 2^CHUNKSZ
        \/ span[2] = Len(text) /\ span[1] = Len(text) + 1 /\ span[1] > 1

\* __bitmap_parse, which reads masks from sysfs and IRQBALANCE_BANNED_CPUS: each
\* group is CHUNKSZ bits of the mask, the last one the lowest, and a mask too wide
\* is refused.
HexParsed ==
    GoodMask =>
        IF HexBits \subseteq 0 .. nmaskbits - 1
        THEN HexEnd(hex).ret = "ok" /\ HexEnd(hex).mask = HexBits
        ELSE HexEnd(hex).ret = "EOVERFLOW"

\* A set that one part writes is the set another part reads: the daemon's mask in
\* the user interface (parse_setup) and in the daemon, the interface's list of cpus
\* of an irq, and its list of banned cpus in setup_banned_cpus.
RoundTrip ==
    source.by \in Writers /\ rest = <<>> =>
        IF source.by = "bitmap_scnprintf"
        THEN parse_banned(text) = source.set /\ HexEnd(hex).mask = source.set
        ELSE ListEnd(list).mask = source.set

\* The objects above object i, by the parents f.
Above(i, f) ==
    LET up[n \in 0 .. MaxObjects] ==
            IF n = 0 THEN {i} ELSE up[n - 1] \cup { f[j] : j \in up[n - 1] \ {0} }
    IN  up[MaxObjects] \ {i}

\* What the daemon walked, and what the interface shows.
DaemonParent == [i \in 1 .. Len(objs) |-> objs[i].parent]
ShownParent == [i \in 1 .. Len(objs) |-> objs[i].read]

\* The tree the interface shows has every object below those that hold it.  What comes
\* after a package of the same node is the exception: a second package, or a cache domain
\* of the node itself, is read as a child of the first, so there an object may have more
\* above it, of type package.
TreeRead ==
    \A i \in 1 .. Len(objs) :
        /\ Above(i, DaemonParent) \subseteq Above(i, ShownParent)
        /\ \A j \in Above(i, ShownParent) \ Above(i, DaemonParent) : TypeOf(j) = 2

=============================================================================
