------------------------------ MODULE Balancer ------------------------------
(***************************************************************************)
(* The balancing cycle of irqbalance: scan() in irqbalance.c with          *)
(* everything it calls to read /proc, to choose the irqs to move           *)
(* (irqlist.c), to place them on the object tree (placement.c) and to      *)
(* write the result to /proc/irq/N/smp_affinity (activate.c).              *)
(*                                                                         *)
(* The daemon is one thread; a step of this module is one call of a        *)
(* for_each_irq or for_each_object callback, and pc says which loop of the *)
(* cycle is running.  `objs' and `work' are what is left of the object     *)
(* list and of the irq list that are being walked: no callback removes any *)
(* entry but its own from the list it is called on, so a snapshot taken    *)
(* when the loop starts is what the code visits.  The kernel is the        *)
(* environment: the contents of /proc and the answer to each write are     *)
(* chosen nondeterministically.                                            *)
(***************************************************************************)
EXTENDS LoadAccounting, Integers

CONSTANTS
    Irqs,                 \* irq numbers
    KernelIrqs,           \* what /proc/interrupts may list: a set of subsets of Irqs
    IrqDiffs,             \* interrupts an irq may have had since the last sample
    StatSamples,          \* ticks the cpus may have spent: a set of [Objects -> Nat]
    BannedIrqs,           \* irqs banned by the user, a module ban or a policy script
    DefaultAffinity,      \* the kernel's default smp_affinity
    Unreadable,           \* irqs whose smp_affinity cannot be read
    Events,               \* environment events this instance admits
    class,                \* [Irqs -> Nat]
    policy_level,         \* [Irqs -> Levels]: by policy script or map_class_to_level
    numa_node,            \* [Irqs -> Range(numa_nodes)]
    power_thresh,         \* NULL when off (ULONG_MAX)
    migrate_ratio,        \* --migrateval
    MAX_FALLBACK_ATTEMPTS,
    PowersaveCycles       \* cycles before powersave mode is considered (5)

\* BALANCE_NONE ... BALANCE_CORE
Levels == {"NONE", "PACKAGE", "CACHE", "CORE"}

\* What the environment may do beside answering as hoped.
AllEvents == {"rescan",     \* somebody asks for a rescan
              "nomem",      \* strdup fails while parsing
              "hotplug",    \* a new irq cannot be added to the database
              "mismatch",   \* a line has the wrong number of cpus, or a count fell
              "stat",       \* /proc/stat ends early
              "enospc", "transient", "permanent"}   \* answers to a write

ASSUME IrqAssumption ==
    /\ Irqs \subseteq Nat /\ IsFiniteSet(Irqs)
    /\ KernelIrqs \subseteq SUBSET Irqs
    /\ IrqDiffs \subseteq Nat
    /\ \A s \in StatSamples : \A k \in DOMAIN cpus : s[cpus[k]] \in Nat
    /\ BannedIrqs \subseteq Irqs
    /\ Unreadable \subseteq Irqs
    /\ DefaultAffinity \subseteq CpuIds
    /\ Events \subseteq AllEvents

ASSUME PolicyAssumption ==
    /\ class \in [Irqs -> Nat]
    /\ policy_level \in [Irqs -> Levels]
    /\ numa_node \in [Irqs -> Range(numa_nodes)]

ASSUME OptionAssumption ==
    /\ power_thresh \in Nat \cup {NULL}
    /\ migrate_ratio \in Nat
    /\ MAX_FALLBACK_ATTEMPTS \in Nat
    /\ PowersaveCycles \in Nat

INT_MAX == 2147483647
SLOTS_SATURATED == 0
SLOTS_PENALTY_THRESHOLD == 10
SLOTS_PENALTY_FACTOR == 1000

VARIABLES
    pc, objs, work,       \* the loop that runs and what is left of it
    rescanning,           \* the cycle is the rescan branch of scan()
    lb,                   \* struct load_balance_info, and the list it is about
    fb,                   \* locals of try_fallback_cpu: tried cpus, attempts
    interrupts_db,        \* GList of irqs
    banned_irqs,          \* GList of irqs, order irrelevant
    interrupts,           \* the irq list of each object; that of NULL is rebalance_irq_list
    assigned_obj, moved, level, existing,   \* fields of struct irq_info
    irq_diff,             \* irq_count - last_irq_count
    irq_load,             \* load of struct irq_info
    load, slots_left, powersave_mode,       \* fields of struct topo_obj
    cycle_count,          \* saturates at PowersaveCycles + 1
    need_rescan,
    smp_affinity          \* the kernel's /proc/irq/N/smp_affinity

loopVars == <<pc, objs, work, rescanning>>
dbVars == <<interrupts_db, banned_irqs, existing, irq_diff>>
irqVars == <<interrupts, assigned_obj, moved, level>>
objVars == <<load, slots_left, powersave_mode>>
cycleVars == <<cycle_count, need_rescan>>
vars == <<loopVars, lb, fb, dbVars, irqVars, irq_load, objVars, cycleVars,
          smp_affinity>>

rebalance_irq_list == interrupts[NULL]

-----------------------------------------------------------------------------
(* Moving one irq between two lists.                                       *)

\* migrate_irq finds the irq on the list it is moved from.
OnList(from, i) == i \in Range(interrupts[from])

\* migrate_irq_obj goes on after migrate_irq only if the irq has moved: now, or
\* already before.
MovedAfter(from, i) == moved[i] \/ OnList(from, i)

\* migrate_irq: the first entry of the irq goes from one list to the end of the other.
ListsAfter(from, to, i) ==
    LET rest == [interrupts EXCEPT ![from] = RemoveFirst(@, i)]
    IN  IF OnList(from, i) THEN [rest EXCEPT ![to] = Append(@, i)] ELSE interrupts

SlotsAfter(from, to, i) ==
    [o \in Objects |->
        IF slots_left[o] = INT_MAX \/ ~MovedAfter(from, i) THEN slots_left[o]
        ELSE slots_left[o] + (IF o = from THEN 1 ELSE 0)
                           - (IF o = to THEN 1 ELSE 0)]

LoadAfter(from, to, i) ==
    [o \in Objects |-> IF o = to /\ MovedAfter(from, i)
                       THEN load[o] + irq_load[i] + 1 ELSE load[o]]

\* Faulty variant: assigned_obj is not cleared.
AssignedAfter_Stale(from, to, i) ==
    IF MovedAfter(from, i) /\ to # NULL THEN [assigned_obj EXCEPT ![i] = to]
    ELSE assigned_obj

AssignedAfter(from, to, i) ==
    IF MovedAfter(from, i) THEN [assigned_obj EXCEPT ![i] = to]
    ELSE assigned_obj

\* migrate_irq_obj, with migrate_irq
migrate_irq_obj(from, to, i) ==
    /\ interrupts' = ListsAfter(from, to, i)
    /\ moved' = [moved EXCEPT ![i] = MovedAfter(from, i)]
    /\ slots_left' = SlotsAfter(from, to, i)
    /\ load' = LoadAfter(from, to, i)
    /\ assigned_obj' = AssignedAfter(from, to, i)

\* force_rebalance_irq
force_rebalance_irq(i) ==
    \/ /\ level[i] = "NONE"
       /\ UNCHANGED <<interrupts, moved, slots_left, load, assigned_obj>>
    \/ /\ level[i] # "NONE"
       /\ assigned_obj[i] = NULL
       /\ interrupts' = [interrupts EXCEPT ![NULL] = Append(@, i)]
       /\ UNCHANGED <<moved, slots_left, load, assigned_obj>>
    \/ /\ level[i] # "NONE"
       /\ assigned_obj[i] # NULL
       /\ migrate_irq_obj(assigned_obj[i], NULL, i)

\* sort_irqs: heavier classes first, then heavier irqs; equal irqs are ordered by
\* the address of their structure, which is any order.
SortsBefore(i, j) ==
    class[i] > class[j] \/ (class[i] = class[j] /\ irq_load[i] >= irq_load[j])

\* sort_irq_list
SortedLists(list) ==
    { s \in { [k \in 1 .. Len(list) |-> list[p[k]]] :
                  p \in Bijection(1 .. Len(list), 1 .. Len(list)) } :
        \A a, b \in 1 .. Len(list) : a < b => SortsBefore(s[a], s[b]) }

-----------------------------------------------------------------------------
(* Building the database: main() at the start, the rescan branch of scan() *)
(* later.                                                                  *)

NoInfo == [list |-> 0, avg |-> 0, min |-> 0, var |-> 0, adj |-> 0,
           num_over |-> 0, num_under |-> 0, num_powersave |-> 0,
           powersave |-> NULL]

NoFallback == [tried |-> {}, attempts |-> 0]

\* Sequences a file that lists irqs in increasing order may hold.
LinesOf(S) ==
    { s \in UNION { [1 .. n -> S] : n \in 0 .. Cardinality(S) } :
        \A a, b \in DOMAIN s : a < b => s[a] < s[b] }

ProcInterrupts == { s \in LinesOf(Irqs) : Range(s) \in KernelIrqs }

\* free_irq_db, free_cpu_topo: no list survives.
FreshLists == [h \in Holders |-> <<>>]

\* The state the program starts from: main() is about to build the tree.
Init ==
    /\ pc = "build" /\ objs = <<>> /\ work = <<>> /\ rescanning = TRUE
    /\ lb = NoInfo /\ fb = NoFallback
    /\ interrupts_db = <<>> /\ banned_irqs = {}
    /\ interrupts = [h \in Holders |-> <<>>]
    /\ assigned_obj = [i \in Irqs |-> NULL]
    /\ moved = [i \in Irqs |-> FALSE]
    /\ level = policy_level
    /\ existing = [i \in Irqs |-> FALSE]
    /\ irq_diff = [i \in Irqs |-> 0]
    /\ irq_load = [i \in Irqs |-> 0]
    /\ load = [o \in Objects |-> 0]
    /\ slots_left = [o \in Objects |-> 0]
    /\ powersave_mode = [o \in Objects |-> FALSE]
    /\ cycle_count = 0 /\ need_rescan = FALSE
    /\ smp_affinity = [i \in Irqs |-> DefaultAffinity]

\* free_object_tree and build_object_tree: every structure is new.  The database
\* is what sysfs and /proc/interrupts list now, in the order the device
\* directories are read.
Build ==
    /\ pc = "build"
    /\ \E K \in KernelIrqs : \E db \in SetToSeqs(K \ BannedIrqs) :
          /\ interrupts_db' = db
          /\ banned_irqs' = K \cap BannedIrqs
          /\ work' = db
    /\ interrupts' = FreshLists
    /\ assigned_obj' = [i \in Irqs |-> NULL]
    /\ moved' = [i \in Irqs |-> FALSE]
    /\ level' = policy_level
    /\ existing' = [i \in Irqs |-> FALSE]
    /\ irq_diff' = [i \in Irqs |-> 0]
    /\ irq_load' = [i \in Irqs |-> 0]
    /\ load' = [o \in Objects |-> 0]
    /\ slots_left' = [o \in Objects |-> 0]
    /\ powersave_mode' = [o \in Objects |-> FALSE]
    /\ cycle_count' = 0
    /\ need_rescan' = FALSE
    /\ pc' = "force" /\ rescanning' = TRUE
    /\ UNCHANGED <<objs, lb, fb, smp_affinity>>

\* for_each_irq(NULL, force_rebalance_irq, NULL)
ForceAll ==
    /\ pc = "force"
    /\ work # <<>>
    /\ force_rebalance_irq(Head(work))
    /\ work' = Tail(work)
    /\ UNCHANGED <<pc, objs, rescanning, lb, fb, dbVars, level, irq_load,
                   powersave_mode, cycleVars, smp_affinity>>

\* clear_slots, then the first read of /proc/interrupts.  (main() clears the
\* slots a little later; nothing reads them in between.)
ClearSlots ==
    /\ pc = "force"
    /\ work = <<>>
    /\ slots_left' = [o \in Objects |-> IF o \in Reachable THEN INT_MAX
                                        ELSE slots_left[o]]
    /\ work' \in ProcInterrupts
    /\ pc' = "parse"
    /\ UNCHANGED <<objs, rescanning, lb, fb, dbVars, irqVars, irq_load, load,
                   powersave_mode, cycleVars, smp_affinity>>

-----------------------------------------------------------------------------
(* A cycle starts: clear_work_stats and parse_proc_interrupts.             *)

\* clear_work_stats.  for_each_irq walks the whole database when it is given an
\* empty list, so one object without irqs is enough to clear every irq.
ClearedLoads ==
    [i \in Irqs |->
        IF \/ \E o \in Reachable : i \in Range(interrupts[o])
           \/ /\ \E o \in Reachable : interrupts[o] = <<>>
              /\ i \in Range(interrupts_db)
        THEN 0 ELSE irq_load[i]]

\* The timer fires: scan() begins.
StartScan ==
    /\ pc = "idle"
    /\ irq_load' = ClearedLoads
    /\ work' \in ProcInterrupts
    /\ pc' = "parse"
    /\ UNCHANGED <<objs, rescanning, lb, fb, dbVars, irqVars, objVars, cycleVars,
                   smp_affinity>>

\* SIGHUP, a settings command or a thermal event asks for a rescan.
RequestRescan ==
    /\ pc = "idle"
    /\ "rescan" \in Events
    /\ need_rescan' = TRUE
    /\ UNCHANGED <<loopVars, lb, fb, dbVars, irqVars, irq_load, objVars,
                   cycle_count, smp_affinity>>

\* get_irq_info
Known(i) == i \in Range(interrupts_db) \cup banned_irqs

\* Faulty variants: the new irq is not forced into rebalance_irq_list, or the ban
\* lists are not consulted.
proc_irq_hotplug_NotForced(i) ==
    /\ interrupts_db' = Append(interrupts_db, i)
    /\ UNCHANGED <<banned_irqs, interrupts>>

proc_irq_hotplug_IgnoresBan(i) ==
    /\ interrupts_db' = Append(interrupts_db, i)
    /\ interrupts' = [interrupts EXCEPT ![NULL] = Append(@, i)]
    /\ UNCHANGED banned_irqs

\* proc_irq_hotplug adds an irq to the database, or to banned_irqs, and forces it
\* into rebalance_irq_list.  force_rebalance_irq is called for a banned irq too:
\* its level is BALANCE_NONE because its structure is zeroed.
proc_irq_hotplug(i) ==
    /\ interrupts_db' = IF i \in BannedIrqs THEN interrupts_db
                        ELSE Append(interrupts_db, i)
    /\ banned_irqs' = IF i \in BannedIrqs THEN banned_irqs \cup {i}
                      ELSE banned_irqs
    /\ interrupts' = IF i \in BannedIrqs \/ policy_level[i] = "NONE" THEN interrupts
                     ELSE [interrupts EXCEPT ![NULL] = Append(@, i)]

\* The line's irq is found, or is new and can be added.
FindOrAdd(i) ==
    \/ Known(i) /\ UNCHANGED <<interrupts_db, banned_irqs, interrupts>>
    \/ ~Known(i) /\ proc_irq_hotplug(i)

\* One line of /proc/interrupts that is read to the end.
ParseLine ==
    /\ pc = "parse"
    /\ work # <<>>
    /\ FindOrAdd(Head(work))
    /\ existing' = [existing EXCEPT ![Head(work)] = TRUE]
    /\ \E d \in IrqDiffs : irq_diff' = [irq_diff EXCEPT ![Head(work)] = d]
    /\ work' = Tail(work)
    /\ UNCHANGED <<pc, objs, rescanning, lb, fb, assigned_obj, moved, level,
                   irq_load, objVars, cycleVars, smp_affinity>>

\* The number of columns is not the number of cpus, or the count went down: the
\* irq is there but parsing stops and a rescan is needed.
LineMismatch ==
    /\ pc = "parse"
    /\ work # <<>>
    /\ "mismatch" \in Events
    /\ FindOrAdd(Head(work))
    /\ existing' = [existing EXCEPT ![Head(work)] = TRUE]
    /\ need_rescan' = TRUE
    /\ work' = <<>>
    /\ UNCHANGED <<pc, objs, rescanning, lb, fb, irq_diff, assigned_obj, moved,
                   level, irq_load, objVars, cycle_count, smp_affinity>>

\* The irq is new and cannot be added.
HotplugFails ==
    /\ pc = "parse"
    /\ work # <<>>
    /\ "hotplug" \in Events
    /\ ~Known(Head(work))
    /\ need_rescan' = TRUE
    /\ work' = <<>>
    /\ UNCHANGED <<pc, objs, rescanning, lb, fb, dbVars, irqVars, irq_load,
                   objVars, cycle_count, smp_affinity>>

\* strdup fails: parsing stops, silently.
NoMemory ==
    /\ pc = "parse"
    /\ work # <<>>
    /\ "nomem" \in Events
    /\ work' = <<>>
    /\ UNCHANGED <<pc, objs, rescanning, lb, fb, dbVars, irqVars, irq_load,
                   objVars, cycleVars, smp_affinity>>

\* End of parse_proc_interrupts: irqs that were not listed are removed unless a
\* rescan will rebuild everything anyway.
EndParse ==
    /\ pc = "parse"
    /\ work = <<>>
    /\ \/ /\ need_rescan
          /\ pc' = IF rescanning THEN "stat" ELSE "build"
          /\ UNCHANGED work
       \/ /\ ~need_rescan
          /\ pc' = "clear"
          /\ work' = interrupts_db
    /\ UNCHANGED <<objs, rescanning, lb, fb, dbVars, irqVars, irq_load, objVars,
                   cycleVars, smp_affinity>>

\* remove_no_existing_irq, an irq that was listed
KeepExisting ==
    /\ pc = "clear"
    /\ work # <<>>
    /\ existing[Head(work)]
    /\ existing' = [existing EXCEPT ![Head(work)] = FALSE]
    /\ work' = Tail(work)
    /\ UNCHANGED <<pc, objs, rescanning, lb, fb, interrupts_db, banned_irqs,
                   irq_diff, irqVars, irq_load, objVars, cycleVars, smp_affinity>>

\* Faulty variant of RemovedFrom: rebalance_irq_list is forgotten.
RemovedFrom_OneList(i) ==
    [h \in Holders |-> IF h = assigned_obj[i] /\ h # NULL
                       THEN RemoveFirst(interrupts[h], i) ELSE interrupts[h]]

\* The lists without a freed irq: it leaves rebalance_irq_list and the list of its
\* object.
RemovedFrom(i) ==
    [h \in Holders |-> IF h \in {NULL, assigned_obj[i]}
                       THEN RemoveFirst(interrupts[h], i) ELSE interrupts[h]]

\* remove_no_existing_irq, an irq that is gone: its structure leaves every list
\* and is freed (the fields of a freed irq are set to their defaults).
RemoveNoExisting ==
    /\ pc = "clear"
    /\ work # <<>>
    /\ ~existing[Head(work)]
    /\ LET i == Head(work)
           o == assigned_obj[i]
       IN  /\ interrupts_db' = RemoveFirst(interrupts_db, i)
           /\ interrupts' = RemovedFrom(i)
           /\ slots_left' = [p \in Objects |->
                                IF p = o /\ OnList(p, i) THEN INT_MAX
                                ELSE slots_left[p]]
           /\ assigned_obj' = [assigned_obj EXCEPT ![i] = NULL]
           /\ moved' = [moved EXCEPT ![i] = FALSE]
           /\ level' = [level EXCEPT ![i] = policy_level[i]]
           /\ irq_diff' = [irq_diff EXCEPT ![i] = 0]
           /\ irq_load' = [irq_load EXCEPT ![i] = 0]
    /\ work' = Tail(work)
    /\ UNCHANGED <<pc, objs, rescanning, lb, fb, banned_irqs, existing, load,
                   powersave_mode, cycleVars, smp_affinity>>

\* The second loop of clear_no_existing_irqs, over banned_irqs.
ClearBanned ==
    /\ pc = "clear"
    /\ work = <<>>
    /\ banned_irqs' = { i \in banned_irqs : existing[i] }
    /\ existing' = [i \in Irqs |-> existing[i] /\ i \notin banned_irqs]
    /\ pc' = "stat"
    /\ UNCHANGED <<objs, work, rescanning, lb, fb, interrupts_db, irq_diff,
                   irqVars, irq_load, objVars, cycleVars, smp_affinity>>

-----------------------------------------------------------------------------
(* parse_proc_stat                                                         *)

\* Where scan() goes after parse_proc_stat: the rescan branch returns, the first
\* cycle has no loads to compare.
AfterStat ==
    /\ pc' = IF rescanning THEN "idle"
             ELSE IF cycle_count = 0 THEN "sort" ELSE "gather"
    /\ rescanning' = FALSE

ParseProcStat ==
    /\ pc = "stat"
    /\ \E sample \in StatSamples :
          LET total == set_load(CpuLoads(load, sample, Range(cpus), cycle_count))
          IN  /\ load' = total
              /\ irq_load' = IrqLoads(interrupts, irq_diff, total, irq_load)
    /\ AfterStat
    /\ UNCHANGED <<objs, work, lb, fb, dbVars, irqVars, slots_left,
                   powersave_mode, cycleVars, smp_affinity>>

\* Not every cpu is found in /proc/stat: the loads above the cpus and those of the
\* irqs are left alone.
StatFails ==
    /\ pc = "stat"
    /\ "stat" \in Events
    /\ \E sample \in StatSamples : \E n \in 0 .. Len(cpus) - 1 :
          load' = CpuLoads(load, sample, Range(SubSeq(cpus, 1, n)), cycle_count)
    /\ AfterStat
    /\ UNCHANGED <<objs, work, lb, fb, dbVars, irqVars, irq_load, slots_left,
                   powersave_mode, cycleVars, smp_affinity>>

-----------------------------------------------------------------------------
(* update_migration_status: find_overloaded_objs on each of the four       *)
(* lists, and powersave mode after the first.                              *)

ObjLists == <<cpus, cache_domains, packages, numa_nodes>>

Square(n) == n * n

\* gather_load_stats, compute_deviations.  `var' is the square of std_deviation:
\* x + sqrt(var) <= avg is avg >= x /\ var <= (avg - x)^2.
LoadStats(k) ==
    LET list == ObjLists[k]
        n == IF Len(list) = 0 THEN 1 ELSE Len(list)
        avg == SumOver(LAMBDA o : load[o], list) \div n
        dev == SumOver(LAMBDA o : Square(load[o] - avg), list)
    IN  [NoInfo EXCEPT !.list = k,
                       !.avg = avg,
                       !.min = IF list = <<>> THEN 0
                               ELSE Min({ load[o] : o \in Range(list) }),
                       !.var = IF n = 1 THEN 0 ELSE dev \div (n - 1)]

Gather ==
    /\ pc = "gather"
    /\ lb' = LoadStats(lb.list + 1)
    /\ objs' = ObjLists[lb.list + 1]
    /\ pc' = "objects"
    /\ UNCHANGED <<work, rescanning, fb, dbVars, irqVars, irq_load, objVars,
                   cycleVars, smp_affinity>>

Under(o) == load[o] <= lb.avg /\ lb.var <= Square(lb.avg - load[o])
Over(o) == load[o] >= lb.avg /\ lb.var <= Square(load[o] - lb.avg)

\* The counters migrate_overloaded_irqs keeps.
Counted(o) ==
    [lb EXCEPT
        !.num_powersave = IF powersave_mode[o] THEN @ + 1 ELSE @,
        !.num_under = IF Under(o) THEN @ + 1 ELSE @,
        !.num_over = IF ~Under(o) /\ Over(o) THEN @ + 1 ELSE @,
        !.powersave = IF /\ Under(o)
                         /\ power_thresh # NULL
                         /\ @ = NULL
                         /\ ~powersave_mode[o]
                      THEN o ELSE @]

HasCandidates(o) == load[o] > lb.min /\ Len(interrupts[o]) > 1

\* migrate_overloaded_irqs on an object with nothing to give.
PassObject ==
    /\ pc = "objects"
    /\ objs # <<>>
    /\ ~HasCandidates(Head(objs))
    /\ lb' = Counted(Head(objs))
    /\ objs' = Tail(objs)
    /\ UNCHANGED <<pc, work, rescanning, fb, dbVars, irqVars, irq_load, objVars,
                   cycleVars, smp_affinity>>

\* migrate_overloaded_irqs on an object whose irqs are candidates.
OpenObject ==
    /\ pc = "objects"
    /\ objs # <<>>
    /\ HasCandidates(Head(objs))
    /\ lb' = [Counted(Head(objs)) EXCEPT !.adj = load[Head(objs)]]
    /\ \E s \in SortedLists(interrupts[Head(objs)]) :
          /\ interrupts' = [interrupts EXCEPT ![Head(objs)] = s]
          /\ work' = s
    /\ objs' = Tail(objs)
    /\ pc' = "candidates"
    /\ UNCHANGED <<rescanning, fb, dbVars, assigned_obj, moved, level, irq_load,
                   objVars, cycleVars, smp_affinity>>

\* move_candidate_irqs: what rules an irq out, and whether moving it improves
\* the balance.
Movable(i) ==
    /\ level[i] # "NONE"
    /\ Len(interrupts[assigned_obj[i]]) > 1
    /\ irq_load[i] > 1

Improves(i) ==
    LET delta == IF migrate_ratio > 0 THEN (lb.adj - lb.min) \div migrate_ratio
                 ELSE 0
    IN  lb.min + irq_load[i] < delta + (lb.adj - irq_load[i])

\* Faulty variant: the two sides may swap.
Taken_Uncapped(i) ==
    [lb EXCEPT !.adj = @ - irq_load[i], !.min = @ + irq_load[i]]

\* The loads of the two sides once irq i is taken; the smaller one is capped so
\* that the sides never swap.
Taken(i) ==
    LET adj == lb.adj - irq_load[i]
        min == lb.min + irq_load[i]
    IN  [lb EXCEPT !.adj = adj, !.min = IF min > adj THEN adj ELSE min]

MoveCandidate ==
    /\ pc = "candidates"
    /\ work # <<>>
    /\ Movable(Head(work))
    /\ Improves(Head(work))
    /\ lb' = Taken(Head(work))
    /\ force_rebalance_irq(Head(work))
    /\ work' = Tail(work)
    /\ UNCHANGED <<pc, objs, rescanning, fb, dbVars, level, irq_load,
                   powersave_mode, cycleVars, smp_affinity>>

KeepCandidate ==
    /\ pc = "candidates"
    /\ work # <<>>
    /\ ~(Movable(Head(work)) /\ Improves(Head(work)))
    /\ work' = Tail(work)
    /\ UNCHANGED <<pc, objs, rescanning, lb, fb, dbVars, irqVars, irq_load,
                   objVars, cycleVars, smp_affinity>>

EndCandidates ==
    /\ pc = "candidates"
    /\ work = <<>>
    /\ pc' = "objects"
    /\ UNCHANGED <<objs, work, rescanning, lb, fb, dbVars, irqVars, irq_load,
                   objVars, cycleVars, smp_affinity>>

MayPowersave == lb.list = 1 /\ power_thresh # NULL /\ cycle_count > PowersaveCycles

Enters ==
    /\ MayPowersave
    /\ lb.num_over = 0
    /\ lb.num_under >= power_thresh
    /\ lb.powersave # NULL

Leaves == MayPowersave /\ ~Enters /\ lb.num_over # 0 /\ lb.num_powersave # 0

\* A cpu enters powersave mode; the irqs it holds are forced away one by one.
EnterPowersave ==
    /\ pc = "objects"
    /\ objs = <<>>
    /\ Enters
    /\ powersave_mode' = [powersave_mode EXCEPT ![lb.powersave] = TRUE]
    /\ work' = interrupts[lb.powersave]
    /\ pc' = "powersave"
    /\ UNCHANGED <<objs, rescanning, lb, fb, dbVars, irqVars, irq_load, load,
                   slots_left, cycleVars, smp_affinity>>

EmptyPowersave ==
    /\ pc = "powersave"
    /\ work # <<>>
    /\ force_rebalance_irq(Head(work))
    /\ work' = Tail(work)
    /\ UNCHANGED <<pc, objs, rescanning, lb, fb, dbVars, level, irq_load,
                   powersave_mode, cycleVars, smp_affinity>>

EndPowersave ==
    /\ pc = "powersave"
    /\ work = <<>>
    /\ pc' = "gather"
    /\ UNCHANGED <<objs, work, rescanning, lb, fb, dbVars, irqVars, irq_load,
                   objVars, cycleVars, smp_affinity>>

\* The end of a list: all cpus may leave powersave mode, then the next list, and
\* after numa_nodes the placement.
EndObjects ==
    /\ pc = "objects"
    /\ objs = <<>>
    /\ ~Enters
    /\ powersave_mode' = [o \in Objects |->
                             powersave_mode[o] /\ ~(Leaves /\ o \in Range(cpus))]
    /\ pc' = IF lb.list = Len(ObjLists) THEN "sort" ELSE "gather"
    /\ lb' = IF lb.list = Len(ObjLists) THEN NoInfo ELSE lb
    /\ UNCHANGED <<objs, work, rescanning, fb, dbVars, irqVars, irq_load, load,
                   slots_left, cycleVars, smp_affinity>>

-----------------------------------------------------------------------------
(* calculate_placement: the irqs of rebalance_irq_list get a node, then    *)
(* every moved irq is pushed down to the level it is balanced at.          *)

\* Faulty variant: with nothing to place, nothing is activated either.
SortRebalance_SkipsActivation ==
    /\ pc = "sort"
    /\ \E s \in SortedLists(rebalance_irq_list) :
          /\ interrupts' = [interrupts EXCEPT ![NULL] = s]
          /\ \/ s # <<>> /\ pc' = "place" /\ work' = s
             \/ s = <<>> /\ pc' = "activate" /\ work' = <<>>
    /\ UNCHANGED <<objs, rescanning, lb, fb, dbVars, assigned_obj, moved, level,
                   irq_load, objVars, cycleVars, smp_affinity>>

\* sort_irq_list(&rebalance_irq_list); an empty list skips the placement.
SortRebalance ==
    /\ pc = "sort"
    /\ \E s \in SortedLists(rebalance_irq_list) :
          /\ interrupts' = [interrupts EXCEPT ![NULL] = s]
          /\ \/ s # <<>> /\ pc' = "place" /\ work' = s
             \/ s = <<>> /\ pc' = "activate" /\ work' = interrupts_db
    /\ UNCHANGED <<objs, rescanning, lb, fb, dbVars, assigned_obj, moved, level,
                   irq_load, objVars, cycleVars, smp_affinity>>

\* Faulty variant: cpus in powersave mode are accepted.
Eligible_Powersave(d) ==
    /\ ~(numa_avail /\ d = NoNode)
    /\ obj_type[d] = "NODE" => mask[d] \cap unbanned_cpus # {}
    /\ slots_left[d] > 0

\* The early returns of find_best_object.
Eligible(d) ==
    /\ ~(numa_avail /\ d = NoNode)
    /\ obj_type[d] = "NODE" => mask[d] \cap unbanned_cpus # {}
    /\ ~powersave_mode[d]
    /\ slots_left[d] > 0

AdjustedCost(d) ==
    load[d] + IF slots_left[d] < SLOTS_PENALTY_THRESHOLD
              THEN (SLOTS_PENALTY_THRESHOLD - slots_left[d]) * SLOTS_PENALTY_FACTOR
              ELSE 0

\* find_best_object replaces its choice d by e.
Beats(e, d) ==
    \/ AdjustedCost(e) < AdjustedCost(d)
    \/ /\ AdjustedCost(e) = AdjustedCost(d)
       /\ \/ slots_left[e] > slots_left[d]
          \/ /\ slots_left[e] = slots_left[d]
             /\ Len(interrupts[e]) < Len(interrupts[d])

\* for_each_object(list, find_best_object) ends with the k-th object as its
\* choice: no eligible one beats it, and it beats those that come before it.
IsBest(list, k) ==
    /\ Eligible(list[k])
    /\ \A j \in DOMAIN list :
          Eligible(list[j]) =>
              /\ ~Beats(list[j], list[k])
              /\ j < k => Beats(list[k], list[j])

NoneEligible(list) == \A j \in DOMAIN list : ~Eligible(list[j])

\* Faulty variant: || written as &&.
HasNode_And(i) ==
    /\ numa_node[i] # NoNode /\ ~numa_avail
    /\ mask[numa_node[i]] \cap unbanned_cpus # {}

\* place_irq_in_node: the device has a node of its own and some cpu of it is allowed.
HasNode(i) ==
    /\ numa_node[i] # NoNode \/ ~numa_avail
    /\ mask[numa_node[i]] \cap unbanned_cpus # {}

\* Faulty variant: without banned cpus every irq is left alone.
LeftAlone_All(i) == banned_cpus = {}

\* An irq that is not balanced is placed only to get it off banned cpus.
LeftAlone(i) == level[i] = "NONE" /\ banned_cpus = {}

PlaceInNode ==
    /\ pc = "place"
    /\ work # <<>>
    /\ LET i == Head(work)
       IN  \/ /\ ~LeftAlone(i)
              /\ HasNode(i)
              /\ migrate_irq_obj(assigned_obj[i], numa_node[i], i)
           \/ /\ ~LeftAlone(i)
              /\ ~HasNode(i)
              /\ \E k \in DOMAIN numa_nodes :
                    /\ IsBest(numa_nodes, k)
                    /\ migrate_irq_obj(assigned_obj[i], numa_nodes[k], i)
    /\ work' = Tail(work)
    /\ UNCHANGED <<pc, objs, rescanning, lb, fb, dbVars, level, irq_load,
                   powersave_mode, cycleVars, smp_affinity>>

\* No node can take the irq: it stays on rebalance_irq_list.
NotPlaced ==
    /\ pc = "place"
    /\ work # <<>>
    /\ \/ LeftAlone(Head(work))
       \/ ~HasNode(Head(work)) /\ NoneEligible(numa_nodes)
    /\ work' = Tail(work)
    /\ UNCHANGED <<pc, objs, rescanning, lb, fb, dbVars, irqVars, irq_load,
                   objVars, cycleVars, smp_affinity>>

\* Faulty variant: packages are visited before the nodes fill them.
EndPlace_WrongOrder ==
    /\ pc = "place"
    /\ work = <<>>
    /\ objs' = packages \o numa_nodes \o cache_domains
    /\ pc' = "domains"
    /\ UNCHANGED <<work, rescanning, lb, fb, dbVars, irqVars, irq_load, objVars,
                   cycleVars, smp_affinity>>

\* The three for_each_object(..., place_irq_in_object) loops, from the top down.
EndPlace ==
    /\ pc = "place"
    /\ work = <<>>
    /\ objs' = numa_nodes \o packages \o cache_domains
    /\ pc' = "domains"
    /\ UNCHANGED <<work, rescanning, lb, fb, dbVars, irqVars, irq_load, objVars,
                   cycleVars, smp_affinity>>

\* place_irq_in_object
OpenDomain ==
    /\ pc = "domains"
    /\ objs # <<>>
    /\ work' = interrupts[Head(objs)]
    /\ pc' = "push"
    /\ UNCHANGED <<objs, rescanning, lb, fb, dbVars, irqVars, irq_load, objVars,
                   cycleVars, smp_affinity>>

\* Faulty variant: every irq stops at the node.
AtItsLevel_Node(i, d) ==
    \/ obj_type[d] = "NODE"
    \/ obj_type[d] = "PACKAGE" /\ level[i] = "PACKAGE"
    \/ obj_type[d] = "CACHE" /\ level[i] = "CACHE"
    \/ obj_type[d] = "CPU" /\ level[i] = "CORE"

\* The switch of find_best_object_for_irq: the irq is balanced at this level.
AtItsLevel(i, d) ==
    \/ obj_type[d] = "NODE" /\ level[i] = "NONE"
    \/ obj_type[d] = "PACKAGE" /\ level[i] = "PACKAGE"
    \/ obj_type[d] = "CACHE" /\ level[i] = "CACHE"
    \/ obj_type[d] = "CPU" /\ level[i] = "CORE"

\* find_best_object_for_irq
PushDown ==
    /\ pc = "push"
    /\ work # <<>>
    /\ moved[Head(work)]
    /\ ~AtItsLevel(Head(work), Head(objs))
    /\ \E k \in DOMAIN children[Head(objs)] :
          /\ IsBest(children[Head(objs)], k)
          /\ migrate_irq_obj(Head(objs), children[Head(objs)][k], Head(work))
    /\ work' = Tail(work)
    /\ UNCHANGED <<pc, objs, rescanning, lb, fb, dbVars, level, irq_load,
                   powersave_mode, cycleVars, smp_affinity>>

StayHere ==
    /\ pc = "push"
    /\ work # <<>>
    /\ \/ ~moved[Head(work)]
       \/ AtItsLevel(Head(work), Head(objs))
       \/ NoneEligible(children[Head(objs)])
    /\ work' = Tail(work)
    /\ UNCHANGED <<pc, objs, rescanning, lb, fb, dbVars, irqVars, irq_load,
                   objVars, cycleVars, smp_affinity>>

CloseDomain ==
    /\ pc = "push"
    /\ work = <<>>
    /\ objs' = Tail(objs)
    /\ pc' = "domains"
    /\ UNCHANGED <<work, rescanning, lb, fb, dbVars, irqVars, irq_load, objVars,
                   cycleVars, smp_affinity>>

EndDomains ==
    /\ pc = "domains"
    /\ objs = <<>>
    /\ work' = interrupts_db
    /\ pc' = "activate"
    /\ UNCHANGED <<objs, rescanning, lb, fb, dbVars, irqVars, irq_load, objVars,
                   cycleVars, smp_affinity>>

-----------------------------------------------------------------------------
(* activate_mappings                                                       *)

AppliedMask(o) == cpu_online_map \cap mask[o]

ToActivate(i) == moved[i] /\ assigned_obj[i] # NULL

\* check_affinity: nothing to write, or no way to know.
AffinityStands(i) ==
    i \in Unreadable \/ smp_affinity[i] = AppliedMask(assigned_obj[i])

SkipActivation ==
    /\ pc = "activate"
    /\ work # <<>>
    /\ ~ToActivate(Head(work))
    /\ work' = Tail(work)
    /\ UNCHANGED <<pc, objs, rescanning, lb, fb, dbVars, irqVars, irq_load,
                   objVars, cycleVars, smp_affinity>>

AlreadyApplied ==
    /\ pc = "activate"
    /\ work # <<>>
    /\ ToActivate(Head(work))
    /\ AffinityStands(Head(work))
    /\ moved' = [moved EXCEPT ![Head(work)] = FALSE]
    /\ work' = Tail(work)
    /\ UNCHANGED <<pc, objs, rescanning, lb, fb, dbVars, interrupts, assigned_obj,
                   level, irq_load, objVars, cycleVars, smp_affinity>>

Writes(i) == ToActivate(i) /\ ~AffinityStands(i)

WriteSucceeds ==
    /\ pc = "activate"
    /\ work # <<>>
    /\ Writes(Head(work))
    /\ smp_affinity' = [smp_affinity EXCEPT
                           ![Head(work)] = AppliedMask(assigned_obj[Head(work)])]
    /\ moved' = [moved EXCEPT ![Head(work)] = FALSE]
    /\ work' = Tail(work)
    /\ UNCHANGED <<pc, objs, rescanning, lb, fb, dbVars, interrupts, assigned_obj,
                   level, irq_load, objVars, cycleVars>>

\* Faulty variant: a transient error marks the move as done.
WriteFailsForNow_Forgets ==
    /\ pc = "activate"
    /\ work # <<>>
    /\ Writes(Head(work))
    /\ "transient" \in Events
    /\ moved' = [moved EXCEPT ![Head(work)] = FALSE]
    /\ work' = Tail(work)
    /\ UNCHANGED <<pc, objs, rescanning, lb, fb, dbVars, interrupts, assigned_obj,
                   level, irq_load, objVars, cycleVars, smp_affinity>>

\* EAGAIN, EBUSY, EINVAL, ERANGE, ENOMEM: moved stays set, the next cycle retries.
WriteFailsForNow ==
    /\ pc = "activate"
    /\ work # <<>>
    /\ Writes(Head(work))
    /\ "transient" \in Events
    /\ work' = Tail(work)
    /\ UNCHANGED <<pc, objs, rescanning, lb, fb, dbVars, irqVars, irq_load,
                   objVars, cycleVars, smp_affinity>>

\* Any other error: the irq is never balanced again.
WriteFailsForGood ==
    /\ pc = "activate"
    /\ work # <<>>
    /\ Writes(Head(work))
    /\ "permanent" \in Events
    /\ level' = [level EXCEPT ![Head(work)] = "NONE"]
    /\ moved' = [moved EXCEPT ![Head(work)] = FALSE]
    /\ work' = Tail(work)
    /\ UNCHANGED <<pc, objs, rescanning, lb, fb, dbVars, interrupts, assigned_obj,
                   irq_load, objVars, cycleVars, smp_affinity>>

\* Faulty variant: a domain is marked as well.
Saturated_Domain(slots, o) == [slots EXCEPT ![o] = SLOTS_SATURATED]

\* A domain is not marked: it is not known which of its cpus is full.
Saturated(slots, o) ==
    [p \in Objects |-> IF p = o /\ obj_type[p] = "CPU" THEN SLOTS_SATURATED
                       ELSE slots[p]]

\* ENOSPC: the cpu has no vector left.  The irq stays at the head of `work' while
\* try_fallback_cpu runs.
NoSpace ==
    /\ pc = "activate"
    /\ work # <<>>
    /\ Writes(Head(work))
    /\ "enospc" \in Events
    /\ slots_left' = Saturated(slots_left, assigned_obj[Head(work)])
    /\ fb' = NoFallback
    /\ pc' = "fallback"
    /\ UNCHANGED <<objs, work, rescanning, lb, dbVars, irqVars, irq_load, load,
                   powersave_mode, cycleVars, smp_affinity>>

\* search_scope of try_fallback_cpu; NULL declines.
FallbackScope(i) ==
    LET o == assigned_obj[i]
    IN  IF level[i] \in {"CORE", "NONE"} THEN NULL
        ELSE IF obj_type[o] = "CPU" THEN Ancestor(o, level[i]) ELSE o

is_valid_fallback(c, original) ==
    /\ c # original
    /\ obj_type[c] = "CPU"
    /\ slots_left[c] > SLOTS_SATURATED
    /\ mask[c] \cap unbanned_cpus # {}
    /\ mask[c] \cap fb.tried = {}

Fallbacks(i) ==
    { c \in Objects : /\ FallbackScope(i) # NULL
                      /\ c \in Range(CpusUnder[FallbackScope(i)])
                      /\ is_valid_fallback(c, assigned_obj[i]) }

\* find_best_cpu_under_obj: most slots left, then first in the walk.
IsBestFallback(c, i) ==
    LET walk == CpusUnder[FallbackScope(i)]
    IN  /\ c \in Fallbacks(i)
        /\ \E k \in DOMAIN walk :
              /\ walk[k] = c
              /\ \A j \in DOMAIN walk :
                    walk[j] \in Fallbacks(i) =>
                        /\ slots_left[walk[j]] <= slots_left[c]
                        /\ j < k => slots_left[walk[j]] < slots_left[c]

MayTry == pc = "fallback" /\ fb.attempts < MAX_FALLBACK_ATTEMPTS

\* Faulty variant: the attempts are counted down.
Tried_CountsDown(c) == [tried |-> fb.tried \cup mask[c], attempts |-> fb.attempts - 1]

\* The cpu is not tried again for this irq.
Tried(c) == [tried |-> fb.tried \cup mask[c], attempts |-> fb.attempts + 1]

\* The fallback cpu takes the irq.  migrate_irq_obj gives the original cpu a slot
\* back; it is full all the same and is clamped again.
FallbackSucceeds ==
    /\ MayTry
    /\ LET i == Head(work)
           original == assigned_obj[i]
       IN  \E c \in Objects :
              /\ IsBestFallback(c, i)
              /\ smp_affinity' = [smp_affinity EXCEPT ![i] = AppliedMask(c)]
              /\ interrupts' = ListsAfter(original, c, i)
              /\ assigned_obj' = AssignedAfter(original, c, i)
              /\ load' = LoadAfter(original, c, i)
              /\ slots_left' = Saturated(SlotsAfter(original, c, i), original)
              /\ moved' = [moved EXCEPT ![i] = FALSE]
    /\ fb' = NoFallback
    /\ work' = Tail(work)
    /\ pc' = "activate"
    /\ UNCHANGED <<objs, rescanning, lb, dbVars, level, irq_load, powersave_mode,
                   cycleVars>>

\* The fallback cpu is full as well.
FallbackFull ==
    /\ MayTry
    /\ \E c \in Objects :
          /\ IsBestFallback(c, Head(work))
          /\ slots_left' = [slots_left EXCEPT ![c] = SLOTS_SATURATED]
          /\ fb' = Tried(c)
    /\ UNCHANGED <<loopVars, lb, dbVars, irqVars, irq_load, load, powersave_mode,
                   cycleVars, smp_affinity>>

\* The write to the fallback cpu fails for another reason.
FallbackRefused ==
    /\ MayTry
    /\ "transient" \in Events
    /\ \E c \in Objects :
          /\ IsBestFallback(c, Head(work))
          /\ fb' = Tried(c)
    /\ UNCHANGED <<loopVars, lb, dbVars, irqVars, irq_load, objVars, cycleVars,
                   smp_affinity>>

\* try_fallback_cpu returns -1: force_rebalance_irq, then moved is cleared.
GiveUp ==
    /\ pc = "fallback"
    /\ Fallbacks(Head(work)) = {} \/ fb.attempts >= MAX_FALLBACK_ATTEMPTS
    /\ LET i == Head(work)
           o == assigned_obj[i]
           stays == level[i] = "NONE"
       IN  /\ interrupts' = IF stays THEN interrupts ELSE ListsAfter(o, NULL, i)
           /\ assigned_obj' = IF stays THEN assigned_obj
                              ELSE AssignedAfter(o, NULL, i)
           /\ load' = IF stays THEN load ELSE LoadAfter(o, NULL, i)
           /\ slots_left' = IF stays THEN slots_left ELSE SlotsAfter(o, NULL, i)
    /\ moved' = [moved EXCEPT ![Head(work)] = FALSE]
    /\ fb' = NoFallback
    /\ work' = Tail(work)
    /\ pc' = "activate"
    /\ UNCHANGED <<objs, rescanning, lb, dbVars, level, irq_load, powersave_mode,
                   cycleVars, smp_affinity>>

\* scan() returns; the timer will fire again.
EndScan ==
    /\ pc = "activate"
    /\ work = <<>>
    /\ cycle_count' = IF cycle_count > PowersaveCycles THEN cycle_count
                      ELSE cycle_count + 1
    /\ pc' = "idle"
    /\ UNCHANGED <<objs, work, rescanning, lb, fb, dbVars, irqVars, irq_load,
                   objVars, need_rescan, smp_affinity>>

-----------------------------------------------------------------------------
Rebuilding == Build \/ ForceAll \/ ClearSlots

Parsing == \/ StartScan \/ ParseLine \/ LineMismatch \/ HotplugFails \/ NoMemory
           \/ EndParse \/ KeepExisting \/ RemoveNoExisting \/ ClearBanned
           \/ ParseProcStat \/ StatFails

Selecting == \/ Gather \/ PassObject \/ OpenObject \/ MoveCandidate
             \/ KeepCandidate \/ EndCandidates \/ EnterPowersave
             \/ EmptyPowersave \/ EndPowersave \/ EndObjects

Placing == \/ SortRebalance \/ PlaceInNode \/ NotPlaced \/ EndPlace
           \/ OpenDomain \/ PushDown \/ StayHere \/ CloseDomain \/ EndDomains

Activating == \/ SkipActivation \/ AlreadyApplied \/ WriteSucceeds
              \/ WriteFailsForNow \/ WriteFailsForGood \/ NoSpace
              \/ FallbackSucceeds \/ FallbackFull \/ FallbackRefused \/ GiveUp
              \/ EndScan

Cycle == Rebuilding \/ Parsing \/ Selecting \/ Placing \/ Activating

Next == Cycle \/ RequestRescan

\* The daemon's thread keeps running: every callback returns and the timer fires
\* again and again.
Spec == Init /\ [][Next]_vars /\ WF_vars(Cycle)

-----------------------------------------------------------------------------
(* Properties                                                              *)

PCs == {"build", "force", "parse", "clear", "stat", "gather", "objects",
        "candidates", "powersave", "sort", "place", "domains", "push",
        "activate", "fallback", "idle"}

\* Every variable has the type of the field or the local it stands for.
TypeOK ==
    /\ pc \in PCs
    /\ objs \in Seq(Objects)
    /\ work \in Seq(Irqs)
    /\ rescanning \in BOOLEAN
    /\ interrupts_db \in Seq(Irqs)
    /\ banned_irqs \in SUBSET BannedIrqs
    /\ interrupts \in [Holders -> Seq(Irqs)]
    /\ assigned_obj \in [Irqs -> Holders]
    /\ moved \in [Irqs -> BOOLEAN]
    /\ level \in [Irqs -> Levels]
    /\ existing \in [Irqs -> BOOLEAN]
    /\ slots_left \in [Objects -> Int]
    /\ powersave_mode \in [Objects -> BOOLEAN]
    /\ cycle_count \in Nat
    /\ need_rescan \in BOOLEAN
    /\ smp_affinity \in [Irqs -> SUBSET CpuIds]
    /\ lb.powersave \in Holders
    /\ fb.tried \subseteq CpuIds /\ fb.attempts \in Nat

\* What validate_object_tree_placement checks in debug mode, and more: an irq on
\* the list of an object points back to that object, one on rebalance_irq_list
\* points nowhere, and no list holds an irq twice.
ListsAgree ==
    \A h \in Holders :
        /\ \A i \in Range(interrupts[h]) : assigned_obj[i] = h
        /\ IsInjective(interrupts[h])

\* No list keeps an irq whose structure remove_no_existing_irq has freed, nor a
\* banned one.
ListsLive == \A h \in Holders : Range(interrupts[h]) \subseteq Range(interrupts_db)

\* The irqs main() and the rescan branch still have to force into
\* rebalance_irq_list.
Pending == IF pc = "force" THEN Range(work) ELSE {}

\* Every irq of the database that may be balanced is on the list of the object it
\* is assigned to, or on rebalance_irq_list: whatever the kernel answers, no irq
\* drops out of balancing.
NoIrqLost ==
    \A i \in Range(interrupts_db) \ Pending :
        level[i] # "NONE" => i \in Range(interrupts[assigned_obj[i]])

\* An irq that is opted out of balancing, by policy or by a permanent error, is
\* never waiting for a move or for a write.
NoneStays ==
    \A i \in Range(interrupts_db) :
        level[i] = "NONE" => ~moved[i] /\ i \notin Range(rebalance_irq_list)

\* slots_left never drifts below SLOTS_SATURATED, and only cpus are ever limited:
\* a domain can always be entered.
SlotsBounded ==
    \A o \in Objects :
        /\ slots_left[o] >= SLOTS_SATURATED
        /\ /\ o \in Reachable
           /\ obj_type[o] # "CPU"
           /\ pc \notin {"build", "force"}
           => slots_left[o] = INT_MAX

\* Once an irq is no longer marked as moved, the kernel has the affinity of the
\* object the daemon believes the irq is on.
AffinityApplied ==
    \A i \in Range(interrupts_db) \ Unreadable :
        level[i] # "NONE" /\ assigned_obj[i] # NULL /\ ~moved[i]
            => smp_affinity[i] = AppliedMask(assigned_obj[i])

\* "blank out the banned cpus from the various masks so that interrupts will never
\* be told to go there" (do_one_cpu): no write contains a banned cpu, and none is
\* empty.
BannedCpusSpared ==
    [][\A i \in Irqs : smp_affinity'[i] # smp_affinity[i] =>
          smp_affinity'[i] # {} /\ smp_affinity'[i] \cap banned_cpus = {}]_vars

\* irqbalance will not affect the affinity of a banned irq (irqbalance.1).
BannedIrqsSpared ==
    [][\A i \in BannedIrqs : smp_affinity'[i] = smp_affinity[i]]_vars

\* The unsigned subtractions of move_candidate_irqs never wrap: the shares of the
\* irqs of an object do not exceed its load, and the two sides do not cross.
NoWrap ==
    pc = "candidates" =>
        /\ lb.min <= lb.adj
        /\ work # <<>> /\ Movable(Head(work)) => irq_load[Head(work)] <= lb.adj

Below(n) == LET p == Range(children[n])
                c == ChildSet(p)
            IN  {n} \cup p \cup c \cup ChildSet(c)

\* "This irq belongs to a device with a preferred numa node put it on that node"
\* (place_irq_in_node): no later step, fallback included, takes it off that node.
NumaLocal ==
    \A i \in Range(interrupts_db) :
        /\ numa_node[i] # NoNode
        /\ mask[numa_node[i]] \cap unbanned_cpus # {}
        /\ assigned_obj[i] # NULL
        =>
            assigned_obj[i] \in Below(numa_node[i])

\* At the end of calculate_placement every moved irq has reached the level it is
\* balanced at, a cpu, or an object none of whose children can take it.
PlacementComplete ==
    pc = "domains" /\ objs = <<>> =>
        \A i \in Range(interrupts_db) : moved[i] =>
            /\ assigned_obj[i] # NULL
            /\ \/ obj_type[assigned_obj[i]] = "CPU"
               \/ AtItsLevel(i, assigned_obj[i])
               \/ NoneEligible(children[assigned_obj[i]])

\* update_migration_status empties a cpu that enters powersave mode and placement
\* never picks it: between two cycles it holds no irq that may be balanced.
PowersaveEmpty ==
    pc = "idle" =>
        \A c \in Range(cpus) : powersave_mode[c] =>
            \A i \in Range(interrupts[c]) : level[i] = "NONE"

\* Every irq on rebalance_irq_list is eventually taken off it.
EventuallyPlaced ==
    \A i \in Irqs : i \in Range(rebalance_irq_list)
                    ~> i \notin Range(rebalance_irq_list)

\* A move the kernel keeps refusing with a transient error is retried until it is
\* done, or the irq is given a new place or disappears.
EventuallyApplied == \A i \in Irqs : moved[i] ~> ~moved[i]

\* The kernel does not refuse the same irq forever.
FairSpec ==
    /\ Spec
    /\ \A i \in Irqs : SF_vars(WriteSucceeds /\ Head(work) = i)

-----------------------------------------------------------------------------
(* What the cycle promises about an irq                                    *)

\* The irq as a user sees it: nothing is known of it before it is forced into
\* rebalance_irq_list.
LifeStatus ==
    [i \in Irqs |->
        IF i \notin Range(interrupts_db) \ Pending THEN "unknown"
        ELSE IF level[i] = "NONE" THEN "left"
        ELSE IF assigned_obj[i] = NULL THEN "waiting"
        ELSE IF moved[i] THEN "chosen"
        ELSE "settled"]

LifePlace ==
    [i \in Irqs |-> IF LifeStatus[i] \in {"chosen", "settled"} THEN assigned_obj[i] ELSE NULL]

Life == INSTANCE IrqLife WITH
    Places <- Objects, CpusOf <- [o \in Objects |-> AppliedMask(o)], NoPlace <- NULL,
    Opaque <- Unreadable, status <- LifeStatus, place <- LifePlace, affinity <- smp_affinity

\* The cycle, with its loops, retries, fallbacks and rescans, does to an irq only what
\* IrqLife says: the kernel is told of a place only after it was chosen and narrowed
\* down the tree, an irq counts as settled only once the kernel has been told, and one
\* that is left alone is not touched before a rescan.
LifeRefined == Life!Spec
=============================================================================
