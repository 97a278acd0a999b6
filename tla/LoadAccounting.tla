--------------------------- MODULE LoadAccounting ---------------------------
(***************************************************************************)
(* How parse_proc_stat (procinterrupts.c) turns the irq and softirq time   *)
(* of each cpu into a load for every object of the tree and a fair share   *)
(* of it for every irq.  All operators are pure: the lists, counters and   *)
(* loads are arguments.                                                    *)
(***************************************************************************)
EXTENDS Topology

CONSTANT NsPerTick     \* NSEC_PER_SEC / HZ

ASSUME NsPerTickAssumption == NsPerTick \in Nat \ {0}

\* The sum of a list of numbers.
Total(s) == FoldLeft(LAMBDA a, b : a + b, 0, s)

SumOver(f(_), seq) == Total([k \in DOMAIN seq |-> f(seq[k])])

\* The loads after the cpu lines of /proc/stat: the cpus in `seen' get the time
\* since the last sample, in nanoseconds; on the first cycle there is no last
\* sample and every load stays as it is.
CpuLoads(load, sample, seen, cycle_count) ==
    [o \in Objects |-> IF o \in seen /\ cycle_count # 0
                       THEN sample[o] * NsPerTick
                       ELSE load[o]]

\* set_load and accumulate_load: the load of an object with children is the sum
\* of theirs.
set_load(load) ==
    LET total[o \in Objects] ==
            IF o \notin Reachable \/ children[o] = <<>> THEN load[o]
            ELSE SumOver(LAMBDA c : total[c], children[o])
    IN  total

\* accumulate_interrupts: interrupts since the last sample of the irqs an object
\* holds itself.
accumulate_interrupts(lists, diff) ==
    [o \in Objects |-> IF o \in Reachable
                       THEN SumOver(LAMBDA i : diff[i], lists[o])
                       ELSE 0]

\* get_parent_branch_irq_count_share
ParentBranchShare(count) ==
    LET share[o \in Objects] ==
            count[o] + IF parent[o] = NULL THEN 0
                       ELSE share[parent[o]] \div Len(children[parent[o]])
    IN  share

\* get_children_branch_irq_count
ChildrenBranchCount(count) ==
    LET below[o \in Objects] ==
            count[o] + SumOver(LAMBDA c : below[c], children[o])
    IN  below

\* compute_irq_branch_load_share: the load one interrupt stands for, on object o.
LoadSlice(load, count, o) ==
    LET below == ChildrenBranchCount(count)
        local == ParentBranchShare(count)[o]
                 + SumOver(LAMBDA c : below[c], children[o])
    IN  IF local = 0 THEN 1 ELSE load[o] \div local

\* assign_load_slice: an irq is worth its interrupts times the slice, at least 1.
SliceOf(diff, slice) == IF diff * slice = 0 THEN 1 ELSE diff * slice

\* The four compute_irq_branch_load_share passes: every irq some object holds
\* gets a share, the others keep what they have.
IrqLoads(lists, diff, load, irq_load) ==
    LET count == accumulate_interrupts(lists, diff)
    IN  [i \in DOMAIN irq_load |->
            IF \E o \in Objects : i \in Range(lists[o])
            THEN LET o == CHOOSE p \in Objects : i \in Range(lists[p])
                 IN  SliceOf(diff[i], LoadSlice(load, count, o))
            ELSE irq_load[i]]
=============================================================================
