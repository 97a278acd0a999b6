----------------------------- MODULE MCBalancer -----------------------------
(***************************************************************************)
(* Instances of Balancer for TLC.  Objects are named by strings, cpus and  *)
(* irqs by numbers; cpu 9 is banned wherever it appears.                   *)
(***************************************************************************)
EXTENDS Balancer

\* A machine without NUMA: one package, a cache shared by cpus 0 and 1, and a
\* cache of its own for cpu 2.
SmpObjects == {"node", "pkg", "l2a", "l2b", "cpu0", "cpu1", "cpu2"}
SmpType == [node |-> "NODE", pkg |-> "PACKAGE", l2a |-> "CACHE", l2b |-> "CACHE",
            cpu0 |-> "CPU", cpu1 |-> "CPU", cpu2 |-> "CPU"]
SmpNodes == <<"node">>
SmpPackages == <<"pkg">>
SmpCaches == <<"l2a", "l2b">>
SmpCpus == <<"cpu0", "cpu1", "cpu2">>
SmpChildren == [node |-> <<"pkg">>, pkg |-> <<"l2a", "l2b">>,
                l2a |-> <<"cpu0", "cpu1">>, l2b |-> <<"cpu2">>,
                cpu0 |-> <<>>, cpu1 |-> <<>>, cpu2 |-> <<>>]
SmpParent == [node |-> NULL, pkg |-> "node", l2a |-> "pkg", l2b |-> "pkg",
              cpu0 |-> "l2a", cpu1 |-> "l2a", cpu2 |-> "l2b"]
SmpMask == [node |-> CpuIds, pkg |-> {0, 1, 2}, l2a |-> {0, 1}, l2b |-> {2},
            cpu0 |-> {0}, cpu1 |-> {1}, cpu2 |-> {2}]

\* Two NUMA nodes with a package each; node 1 also has the banned cpu 9.
NumaObjects == {"any", "node0", "node1", "pkg0", "pkg1", "l2a", "l2b",
                "cpu0", "cpu1", "cpu2"}
NumaType == [any |-> "NODE", node0 |-> "NODE", node1 |-> "NODE",
             pkg0 |-> "PACKAGE", pkg1 |-> "PACKAGE",
             l2a |-> "CACHE", l2b |-> "CACHE",
             cpu0 |-> "CPU", cpu1 |-> "CPU", cpu2 |-> "CPU"]
NumaNodes == <<"any", "node0", "node1">>
NumaPackages == <<"pkg0", "pkg1">>
NumaChildren == [any |-> <<>>, node0 |-> <<"pkg0">>, node1 |-> <<"pkg1">>,
                 pkg0 |-> <<"l2a">>, pkg1 |-> <<"l2b">>,
                 l2a |-> <<"cpu0", "cpu1">>, l2b |-> <<"cpu2">>,
                 cpu0 |-> <<>>, cpu1 |-> <<>>, cpu2 |-> <<>>]
NumaParent == [any |-> NULL, node0 |-> NULL, node1 |-> NULL,
               pkg0 |-> "node0", pkg1 |-> "node1", l2a |-> "pkg0", l2b |-> "pkg1",
               cpu0 |-> "l2a", cpu1 |-> "l2a", cpu2 |-> "l2b"]
NumaMask == [any |-> CpuIds, node0 |-> {0, 1}, node1 |-> {2, 9},
             pkg0 |-> {0, 1}, pkg1 |-> {2}, l2a |-> {0, 1}, l2b |-> {2},
             cpu0 |-> {0}, cpu1 |-> {1}, cpu2 |-> {2}]

\* libnuma reports NUMA but sysfs lists no node: no package has a parent, and no
\* irq has a place.
OrphanObjects == {"any", "pkg", "l2a", "cpu0", "cpu1"}
OrphanType == [any |-> "NODE", pkg |-> "PACKAGE", l2a |-> "CACHE",
               cpu0 |-> "CPU", cpu1 |-> "CPU"]
OrphanNodes == <<"any">>
OrphanChildren == [any |-> <<>>, pkg |-> <<"l2a">>, l2a |-> <<"cpu0", "cpu1">>,
                   cpu0 |-> <<>>, cpu1 |-> <<>>]
OrphanParent == [any |-> NULL, pkg |-> NULL, l2a |-> "pkg",
                 cpu0 |-> "l2a", cpu1 |-> "l2a"]
OrphanMask == [any |-> CpuIds, pkg |-> {0, 1}, l2a |-> {0, 1},
               cpu0 |-> {0}, cpu1 |-> {1}]
OneCache == <<"l2a">>
TwoCpus == <<"cpu0", "cpu1">>

\* Two nodes with the same cpus (an emulated NUMA machine): sysfs puts every cpu
\* in the first one, the second stays without children.
EmulatedObjects == {"any", "node0", "node1", "pkg", "l2a", "cpu0", "cpu1"}
EmulatedType == [any |-> "NODE", node0 |-> "NODE", node1 |-> "NODE",
                 pkg |-> "PACKAGE", l2a |-> "CACHE",
                 cpu0 |-> "CPU", cpu1 |-> "CPU"]
EmulatedChildren == [any |-> <<>>, node0 |-> <<"pkg">>, node1 |-> <<>>,
                     pkg |-> <<"l2a">>, l2a |-> <<"cpu0", "cpu1">>,
                     cpu0 |-> <<>>, cpu1 |-> <<>>]
EmulatedParent == [any |-> NULL, node0 |-> NULL, node1 |-> NULL, pkg |-> "node0",
                   l2a |-> "pkg", cpu0 |-> "l2a", cpu1 |-> "l2a"]
EmulatedMask == [any |-> CpuIds, node0 |-> {0, 1, 9}, node1 |-> {0, 1, 9},
                 pkg |-> {0, 1}, l2a |-> {0, 1}, cpu0 |-> {0}, cpu1 |-> {1}]

\* Two cpus with a private cache each.
PrivateObjects == {"node", "pkg", "l2a", "l2b", "cpu0", "cpu1"}
PrivateType == [node |-> "NODE", pkg |-> "PACKAGE", l2a |-> "CACHE",
                l2b |-> "CACHE", cpu0 |-> "CPU", cpu1 |-> "CPU"]
PrivateChildren == [node |-> <<"pkg">>, pkg |-> <<"l2a", "l2b">>,
                    l2a |-> <<"cpu0">>, l2b |-> <<"cpu1">>,
                    cpu0 |-> <<>>, cpu1 |-> <<>>]
PrivateParent == [node |-> NULL, pkg |-> "node", l2a |-> "pkg", l2b |-> "pkg",
                  cpu0 |-> "l2a", cpu1 |-> "l2b"]
PrivateMask == [node |-> CpuIds, pkg |-> {0, 1}, l2a |-> {0}, l2b |-> {1},
                cpu0 |-> {0}, cpu1 |-> {1}]

TwoIrqs == {1, 2}
ThreeIrqs == {1, 2, 3}

\* What /proc/interrupts may list.
Everything == {Irqs}
Anything == SUBSET Irqs
BannedComeAndGo == {Irqs, Irqs \ BannedIrqs}

Classes == [i \in Irqs |-> 0]

\* Levels, by irq number.
CoreCache == [i \in Irqs |-> IF i = 1 THEN "CORE" ELSE "CACHE"]
CorePackage == [i \in Irqs |-> IF i = 1 THEN "CORE" ELSE "PACKAGE"]
CoreNone == [i \in Irqs |-> IF i = 2 THEN "NONE" ELSE "CORE"]

\* Devices without a node, and devices of which the first is on node 1.
AnyNode == [i \in Irqs |-> NoNode]
FirstOnNode1 == [i \in Irqs |-> IF i = 1 THEN "node1" ELSE NoNode]

\* Loads, in ticks.
Flat(v) == [o \in Objects |-> v]
On(c, v) == [o \in Objects |-> IF o = c THEN v ELSE 0]
Idle == {Flat(0)}
Uneven == {Flat(0), On("cpu0", 8)}
Varied == {[o \in Objects |-> IF o = "cpu0" THEN a ELSE IF o = "cpu1" THEN b ELSE 1] :
              a \in {7, 40}, b \in {3, 20}} \cup {Flat(3)}

\* The conditions of the theorems hold on these machines; the one about banned cpus
\* fails where it should, on the emulated NUMA machine, and the one about loose cpus on
\* the machine whose package has no node.
ASSUME InstanceConditions ==
    /\ MasksNest /\ Mirrored
    /\ CleanTree <=> Objects # EmulatedObjects
    /\ CpusReached <=> Objects # OrphanObjects
=============================================================================
