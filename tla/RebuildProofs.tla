---------------------------- MODULE RebuildProofs ---------------------------
(***************************************************************************)
(* The tree and the irq database through every rebuild and every read of   *)
(* /proc/interrupts, for every machine and whatever comes, goes and fails  *)
(* meanwhile: first the steps of CpuTree, one by one, then the database.   *)
(***************************************************************************)
EXTENDS Rebuild, SequenceFacts, FiniteSetTheorems, TLAPS

-----------------------------------------------------------------------------
(* The tree: the invariant                                                 *)

TreePcs == {"free", "nodes", "visit", "package", "cache", "add"}
CpuPcs == {"package", "cache", "add"}

\* The nodes a cpu or an object of the tree can be on.
NodeNumbers == {NUMA_NO_NODE} \cup Range(machine.node)

Object == [mask : SUBSET CpuIds, children : SUBSET Nat,
           numa_nodes : SUBSET NodeNumbers, parent : Int]
Node == [mask : SUBSET CpuIds, children : SUBSET ({"package", "cache"} \X Nat)]

TreeTypes ==
    /\ packages \in Seq(Object) /\ cache_domains \in Seq(Object)
    /\ numa_nodes \in [DOMAIN numa_nodes -> Node] /\ DOMAIN numa_nodes \subseteq NodeNumbers
    /\ cpus \in [DOMAIN cpus -> Nat] /\ DOMAIN cpus \subseteq CpuIds
    /\ cpu_online_map \subseteq CpuIds

LocalTypes ==
    /\ pc = "nodes" => todo \subseteq NodeNumbers
    /\ pc \in {"visit"} \cup CpuPcs => todo \subseteq CpuIds
    /\ pc \in CpuPcs => cpu \in CpuIds \ banned_cpus
    /\ package_mask \subseteq CpuIds /\ cache_mask \subseteq CpuIds
    /\ need_rebuild \in BOOLEAN

TreeType ==
    /\ machine \in Machines /\ online \subseteq CpuIds
    /\ TreeTypes /\ LocalTypes

\* The links between the lists stay within them.
Linked ==
    /\ \A c \in DOMAIN cpus : cpus[c] # 0 =>
          cpus[c] \in 1 .. Len(cache_domains) /\ c \in cache_domains[cpus[c]].children
    /\ \A k \in 1 .. Len(cache_domains) :
          /\ cache_domains[k].parent \in 0 .. Len(packages)
          /\ cache_domains[k].children \subseteq DOMAIN cpus
    /\ \A p \in 1 .. Len(packages) :
          /\ packages[p].children \subseteq 1 .. Len(cache_domains)
          /\ packages[p].numa_nodes \subseteq DOMAIN numa_nodes

\* A cache domain holds cpus of its mask, and no mask has a banned cpu.
Masked ==
    /\ \A k \in 1 .. Len(packages) : packages[k].mask \cap banned_cpus = {}
    /\ \A k \in 1 .. Len(cache_domains) :
          /\ cache_domains[k].mask \cap banned_cpus = {}
          /\ cache_domains[k].children \subseteq cache_domains[k].mask

\* A mask that has been read has the cpu it was read for, and a cache domain is on one
\* node.
HasCpu ==
    /\ pc \in {"cache", "add"} => cpu \in package_mask
    /\ pc = "add" => /\ cpu \in cache_mask
                     /\ \A c \in cache_mask : machine.node[c] = machine.node[cpu]

\* The mask of the node of cpu c, once it has been read, has c.
InNode(c) ==
    numa_avail /\ machine.node[c] \in DOMAIN numa_nodes =>
        c \in numa_nodes[machine.node[c]].mask

\* The mask of a cache domain is part of that of its package.
Inside ==
    \A k \in 1 .. Len(cache_domains) :
        cache_domains[k].parent # 0 =>
            cache_domains[k].mask \subseteq packages[cache_domains[k].parent].mask

\* As long as no cpu has come since the build began, what is online now was online
\* when the masks were read, and the masks nest.
Early ==
    late = {} =>
        /\ \A c \in online : InNode(c)
        /\ pc \in CpuPcs => InNode(cpu)
        /\ pc = "cache" /\ cpu \in online =>
              Siblings(machine.package, cpu) \subseteq package_mask
        /\ pc = "add" => /\ cache_mask \subseteq package_mask
                         /\ \A c \in cache_mask : InNode(c)
        /\ Inside

MaskInv == Linked /\ Masked /\ HasCpu /\ Early

\* Where cpu c is, in the numbers of the list of nodes.
NodeOfCpu(c) == IF numa_avail THEN machine.node[c] ELSE NUMA_NO_NODE

\* Every node is listed, or is still to be.
AllListed ==
    \A n \in {NUMA_NO_NODE} \cup IF numa_avail THEN Range(machine.node) ELSE {} :
        n \in DOMAIN numa_nodes \/ (pc = "nodes" /\ n \in todo)

\* Every cpu has a way up, and a cache domain is on the one node of its cpus.
WaysUp ==
    /\ \A c \in DOMAIN cpus : cpus[c] # 0
    /\ \A k \in 1 .. Len(cache_domains) :
          /\ cache_domains[k].parent # 0
          /\ k \in packages[cache_domains[k].parent].children
          /\ cache_domains[k].children # {}
          /\ \A c \in cache_domains[k].children :
                cache_domains[k].numa_nodes = {NodeOfCpu(c)}
    /\ \A p \in 1 .. Len(packages) : packages[p].numa_nodes # {}

\* The cpus of the tree are the online ones that are not banned.
Counted ==
    cpu_online_map \ banned_cpus
        = DOMAIN cpus \cup IF pc \in CpuPcs THEN {cpu} ELSE {}

\* All that holds as long as no allocation has failed.
FailInv ==
    ~need_rebuild =>
        /\ pc \in {"nodes", "visit"} \cup CpuPcs => AllListed /\ WaysUp /\ Counted
        /\ FailureNoticed

TreeInv == TreeType /\ MaskInv /\ FailInv

-----------------------------------------------------------------------------
(* Facts about machines, lists and masks                                   *)

\* What is assumed of a machine, in the words of the model.
LEMMA MachineFacts ==
    ASSUME machine \in Machines
    PROVE  /\ IsFiniteSet(CpuIds) /\ CpuIds \subseteq Nat
           /\ banned_cpus \subseteq CpuIds /\ machine.online \subseteq CpuIds
           /\ numa_avail \in BOOLEAN
           /\ machine.package \in [CpuIds -> Nat] /\ machine.cache \in [CpuIds -> Nat]
           /\ machine.node \in [CpuIds -> Nat]
           /\ \A c, d \in CpuIds : machine.cache[c] = machine.cache[d] =>
                 machine.package[c] = machine.package[d] /\ machine.node[c] = machine.node[d]
  BY MachineAssumption, NestedAssumption DEF CpuIds, banned_cpus, numa_avail

\* The numbers of nodes are few, and none is below NUMA_NO_NODE.
LEMMA NodeFacts ==
    ASSUME machine \in Machines
    PROVE  /\ IsFiniteSet(NodeNumbers)
           /\ NodeNumbers \subseteq Int /\ \A n \in NodeNumbers : -1 <= n
           /\ Range(machine.node) \subseteq Nat
           /\ \A c \in CpuIds : machine.node[c] \in Range(machine.node)
<1>1. machine.node \in [CpuIds -> Nat] /\ IsFiniteSet(CpuIds)
  BY MachineFacts
<1>2. Range(machine.node) \subseteq Nat /\ \A c \in CpuIds : machine.node[c] \in Range(machine.node)
  BY <1>1 DEF Range
<1>3. IsFiniteSet(Range(machine.node))
  <2>1. machine.node \in Surjection(CpuIds, Range(machine.node))
    BY <1>1 DEF Surjection, Range
  <2> QED
    BY <1>1, <2>1, FS_Surjection
<1>4. IsFiniteSet(NodeNumbers)
  BY <1>3, FS_Singleton, FS_Union DEF NodeNumbers
<1> QED
  BY <1>2, <1>4 DEF NodeNumbers, NUMA_NO_NODE

\* A list finds the object with a mask, or has none.
LEMMA PlaceFacts ==
    ASSUME NEW S, NEW list \in Seq(S), NEW mask
    PROVE  /\ Place(list, mask) \in 1 .. Len(list) + 1
           /\ Place(list, mask) <= Len(list) => list[Place(list, mask)].mask = mask
           /\ Place(list, mask) > Len(list) => \A k \in 1 .. Len(list) : list[k].mask # mask
<1>1. CASE \E k \in 1 .. Len(list) : list[k].mask = mask
  <2> DEFINE T == { k \in 1 .. Len(list) : list[k].mask = mask }
  <2>1. T \subseteq Int /\ T # {} /\ 1 \in Int /\ \A x \in T : 1 <= x
    BY <1>1
  <2>2. PICK m \in T : \A k \in T : m <= k
    <3> HIDE DEF T
    <3> QED
      BY <2>1, LeastNumber
  <2>3. /\ m \in 1 .. Len(list)
        /\ list[m].mask = mask /\ \A j \in 1 .. m - 1 : list[j].mask # mask
    BY <2>2
  <2> DEFINE P(k) == list[k].mask = mask /\ \A j \in 1 .. k - 1 : list[j].mask # mask
             c == CHOOSE k \in 1 .. Len(list) : P(k)
  <2>4. c \in 1 .. Len(list) /\ P(c)
    BY <2>3, Zenon
  <2>5. Place(list, mask) = c
    BY <1>1, Zenon DEF Place
  <2> QED
    BY <2>4, <2>5
<1>2. CASE ~\E k \in 1 .. Len(list) : list[k].mask = mask
  BY <1>2 DEF Place
<1> QED
  BY <1>1, <1>2

\* What a list is after a cpu or a cache domain was put under its object.
IsPut(new, list, k, mask, child, nodes) ==
    LET old == k <= Len(list)
    IN  /\ new \in Seq(Object)
        /\ Len(new) = IF old THEN Len(list) ELSE Len(list) + 1
        /\ \A j \in 1 .. Len(list) : j # k => new[j] = list[j]
        /\ new[k].mask = mask
        /\ new[k].children = {child} \cup IF old THEN list[k].children ELSE {}
        /\ new[k].numa_nodes = nodes \cup IF old THEN list[k].numa_nodes ELSE {}
        /\ new[k].parent = IF old THEN list[k].parent ELSE 0

\* Put is such a step.
LEMMA PutFacts ==
    ASSUME machine \in Machines,
           NEW list \in Seq(Object), NEW mask \in SUBSET CpuIds, NEW child \in Nat,
           NEW nodes \in SUBSET NodeNumbers, NEW k \in 1 .. Len(list) + 1,
           k <= Len(list) => list[k].mask = mask,
           NEW new, new = Put(list, k, mask, child, nodes)
    PROVE  IsPut(new, list, k, mask, child, nodes)
<1> DEFINE old == IF k <= Len(list) THEN list[k]
                  ELSE [mask |-> mask, children |-> {}, numa_nodes |-> {}, parent |-> 0]
           obj == [old EXCEPT !.children = @ \cup {child}, !.numa_nodes = @ \cup nodes]
<1>1. old \in Object /\ old.mask = mask
  <2>1. CASE k <= Len(list)
    <3>1. list[k] \in Object
      BY <2>1
    <3> QED
      BY <2>1, <3>1
  <2>2. CASE ~(k <= Len(list))
    BY <2>2 DEF Object
  <2> QED
    BY <2>1, <2>2
<1>2. /\ obj \in Object /\ obj.mask = mask
      /\ obj.children = old.children \cup {child}
      /\ obj.numa_nodes = old.numa_nodes \cup nodes /\ obj.parent = old.parent
  BY <1>1 DEF Object
<1>3. new = IF k <= Len(list) THEN [list EXCEPT ![k] = obj] ELSE Append(list, obj)
  BY DEF Put
<1> HIDE DEF obj
<1>4. CASE k <= Len(list)
  <2>1. new = [list EXCEPT ![k] = obj]
    BY <1>3, <1>4
  <2>2. /\ new \in Seq(Object) /\ Len(new) = Len(list) /\ new[k] = obj
        /\ \A j \in 1 .. Len(list) : j # k => new[j] = list[j]
    BY <1>2, <1>4, <2>1
  <2> QED
    BY <1>2, <1>4, <2>2 DEF IsPut
<1>5. CASE ~(k <= Len(list))
  <2>1. new = Append(list, obj) /\ k = Len(list) + 1
    BY <1>3, <1>5
  <2>2. /\ new \in Seq(Object) /\ Len(new) = Len(list) + 1 /\ new[k] = obj
        /\ \A j \in 1 .. Len(list) : j # k => new[j] = list[j]
    BY <1>2, <1>5, <2>1
  <2> QED
    BY <1>2, <1>5, <2>2 DEF IsPut
<1> QED
  BY <1>4, <1>5

-----------------------------------------------------------------------------
(* AddCpu                                                                  *)

\* Its local variables.
AddNode == NodeOfCpu(cpu)
CMask == cache_mask \cap unbanned_cpus
PMask == PackageMask(AddNode)
CK == Place(cache_domains, CMask)
PK == Place(packages, PMask)
Caches == Put(cache_domains, CK, CMask, cpu, NodesOf(AddNode))
Pkgs == Put(packages, PK, PMask, CK, NodesOf(AddNode))
Moves == PK > Len(packages) \/ CK \notin packages[PK].children
Hang == ~numa_avail /\ NodesOf(AddNode) # {}

\* There is memory for both objects.
Added ==
    /\ cache_domains' = IF Moves THEN [Caches EXCEPT ![CK].parent = PK] ELSE Caches
    /\ packages' = IF Hang THEN [Pkgs EXCEPT ![PK].parent = NUMA_NO_NODE] ELSE Pkgs
    /\ numa_nodes' =
          IF Hang THEN [numa_nodes EXCEPT ![NUMA_NO_NODE].children =
                                              @ \cup {<<"package", PK>>}]
          ELSE numa_nodes
    /\ cpus' = With(cpus, cpu, CK)
    /\ UNCHANGED <<need_rebuild, events>>

\* There is none for a new cache domain, or none for a new package.
NotAdded ==
    /\ NoMemory
    /\ \/ cpus' = With(cpus, cpu, 0) /\ UNCHANGED cache_domains
       \/ cpus' = With(cpus, cpu, CK) /\ cache_domains' = Caches
    /\ UNCHANGED <<packages, numa_nodes>>

\* The two outcomes.
LEMMA AddCpuSplit ==
    ASSUME AddCpu
    PROVE  /\ pc = "add" /\ pc' = "visit"
           /\ UNCHANGED <<kernelVars, try_times, cpu_online_map, localVars, disturbed, late>>
           /\ Added \/ NotAdded
  BY DEF AddCpu, Added, NotAdded, Moves, Hang, Caches, Pkgs, CK, PK, CMask, PMask, AddNode,
     NodeOfCpu

\* The masks and nodes AddCpu works with.
LEMMA AddCpuTypes ==
    ASSUME TreeType, pc = "add"
    PROVE  /\ CMask \in SUBSET CpuIds /\ PMask \in SUBSET CpuIds
           /\ CMask \cap banned_cpus = {} /\ PMask \cap banned_cpus = {}
           /\ cpu \in CpuIds /\ cpu \in Nat
           /\ AddNode \in NodeNumbers /\ NodesOf(AddNode) \in SUBSET NodeNumbers
           /\ NodesOf(AddNode) \subseteq DOMAIN numa_nodes
           /\ CK \in 1 .. Len(cache_domains) + 1 /\ PK \in 1 .. Len(packages) + 1
           /\ CK <= Len(cache_domains) => cache_domains[CK].mask = CMask
           /\ PK <= Len(packages) => packages[PK].mask = PMask
<1>1. machine \in Machines /\ cpu \in CpuIds /\ cache_mask \subseteq CpuIds
      /\ package_mask \subseteq CpuIds
  BY DEF TreeType, LocalTypes, CpuPcs
<1>2. cpu \in Nat
  BY <1>1, MachineFacts
<1>3. CMask \in SUBSET CpuIds /\ CMask \cap banned_cpus = {}
  BY <1>1 DEF CMask, unbanned_cpus
<1>4. PMask \in SUBSET CpuIds /\ PMask \cap banned_cpus = {}
  BY <1>1 DEF PMask, PackageMask, unbanned_cpus
<1>5. AddNode \in NodeNumbers
  BY <1>1, NodeFacts DEF AddNode, NodeOfCpu, NodeNumbers
<1>6. NodeNumber(AddNode) = AddNode
  BY DEF AddNode, NodeOfCpu, NodeNumber
<1>7. NodesOf(AddNode) \in SUBSET NodeNumbers /\ NodesOf(AddNode) \subseteq DOMAIN numa_nodes
  BY <1>5, <1>6 DEF NodesOf, Listed
<1>8. packages \in Seq(Object) /\ cache_domains \in Seq(Object)
  BY DEF TreeType, TreeTypes
<1> QED
  BY <1>1, <1>2, <1>3, <1>4, <1>5, <1>7, <1>8, PlaceFacts DEF CK, PK

\* The lists with the cpu and its cache domain in them.
LEMMA CachesFacts ==
    ASSUME TreeType, pc = "add"
    PROVE  IsPut(Caches, cache_domains, CK, CMask, cpu, NodesOf(AddNode))
<1>1. machine \in Machines /\ cache_domains \in Seq(Object)
  BY DEF TreeType, TreeTypes
<1>2. Caches = Put(cache_domains, CK, CMask, cpu, NodesOf(AddNode))
  BY DEF Caches
<1>3. /\ CMask \in SUBSET CpuIds /\ cpu \in Nat /\ NodesOf(AddNode) \in SUBSET NodeNumbers
      /\ CK \in 1 .. Len(cache_domains) + 1
      /\ CK <= Len(cache_domains) => cache_domains[CK].mask = CMask
  BY AddCpuTypes
<1> QED
  BY <1>1, <1>2, <1>3, PutFacts

\* The list of packages with the cache domain of the cpu, likewise.
LEMMA PkgsFacts ==
    ASSUME TreeType, pc = "add"
    PROVE  IsPut(Pkgs, packages, PK, PMask, CK, NodesOf(AddNode))
<1>1. machine \in Machines /\ packages \in Seq(Object)
  BY DEF TreeType, TreeTypes
<1>2. Pkgs = Put(packages, PK, PMask, CK, NodesOf(AddNode))
  BY DEF Pkgs
<1>3. /\ PMask \in SUBSET CpuIds /\ CK \in Nat /\ NodesOf(AddNode) \in SUBSET NodeNumbers
      /\ PK \in 1 .. Len(packages) + 1
      /\ PK <= Len(packages) => packages[PK].mask = PMask
  BY AddCpuTypes
<1> QED
  BY <1>1, <1>2, <1>3, PutFacts

\* The lists after both objects were found or made.
LEMMA AddedFacts ==
    ASSUME TreeType, pc = "add", Added
    PROVE  /\ cache_domains' \in Seq(Object) /\ packages' \in Seq(Object)
           /\ Len(cache_domains') = Len(Caches) /\ Len(packages') = Len(Pkgs)
           /\ \A j \in 1 .. Len(cache_domains) : j # CK => cache_domains'[j] = cache_domains[j]
           /\ cache_domains'[CK].mask = CMask
           /\ cache_domains'[CK].children = Caches[CK].children
           /\ cache_domains'[CK].numa_nodes = Caches[CK].numa_nodes
           /\ cache_domains'[CK].parent = IF Moves THEN PK ELSE Caches[CK].parent
           /\ \A j \in 1 .. Len(packages) : j # PK => packages'[j] = packages[j]
           /\ packages'[PK].mask = PMask
           /\ packages'[PK].children = Pkgs[PK].children
           /\ packages'[PK].numa_nodes = Pkgs[PK].numa_nodes
<1> USE DEF IsPut
<1>1. CK \in 1 .. Len(Caches) /\ PK \in 1 .. Len(Pkgs)
  BY AddCpuTypes, CachesFacts, PkgsFacts
<1>2. Caches[CK] \in Object /\ Pkgs[PK] \in Object
  BY <1>1, CachesFacts, PkgsFacts
<1>3. PK \in Int /\ NUMA_NO_NODE \in Int
  BY AddCpuTypes DEF NUMA_NO_NODE
<1>5. /\ cache_domains' \in Seq(Object) /\ Len(cache_domains') = Len(Caches)
      /\ \A j \in 1 .. Len(Caches) : j # CK => cache_domains'[j] = Caches[j]
      /\ cache_domains'[CK].mask = Caches[CK].mask
      /\ cache_domains'[CK].children = Caches[CK].children
      /\ cache_domains'[CK].numa_nodes = Caches[CK].numa_nodes
      /\ cache_domains'[CK].parent = IF Moves THEN PK ELSE Caches[CK].parent
  <2>1. CASE ~Moves
    BY <2>1, CachesFacts DEF Added
  <2>2. CASE Moves
    <3> DEFINE obj == [Caches[CK] EXCEPT !.parent = PK]
    <3>1. obj \in Object /\ obj.mask = Caches[CK].mask /\ obj.children = Caches[CK].children
          /\ obj.numa_nodes = Caches[CK].numa_nodes /\ obj.parent = PK
      BY <1>2, <1>3 DEF Object
    <3>2. cache_domains' = [Caches EXCEPT ![CK] = obj]
      BY <2>2 DEF Added
    <3> HIDE DEF obj
    <3>3. /\ cache_domains' \in Seq(Object) /\ Len(cache_domains') = Len(Caches)
          /\ \A j \in 1 .. Len(Caches) : j # CK => cache_domains'[j] = Caches[j]
          /\ cache_domains'[CK] = obj
      BY <1>1, <3>1, <3>2, CachesFacts
    <3> QED
      BY <2>2, <3>1, <3>3
  <2> QED
    BY <2>1, <2>2
<1>6. /\ packages' \in Seq(Object) /\ Len(packages') = Len(Pkgs)
      /\ \A j \in 1 .. Len(Pkgs) : j # PK => packages'[j] = Pkgs[j]
      /\ packages'[PK].mask = Pkgs[PK].mask
      /\ packages'[PK].children = Pkgs[PK].children
      /\ packages'[PK].numa_nodes = Pkgs[PK].numa_nodes
  <2>1. CASE ~Hang
    BY <2>1, PkgsFacts DEF Added
  <2>2. CASE Hang
    <3> DEFINE obj == [Pkgs[PK] EXCEPT !.parent = NUMA_NO_NODE]
    <3>1. obj \in Object /\ obj.mask = Pkgs[PK].mask /\ obj.children = Pkgs[PK].children
          /\ obj.numa_nodes = Pkgs[PK].numa_nodes
      BY <1>2, <1>3 DEF Object
    <3>2. packages' = [Pkgs EXCEPT ![PK] = obj]
      BY <2>2 DEF Added
    <3> HIDE DEF obj
    <3>3. /\ packages' \in Seq(Object) /\ Len(packages') = Len(Pkgs)
          /\ \A j \in 1 .. Len(Pkgs) : j # PK => packages'[j] = Pkgs[j]
          /\ packages'[PK] = obj
      BY <1>1, <3>1, <3>2, PkgsFacts
    <3> QED
      BY <3>1, <3>3
  <2> QED
    BY <2>1, <2>2
<1>7. /\ \A j \in 1 .. Len(cache_domains) : j \in 1 .. Len(Caches)
      /\ \A j \in 1 .. Len(packages) : j \in 1 .. Len(Pkgs)
  <2>1. Len(cache_domains) \in Nat /\ Len(packages) \in Nat
    BY DEF TreeType, TreeTypes
  <2> QED
    BY <2>1, CachesFacts, PkgsFacts
<1> QED
  BY <1>5, <1>6, <1>7, CachesFacts, PkgsFacts

-----------------------------------------------------------------------------
(* Types                                                                   *)

TreeStep == Hotplug \/ BuildTree

\* The machine stays the same, and with it all that is said of it.
LEMMA SameMachine ==
    ASSUME UNCHANGED machine
    PROVE  /\ CpuIds' = CpuIds /\ banned_cpus' = banned_cpus /\ numa_avail' = numa_avail
           /\ NodeNumbers' = NodeNumbers /\ Object' = Object /\ Node' = Node
  BY DEF CpuIds, banned_cpus, numa_avail, NodeNumbers, Object, Node

\* No step of the build changes the machine.
LEMMA TreeStepMachine ==
    ASSUME TreeStep
    PROVE  UNCHANGED machine
  BY DEF TreeStep, Hotplug, BuildTree, StartBuild, add_one_node, StartCpus, Visit, ReadPackage,
     ReadCache, AddCpu, Connect, kernelVars

\* Every step keeps the types.
LEMMA TreeTypeNext ==
    ASSUME TreeType, TreeStep
    PROVE  TreeType'
<1>m. /\ machine' = machine /\ machine \in Machines
      /\ CpuIds' = CpuIds /\ banned_cpus' = banned_cpus /\ numa_avail' = numa_avail
      /\ NodeNumbers' = NodeNumbers /\ Object' = Object /\ Node' = Node
  BY TreeStepMachine, SameMachine DEF TreeType
<1>e. /\ <<>> \in Seq(Object)
      /\ <<>> \in [DOMAIN <<>> -> Node] /\ <<>> \in [DOMAIN <<>> -> Nat] /\ DOMAIN <<>> = {}
  OBVIOUS
<1> USE DEF kernelVars, treeVars, localVars
<1>1. CASE Hotplug
  BY <1>1, <1>m DEF Hotplug, TreeType, TreeTypes, LocalTypes, CpuPcs
<1>2. CASE StartBuild
  <2>1. todo' \subseteq NodeNumbers
    BY <1>2 DEF StartBuild, NodeNumbers
  <2>2. TreeTypes'
    BY <1>2, <1>e, <1>m DEF StartBuild, TreeTypes
  <2> QED
    BY <1>2, <1>m, <2>1, <2>2 DEF StartBuild, TreeType, LocalTypes, CpuPcs
<1>3. CASE add_one_node
  <2> DEFINE n == CHOOSE m \in todo : \A k \in todo : m <= k
  <2>1. todo \subseteq NodeNumbers /\ todo # {}
    BY <1>3 DEF add_one_node, TreeType, LocalTypes
  <2>2. n \in todo
    <3>1. todo \subseteq Int /\ -1 \in Int /\ \A x \in todo : -1 <= x
      BY <1>m, <2>1, NodeFacts
    <3>2. \E m \in todo : \A k \in todo : m <= k
      BY <2>1, <3>1, LeastNumber
    <3> QED
      BY <3>2, Zenon
  <2>3. numa_nodes' = With(numa_nodes, n, [mask |-> NodeMask(n), children |-> {}])
          \/ numa_nodes' = numa_nodes
    BY <1>3 DEF add_one_node
  <2>4. todo' = todo \ {n}
    BY <1>3 DEF add_one_node
  <2>5. need_rebuild' \in BOOLEAN
    BY <1>3 DEF add_one_node, NoMemory, TreeType, LocalTypes
  <2> HIDE DEF n
  <2>6. [mask |-> NodeMask(n), children |-> {}] \in Node
    BY DEF Node, NodeMask, TreeType
  <2>7. numa_nodes' \in [DOMAIN numa_nodes' -> Node] /\ DOMAIN numa_nodes' \subseteq NodeNumbers
    BY <2>1, <2>2, <2>3, <2>6 DEF With, TreeType, TreeTypes
  <2> QED
    BY <1>3, <1>m, <2>1, <2>4, <2>5, <2>7
       DEF add_one_node, TreeType, TreeTypes, LocalTypes, CpuPcs
<1>4. CASE StartCpus
  BY <1>4, <1>m DEF StartCpus, TreeType, TreeTypes, LocalTypes, CpuPcs
<1>5. CASE Visit
  <2>1. need_rebuild' \in BOOLEAN
    BY <1>5 DEF Visit, NoMemory, TreeType, LocalTypes
  <2> QED
    BY <1>5, <1>m, <2>1 DEF Visit, TreeType, TreeTypes, LocalTypes, CpuPcs
<1>6. CASE ReadPackage
  BY <1>6, <1>m DEF ReadPackage, Siblings, TreeType, TreeTypes, LocalTypes, CpuPcs
<1>7. CASE ReadCache
  BY <1>7, <1>m DEF ReadCache, Siblings, TreeType, TreeTypes, LocalTypes, CpuPcs
<1>8. CASE AddCpu
  <2>1. /\ pc = "add" /\ pc' = "visit" /\ (Added \/ NotAdded)
        /\ UNCHANGED <<online, cpu_online_map, todo, cpu, package_mask, cache_mask>>
    BY <1>8, AddCpuSplit
  <2>2. need_rebuild' \in BOOLEAN
    BY <2>1 DEF Added, NotAdded, NoMemory, TreeType, LocalTypes
  <2>3. packages' \in Seq(Object) /\ cache_domains' \in Seq(Object)
    BY <2>1, AddedFacts, CachesFacts DEF NotAdded, IsPut, TreeType, TreeTypes
  <2>4. cpus' \in [DOMAIN cpus' -> Nat] /\ DOMAIN cpus' \subseteq CpuIds
    <3>1. cpu \in CpuIds /\ CK \in Nat
      BY <2>1, AddCpuTypes
    <3>2. cpus' = With(cpus, cpu, 0) \/ cpus' = With(cpus, cpu, CK)
      BY <2>1 DEF Added, NotAdded
    <3> QED
      BY <3>1, <3>2 DEF With, TreeType, TreeTypes
  <2>5. numa_nodes' \in [DOMAIN numa_nodes' -> Node] /\ DOMAIN numa_nodes' = DOMAIN numa_nodes
    <3>1. CASE UNCHANGED numa_nodes
      BY <3>1 DEF TreeType, TreeTypes
    <3>2. CASE Added /\ Hang
      <4>1. NUMA_NO_NODE \in DOMAIN numa_nodes
        BY <2>1, <3>2, AddCpuTypes DEF Hang, AddNode, NodeOfCpu, NodesOf, Listed, NodeNumber
      <4>2. numa_nodes[NUMA_NO_NODE] \in Node
        BY <4>1 DEF TreeType, TreeTypes
      <4>3. <<"package", PK>> \in {"package", "cache"} \X Nat
        BY <2>1, AddCpuTypes
      <4> DEFINE obj == [numa_nodes[NUMA_NO_NODE] EXCEPT !.children =
                            @ \cup {<<"package", PK>>}]
      <4>4. obj \in Node
        BY <4>2, <4>3 DEF Node
      <4>5. numa_nodes' = [numa_nodes EXCEPT ![NUMA_NO_NODE] = obj]
        BY <3>2 DEF Added
      <4> QED
        BY <4>1, <4>4, <4>5 DEF TreeType, TreeTypes
    <3> QED
      BY <2>1, <3>1, <3>2 DEF Added, NotAdded
  <2> QED
    BY <1>m, <2>1, <2>2, <2>3, <2>4, <2>5 DEF TreeType, TreeTypes, LocalTypes, CpuPcs
<1>9. CASE Connect
  <2>1. \A n \in DOMAIN numa_nodes : Connected(n) \in SUBSET ({"package", "cache"} \X Nat)
    <3> SUFFICES ASSUME NEW n \in DOMAIN numa_nodes
                 PROVE  Connected(n) \subseteq {"package", "cache"} \X Nat
      OBVIOUS
    <3>1. packages \in Seq(Object)
      BY DEF TreeType, TreeTypes
    <3>2. ASSUME NEW p \in 1 .. Len(packages)
          PROVE  packages[p].children \subseteq Nat /\ p \in Nat
      <4>1. packages[p] \in Object /\ p \in Nat
        BY <3>1
      <4> QED
        BY <4>1 DEF Object
    <3> DEFINE split == { p \in 1 .. Len(packages) : Cardinality(packages[p].numa_nodes) > 1 }
               below == UNION { packages[p].children : p \in split }
    <3>3. below \subseteq Nat
      BY <3>2, Zenon
    <3>4. ASSUME NEW x \in Connected(n)
          PROVE  x \in {"package", "cache"} \X Nat
      <4>1. (\E k \in 1 .. Len(packages) : x = <<"package", k>>)
              \/ (\E k \in below : x = <<"cache", k>>)
        BY <3>4, Zenon DEF Connected
      <4> HIDE DEF below
      <4> QED
        BY <3>2, <3>3, <4>1
    <3> QED
      BY <3>4
  <2>2. numa_nodes' \in [DOMAIN numa_nodes' -> Node] /\ DOMAIN numa_nodes' = DOMAIN numa_nodes
    BY <1>9, <2>1 DEF Connect, Node, TreeType, TreeTypes
  <2>3. packages' \in Seq(Object)
    <3> DEFINE obj(k) ==
          LET nodes == packages[k].numa_nodes
          IN  IF Cardinality(nodes) = 1 /\ packages[k].parent = 0
              THEN [packages[k] EXCEPT !.parent = CHOOSE n \in nodes : TRUE]
              ELSE packages[k]
    <3>1. packages \in Seq(Object) /\ Len(packages) \in Nat
      BY DEF TreeType, TreeTypes
    <3>2. ASSUME NEW k \in 1 .. Len(packages)
          PROVE  obj(k) \in Object
      <4>1. packages[k] \in Object
        BY <3>1
      <4>2. packages[k].numa_nodes \subseteq NodeNumbers
        BY <4>1 DEF Object
      <4>3. NodeNumbers \subseteq Int
        BY <1>m, NodeFacts
      <4>4. CASE packages[k].numa_nodes = {}
        BY <4>1, <4>4, FS_EmptySet
      <4>5. CASE packages[k].numa_nodes # {}
        <5>1. (CHOOSE n \in packages[k].numa_nodes : TRUE) \in packages[k].numa_nodes
          BY <4>5
        <5>2. (CHOOSE n \in packages[k].numa_nodes : TRUE) \in Int
          BY <4>2, <4>3, <5>1
        <5> QED
          BY <4>1, <5>2 DEF Object
      <4> QED
        BY <4>4, <4>5
    <3>3. packages' = [k \in 1 .. Len(packages) |-> obj(k)]
      BY <1>9 DEF Connect
    <3> HIDE DEF obj
    <3>4. packages' \in [1 .. Len(packages) -> Object]
      BY <3>2, <3>3
    <3> QED
      BY <3>1, <3>4, FunctionIsSeq
  <2> QED
    BY <1>9, <1>m, <2>2, <2>3 DEF Connect, TreeType, TreeTypes, LocalTypes, CpuPcs
<1> QED
  BY <1>1, <1>2, <1>3, <1>4, <1>5, <1>6, <1>7, <1>8, <1>9 DEF TreeStep, BuildTree

-----------------------------------------------------------------------------
(* Links and masks                                                         *)

\* The lists after AddCpu, in either outcome, as far as cpus and cache domains go.
LEMMA CacheListFacts ==
    ASSUME TreeType, Linked, AddCpu
    PROVE  /\ Len(cache_domains) \in Nat /\ Len(cache_domains') \in Nat
           /\ Len(packages) \in Nat /\ Len(packages') \in Nat
           /\ Len(cache_domains) <= Len(cache_domains') /\ Len(packages) <= Len(packages')
           /\ \A k \in 1 .. Len(cache_domains') :
                 \/ k \in 1 .. Len(cache_domains) /\ cache_domains'[k] = cache_domains[k]
                 \/ /\ k = CK /\ cache_domains'[k].mask = CMask
                    /\ cache_domains'[k].children = {cpu} \cup
                          IF k \in 1 .. Len(cache_domains) THEN cache_domains[k].children ELSE {}
                    /\ k \in 1 .. Len(cache_domains) => cache_domains[k].mask = CMask
                    /\ \/ cache_domains'[k].parent = PK /\ packages'[PK].mask = PMask
                          /\ PK \in 1 .. Len(packages')
                       \/ cache_domains'[k].parent = 0
                       \/ /\ k \in 1 .. Len(cache_domains)
                          /\ cache_domains'[k].parent = cache_domains[k].parent
           /\ \A p \in 1 .. Len(packages) : packages'[p].mask = packages[p].mask
           /\ \A p \in 1 .. Len(packages') :
                 \/ p \in 1 .. Len(packages) /\ packages'[p] = packages[p]
                 \/ /\ p = PK /\ packages'[p].mask = PMask /\ CK \in 1 .. Len(cache_domains')
                    /\ packages'[p].children \subseteq {CK} \cup
                          IF p \in 1 .. Len(packages) THEN packages[p].children ELSE {}
                    /\ packages'[p].numa_nodes \subseteq NodesOf(AddNode) \cup
                          IF p \in 1 .. Len(packages) THEN packages[p].numa_nodes ELSE {}
           /\ \/ cpus' = With(cpus, cpu, 0) /\ cache_domains' = cache_domains
              \/ /\ cpus' = With(cpus, cpu, CK) /\ CK \in 1 .. Len(cache_domains')
                 /\ cpu \in cache_domains'[CK].children
                 /\ \A k \in 1 .. Len(cache_domains) :
                       cache_domains[k].children \subseteq cache_domains'[k].children
<1>1. /\ pc = "add" /\ (Added \/ NotAdded)
      /\ packages \in Seq(Object) /\ cache_domains \in Seq(Object)
  BY AddCpuSplit DEF TreeType, TreeTypes
<1>2. /\ CK \in 1 .. Len(cache_domains) + 1 /\ PK \in 1 .. Len(packages) + 1
      /\ CK <= Len(cache_domains) => cache_domains[CK].mask = CMask
      /\ PK <= Len(packages) => packages[PK].mask = PMask
      /\ Len(cache_domains) \in Nat /\ Len(packages) \in Nat
  BY <1>1, AddCpuTypes
<1>3. IsPut(Caches, cache_domains, CK, CMask, cpu, NodesOf(AddNode))
      /\ IsPut(Pkgs, packages, PK, PMask, CK, NodesOf(AddNode))
  BY <1>1, CachesFacts, PkgsFacts
<1>4. CASE Added
  <2>1. ~Moves => CK \in 1 .. Len(cache_domains)
    BY <1>2 DEF Moves, Linked
  <2>2. /\ Len(cache_domains') = Len(Caches) /\ Len(packages') = Len(Pkgs)
        /\ \A j \in 1 .. Len(cache_domains) : j # CK => cache_domains'[j] = cache_domains[j]
        /\ cache_domains'[CK].mask = CMask
        /\ cache_domains'[CK].children = Caches[CK].children
        /\ cache_domains'[CK].parent = IF Moves THEN PK ELSE Caches[CK].parent
        /\ \A j \in 1 .. Len(packages) : j # PK => packages'[j] = packages[j]
        /\ packages'[PK].mask = PMask
        /\ packages'[PK].children = Pkgs[PK].children
        /\ packages'[PK].numa_nodes = Pkgs[PK].numa_nodes
        /\ cpus' = With(cpus, cpu, CK)
    BY <1>1, <1>4, AddedFacts DEF Added
  <2>3. /\ CK \in 1 .. Len(Caches) /\ PK \in 1 .. Len(Pkgs)
        /\ Len(Caches) \in Nat /\ Len(Pkgs) \in Nat
        /\ Len(cache_domains) <= Len(Caches) /\ Len(packages) <= Len(Pkgs)
        /\ \A k \in 1 .. Len(Caches) : k = CK \/ k \in 1 .. Len(cache_domains)
        /\ \A p \in 1 .. Len(Pkgs) : p = PK \/ p \in 1 .. Len(packages)
    BY <1>2, <1>3 DEF IsPut
  <2>4. ASSUME NEW k \in 1 .. Len(cache_domains'), k = CK
        PROVE  /\ cache_domains'[k].mask = CMask
               /\ cache_domains'[k].children = {cpu} \cup
                     IF k \in 1 .. Len(cache_domains) THEN cache_domains[k].children ELSE {}
               /\ k \in 1 .. Len(cache_domains) => cache_domains[k].mask = CMask
               /\ \/ cache_domains'[k].parent = PK /\ packages'[PK].mask = PMask
                     /\ PK \in 1 .. Len(packages')
                  \/ /\ k \in 1 .. Len(cache_domains)
                     /\ cache_domains'[k].parent = cache_domains[k].parent
    <3>1. CASE CK \in 1 .. Len(cache_domains)
      BY <1>2, <1>3, <2>2, <2>3, <2>4, <3>1 DEF IsPut
    <3>2. CASE CK \notin 1 .. Len(cache_domains)
      <4>1. Moves /\ ~(CK <= Len(cache_domains))
        BY <1>2, <2>1, <3>2
      <4> QED
        BY <1>2, <1>3, <2>2, <2>3, <2>4, <3>2, <4>1 DEF IsPut
    <3> QED
      BY <3>1, <3>2
  <2>5. ASSUME NEW p \in 1 .. Len(packages'), p = PK
        PROVE  /\ packages'[p].children \subseteq {CK} \cup
                     IF p \in 1 .. Len(packages) THEN packages[p].children ELSE {}
               /\ packages'[p].numa_nodes \subseteq NodesOf(AddNode) \cup
                     IF p \in 1 .. Len(packages) THEN packages[p].numa_nodes ELSE {}
    BY <1>2, <1>3, <2>2, <2>3, <2>5 DEF IsPut
  <2>6. \A p \in 1 .. Len(packages) : packages'[p].mask = packages[p].mask
    BY <1>2, <2>2
  <2>7. /\ cpu \in cache_domains'[CK].children
        /\ \A k \in 1 .. Len(cache_domains) :
              cache_domains[k].children \subseteq cache_domains'[k].children
    BY <1>2, <1>3, <2>2 DEF IsPut
  <2> QED
    BY <1>2, <2>2, <2>3, <2>4, <2>5, <2>6, <2>7
<1>5. CASE NotAdded
  <2>1. packages' = packages
    BY <1>5 DEF NotAdded
  <2>2. CASE cpus' = With(cpus, cpu, 0) /\ UNCHANGED cache_domains
    BY <1>2, <2>1, <2>2
  <2>3. CASE cpus' = With(cpus, cpu, CK) /\ cache_domains' = Caches
    <3>1. /\ CK \in 1 .. Len(Caches)
          /\ Len(Caches) \in Nat /\ Len(cache_domains) <= Len(Caches)
          /\ \A k \in 1 .. Len(Caches) : k = CK \/ k \in 1 .. Len(cache_domains)
      BY <1>2, <1>3 DEF IsPut
    <3>2. ASSUME NEW k \in 1 .. Len(cache_domains'), k = CK
          PROVE  /\ cache_domains'[k].mask = CMask
                 /\ cache_domains'[k].children = {cpu} \cup
                       IF k \in 1 .. Len(cache_domains) THEN cache_domains[k].children ELSE {}
                 /\ k \in 1 .. Len(cache_domains) => cache_domains[k].mask = CMask
                 /\ \/ cache_domains'[k].parent = 0
                    \/ /\ k \in 1 .. Len(cache_domains)
                       /\ cache_domains'[k].parent = cache_domains[k].parent
      BY <1>2, <1>3, <2>3, <3>1, <3>2 DEF IsPut
    <3>3. /\ cpu \in cache_domains'[CK].children
          /\ \A k \in 1 .. Len(cache_domains) :
                cache_domains[k].children \subseteq cache_domains'[k].children
      BY <1>2, <1>3, <2>3 DEF IsPut
    <3>4. \A j \in 1 .. Len(cache_domains) : j # CK => cache_domains'[j] = cache_domains[j]
      BY <1>3, <2>3 DEF IsPut
    <3> QED
      BY <1>2, <2>1, <2>3, <3>1, <3>2, <3>3, <3>4
  <2> QED
    BY <1>5, <2>2, <2>3 DEF NotAdded
<1> QED
  BY <1>1, <1>4, <1>5

\* Every link stays within the lists.
LEMMA LinkedNext ==
    ASSUME TreeType, Linked, TreeStep
    PROVE  Linked'
<1> USE DEF kernelVars, treeVars, localVars
<1>1. CASE Hotplug \/ StartCpus \/ Visit \/ ReadPackage \/ ReadCache
  BY <1>1 DEF Hotplug, StartCpus, Visit, ReadPackage, ReadCache, Linked
<1>2. CASE StartBuild
  BY <1>2 DEF StartBuild, Linked
<1>3. CASE add_one_node
  <2>1. DOMAIN numa_nodes \subseteq DOMAIN numa_nodes'
    BY <1>3 DEF add_one_node, With
  <2> QED
    BY <1>3, <2>1 DEF add_one_node, Linked
<1>4. CASE AddCpu
  <2>1. DOMAIN numa_nodes' = DOMAIN numa_nodes /\ NodesOf(AddNode) \subseteq DOMAIN numa_nodes
    BY <1>4, AddCpuSplit, AddCpuTypes DEF Added, NotAdded
  <2>2. DOMAIN cpus' = DOMAIN cpus \cup {cpu}
    <3>1. cpus' = With(cpus, cpu, 0) \/ cpus' = With(cpus, cpu, CK)
      BY <1>4, AddCpuSplit DEF Added, NotAdded
    <3> QED
      BY <3>1 DEF With
  <2>3. \A c \in DOMAIN cpus' : cpus'[c] # 0 =>
          cpus'[c] \in 1 .. Len(cache_domains') /\ c \in cache_domains'[cpus'[c]].children
    <3>1. CASE cpus' = With(cpus, cpu, 0) /\ cache_domains' = cache_domains
      BY <3>1 DEF With, Linked
    <3>2. CASE /\ cpus' = With(cpus, cpu, CK) /\ CK \in 1 .. Len(cache_domains')
               /\ cpu \in cache_domains'[CK].children
               /\ \A k \in 1 .. Len(cache_domains) :
                     cache_domains[k].children \subseteq cache_domains'[k].children
      <4>1. \A k \in 1 .. Len(cache_domains) : k \in 1 .. Len(cache_domains')
        BY <1>4, CacheListFacts
      <4> QED
        BY <3>2, <4>1 DEF With, Linked
    <3> QED
      BY <1>4, <3>1, <3>2, CacheListFacts
  <2>4. ASSUME NEW k \in 1 .. Len(cache_domains')
        PROVE  /\ cache_domains'[k].parent \in 0 .. Len(packages')
               /\ cache_domains'[k].children \subseteq DOMAIN cpus'
    BY <1>4, <2>2, CacheListFacts DEF Linked
  <2>5. ASSUME NEW p \in 1 .. Len(packages')
        PROVE  /\ packages'[p].children \subseteq 1 .. Len(cache_domains')
               /\ packages'[p].numa_nodes \subseteq DOMAIN numa_nodes'
    BY <1>4, <2>1, CacheListFacts DEF Linked
  <2> QED
    BY <2>3, <2>4, <2>5 DEF Linked
<1>5. CASE Connect
  <2>1. /\ Len(packages) \in Nat
        /\ packages' = [k \in 1 .. Len(packages) |-> packages'[k]]
        /\ \A k \in 1 .. Len(packages) : packages[k] \in Object
    BY <1>5 DEF Connect, TreeType, TreeTypes
  <2>2. Len(packages') = Len(packages)
    BY <2>1
  <2>3. \A k \in 1 .. Len(packages) : /\ packages'[k].children = packages[k].children
                                      /\ packages'[k].numa_nodes = packages[k].numa_nodes
    BY <1>5, <2>1 DEF Connect, Object
  <2> QED
    BY <1>5, <2>2, <2>3 DEF Connect, Linked
<1> QED
  BY <1>1, <1>2, <1>3, <1>4, <1>5 DEF TreeStep, BuildTree

\* What the two steps that do not build leave of the lists.
LEMMA ConnectFacts ==
    ASSUME TreeType, Connect
    PROVE  /\ Len(packages') = Len(packages) /\ Len(packages) \in Nat
           /\ \A k \in 1 .. Len(packages) :
                 /\ packages'[k].mask = packages[k].mask
                 /\ packages'[k].children = packages[k].children
                 /\ packages'[k].numa_nodes = packages[k].numa_nodes
<1>1. /\ Len(packages) \in Nat
      /\ packages' = [k \in 1 .. Len(packages) |-> packages'[k]]
      /\ \A k \in 1 .. Len(packages) : packages[k] \in Object
  BY DEF Connect, TreeType, TreeTypes
<1>2. Len(packages') = Len(packages)
  BY <1>1
<1> QED
  BY <1>1, <1>2 DEF Connect, Object

\* No mask has a banned cpu, and every cache domain has its cpus in its mask.
LEMMA MaskedNext ==
    ASSUME TreeType, Linked, Masked, HasCpu, TreeStep
    PROVE  Masked'
<1> USE DEF kernelVars, treeVars, localVars
<1>m. banned_cpus' = banned_cpus
  BY TreeStepMachine, SameMachine
<1>1. CASE Hotplug \/ StartCpus \/ Visit \/ ReadPackage \/ ReadCache
  BY <1>1, <1>m DEF Hotplug, StartCpus, Visit, ReadPackage, ReadCache, Masked
<1>2. CASE StartBuild
  BY <1>2 DEF StartBuild, Masked
<1>3. CASE add_one_node
  BY <1>3, <1>m DEF add_one_node, Masked
<1>4. CASE AddCpu
  <2>1. CMask \cap banned_cpus = {} /\ PMask \cap banned_cpus = {} /\ pc = "add"
    BY <1>4, AddCpuSplit, AddCpuTypes
  <2>2. cpu \in CMask
    BY <2>1 DEF HasCpu, CMask, unbanned_cpus, TreeType, LocalTypes, CpuPcs
  <2>3. ASSUME NEW k \in 1 .. Len(cache_domains')
        PROVE  /\ cache_domains'[k].mask \cap banned_cpus = {}
               /\ cache_domains'[k].children \subseteq cache_domains'[k].mask
    <3>1. CASE k \in 1 .. Len(cache_domains) /\ cache_domains'[k] = cache_domains[k]
      BY <3>1 DEF Masked
    <3>2. CASE /\ cache_domains'[k].mask = CMask
               /\ cache_domains'[k].children = {cpu} \cup
                     IF k \in 1 .. Len(cache_domains) THEN cache_domains[k].children ELSE {}
               /\ k \in 1 .. Len(cache_domains) => cache_domains[k].mask = CMask
      BY <2>1, <2>2, <3>2 DEF Masked
    <3> QED
      BY <1>4, <3>1, <3>2, CacheListFacts
  <2>4. ASSUME NEW p \in 1 .. Len(packages')
        PROVE  packages'[p].mask \cap banned_cpus = {}
    BY <1>4, <2>1, CacheListFacts DEF Masked
  <2> QED
    BY <1>m, <2>3, <2>4 DEF Masked
<1>5. CASE Connect
  BY <1>5, <1>m, ConnectFacts DEF Connect, Masked
<1> QED
  BY <1>1, <1>2, <1>3, <1>4, <1>5 DEF TreeStep, BuildTree

\* The masks that were read have their cpu.
LEMMA HasCpuNext ==
    ASSUME TreeType, HasCpu, TreeStep
    PROVE  HasCpu'
<1> USE DEF kernelVars, treeVars, localVars
<1>m. machine' = machine /\ machine \in Machines
  BY TreeStepMachine DEF TreeType
<1>1. CASE Hotplug \/ StartCpus \/ StartBuild \/ add_one_node \/ Visit \/ AddCpu \/ Connect
  BY <1>1, <1>m DEF Hotplug, StartCpus, StartBuild, add_one_node, Visit, AddCpu, Connect,
     HasCpu
<1>2. CASE ReadPackage
  <2>1. cpu \in CpuIds
    BY <1>2 DEF ReadPackage, TreeType, LocalTypes, CpuPcs
  <2> QED
    BY <1>2, <2>1 DEF ReadPackage, Siblings, HasCpu
<1>3. CASE ReadCache
  <2>1. cpu \in CpuIds /\ online \subseteq CpuIds
    BY <1>3 DEF ReadCache, TreeType, LocalTypes, CpuPcs
  <2>2. \A c \in online : machine.cache[c] = machine.cache[cpu] =>
            machine.node[c] = machine.node[cpu]
    BY <1>m, <2>1, MachineFacts
  <2> QED
    BY <1>3, <1>m, <2>1, <2>2 DEF ReadCache, Siblings, HasCpu
<1> QED
  BY <1>1, <1>2, <1>3 DEF TreeStep, BuildTree

\* A cpu in the mask of its cache domain is in that of the package it is added to.
LEMMA CMaskInside ==
    ASSUME TreeType, HasCpu, Early, late = {}, pc = "add"
    PROVE  CMask \subseteq PMask
<1>1. cache_mask \subseteq package_mask /\ \A c \in cache_mask : InNode(c)
  BY DEF Early
<1>2. \A c \in cache_mask : machine.node[c] = machine.node[cpu]
  BY DEF HasCpu
<1>3. CASE numa_avail /\ Listed(AddNode)
  <2>1. AddNode = machine.node[cpu] /\ AddNode \in DOMAIN numa_nodes
    BY <1>3 DEF AddNode, NodeOfCpu, Listed, NodeNumber
  <2>2. \A c \in cache_mask : c \in numa_nodes[AddNode].mask
    BY <1>1, <1>2, <1>3, <2>1 DEF InNode
  <2> QED
    BY <1>1, <2>2 DEF CMask, PMask, PackageMask
<1>4. CASE ~(numa_avail /\ Listed(AddNode))
  BY <1>1, <1>4 DEF CMask, PMask, PackageMask
<1> QED
  BY <1>3, <1>4

\* What the nodes' masks have they keep.
LEMMA InNodeStays ==
    ASSUME UNCHANGED machine, UNCHANGED numa_nodes, NEW c, InNode(c)
    PROVE  InNode(c)'
  BY DEF InNode, numa_avail

\* Where no cpu has come, the masks nest.
LEMMA EarlyNext ==
    ASSUME TreeType, Linked, Masked, HasCpu, Early, TreeStep
    PROVE  Early'
<1> USE DEF kernelVars, treeVars, localVars
<1> SUFFICES ASSUME late' = {}
             PROVE  Early'
  BY DEF Early
<1>m. machine' = machine /\ machine \in Machines /\ numa_avail' = numa_avail
  BY TreeStepMachine, SameMachine DEF TreeType
<1>1. CASE Hotplug
  <2>1. late = {} /\ online' \subseteq online
    BY <1>1 DEF Hotplug
  <2>2. UNCHANGED <<pc, numa_nodes, packages, cache_domains, cpu, package_mask, cache_mask>>
    BY <1>1 DEF Hotplug
  <2>3. \A c : InNode(c) => InNode(c)'
    BY <1>m, <2>2 DEF InNode
  <2>4. Inside'
    BY <2>1, <2>2 DEF Early, Inside
  <2>5. Siblings(machine.package, cpu)' \subseteq Siblings(machine.package, cpu)
    BY <1>m, <2>1, <2>2 DEF Siblings
  <2> QED
    BY <2>1, <2>2, <2>3, <2>4, <2>5 DEF Early
<1>2. CASE StartBuild
  BY <1>2 DEF StartBuild, Early, InNode, Inside, CpuPcs
<1>3. CASE add_one_node
  <2>1. late = {} /\ pc = "nodes" /\ pc' = "nodes" /\ online' = online
    BY <1>3 DEF add_one_node
  <2>2. ASSUME NEW c \in online
        PROVE  InNode(c)'
    <3> DEFINE n == CHOOSE m \in todo : \A k \in todo : m <= k
    <3>1. InNode(c)
      BY <2>1 DEF Early
    <3>2. CASE UNCHANGED numa_nodes
      BY <1>m, <3>1, <3>2, InNodeStays
    <3>3. CASE numa_nodes' = With(numa_nodes, n, [mask |-> NodeMask(n), children |-> {}])
      <4> HIDE DEF n
      <4>1. c \in CpuIds
        BY DEF TreeType
      <4>2. machine.node[c] = n => c \in NodeMask(n)
        BY <4>1 DEF NodeMask
      <4> QED
        BY <1>m, <3>1, <3>3, <4>2 DEF With, InNode
    <3> QED
      BY <1>3, <3>2, <3>3 DEF add_one_node
  <2>3. Inside'
    BY <1>3, <2>1 DEF add_one_node, Early, Inside
  <2> QED
    BY <2>1, <2>2, <2>3 DEF Early, CpuPcs
<1>4. CASE StartCpus
  <2>1. late = {} /\ pc' = "visit" /\ UNCHANGED <<online, numa_nodes, packages, cache_domains>>
    BY <1>4 DEF StartCpus
  <2>2. (\A c \in online : InNode(c)') /\ Inside'
    BY <1>m, <2>1, InNodeStays DEF Early, Inside
  <2> QED
    BY <2>1, <2>2 DEF Early, CpuPcs
<1>5. CASE Visit
  <2>1. late = {} /\ UNCHANGED <<online, numa_nodes, packages, cache_domains>>
        /\ pc' \in {"visit", "package"} /\ (pc' = "package" => cpu' \in online)
    BY <1>5 DEF Visit
  <2>2. (\A c \in online : InNode(c)') /\ Inside'
    BY <1>m, <2>1, InNodeStays DEF Early, Inside
  <2>3. \A c : c = cpu' => (InNode(c)' <=> InNode(cpu)')
    BY DEF InNode
  <2> QED
    BY <2>1, <2>2, <2>3 DEF Early, CpuPcs
<1>6. CASE ReadPackage
  <2>1. late = {} /\ UNCHANGED <<online, numa_nodes, packages, cache_domains, cpu>>
        /\ pc = "package" /\ pc' = "cache"
        /\ (cpu \in online => package_mask' = Siblings(machine.package, cpu))
    BY <1>6 DEF ReadPackage
  <2>2. (\A c \in online : InNode(c)') /\ Inside'
    BY <1>m, <2>1, InNodeStays DEF Early, Inside
  <2>3. InNode(cpu)'
    BY <1>m, <2>1 DEF Early, CpuPcs, InNode
  <2>4. Siblings(machine.package, cpu)' = Siblings(machine.package, cpu)
    BY <1>m, <2>1 DEF Siblings
  <2> QED
    BY <2>1, <2>2, <2>3, <2>4 DEF Early, CpuPcs
<1>7. CASE ReadCache
  <2>1. late = {} /\ UNCHANGED <<online, numa_nodes, packages, cache_domains, cpu, package_mask>>
        /\ pc = "cache" /\ pc' = "add"
        /\ cache_mask' = IF cpu \in online THEN Siblings(machine.cache, cpu) ELSE {cpu}
    BY <1>7 DEF ReadCache
  <2>2. (\A c \in online : InNode(c)') /\ Inside'
    BY <1>m, <2>1, InNodeStays DEF Early, Inside
  <2>3. InNode(cpu)' /\ InNode(cpu)
    BY <1>m, <2>1 DEF Early, CpuPcs, InNode
  <2>4. cpu \in CpuIds /\ online \subseteq CpuIds /\ cpu \in package_mask
    BY <2>1 DEF TreeType, LocalTypes, CpuPcs, HasCpu
  <2>5. CASE cpu \in online
    <3>1. Siblings(machine.cache, cpu) \subseteq Siblings(machine.package, cpu)
      BY <1>m, <2>4, MachineFacts DEF Siblings
    <3>2. cache_mask' \subseteq package_mask' /\ cache_mask' \subseteq online
      BY <2>1, <2>5, <3>1 DEF Early, Siblings
    <3> QED
      BY <2>1, <2>2, <2>3, <3>2 DEF Early, CpuPcs
  <2>6. CASE cpu \notin online
    <3>1. cache_mask' \subseteq package_mask' /\ cache_mask' = {cpu}
      BY <2>1, <2>4, <2>6
    <3>2. ASSUME NEW c \in cache_mask' PROVE InNode(c)'
      BY <1>m, <2>1, <2>3, <3>1, InNodeStays
    <3> QED
      BY <2>1, <2>2, <2>3, <3>1, <3>2 DEF Early, CpuPcs
  <2> QED
    BY <2>5, <2>6
<1>8. CASE AddCpu
  <2>1. late = {} /\ pc = "add" /\ pc' = "visit" /\ UNCHANGED online /\ (Added \/ NotAdded)
    BY <1>8, AddCpuSplit
  <2>2. ASSUME NEW c \in online PROVE InNode(c)'
    <3>1. InNode(c)
      BY <2>1 DEF Early
    <3>2. CASE UNCHANGED numa_nodes
      BY <1>m, <3>1, <3>2, InNodeStays
    <3>3. CASE ~numa_avail
      BY <1>m, <3>3 DEF InNode
    <3> QED
      BY <2>1, <3>2, <3>3 DEF Added, NotAdded, Hang
  <2>3. Inside'
    <3> SUFFICES ASSUME NEW k \in 1 .. Len(cache_domains'), cache_domains'[k].parent # 0
                 PROVE  cache_domains'[k].mask \subseteq packages'[cache_domains'[k].parent].mask
      BY DEF Inside
    <3>1. CMask \subseteq PMask
      BY <2>1, CMaskInside
    <3>2. \A j \in 1 .. Len(cache_domains) : cache_domains[j].parent # 0 =>
              /\ cache_domains[j].parent \in 1 .. Len(packages)
              /\ cache_domains[j].mask \subseteq packages[cache_domains[j].parent].mask
      BY <1>8, <2>1, CacheListFacts DEF Linked, Early, Inside
    <3>3. \A p \in 1 .. Len(packages) : packages'[p].mask = packages[p].mask
      BY <1>8, CacheListFacts
    <3>4. CASE /\ cache_domains'[k].mask = CMask
               /\ cache_domains'[k].parent = PK /\ packages'[PK].mask = PMask
      BY <3>1, <3>4
    <3>5. CASE /\ k \in 1 .. Len(cache_domains)
               /\ cache_domains'[k].mask = cache_domains[k].mask
               /\ cache_domains'[k].parent = cache_domains[k].parent
      BY <3>2, <3>3, <3>5
    <3> QED
      BY <1>8, <3>4, <3>5, CacheListFacts
  <2> QED
    BY <2>1, <2>2, <2>3 DEF Early, CpuPcs
<1>9. CASE Connect
  <2>1. /\ late = {} /\ pc' = "collect" /\ UNCHANGED <<online, cache_domains>>
        /\ \A c \in online : InNode(c)
        /\ Inside
    BY <1>9 DEF Connect, Early
  <2>2. ASSUME NEW n \in DOMAIN numa_nodes
        PROVE  numa_nodes'[n].mask = numa_nodes[n].mask
    <3>1. numa_nodes[n] \in Node
      BY DEF TreeType, TreeTypes
    <3> QED
      BY <1>9, <3>1 DEF Connect, Node
  <2>3. DOMAIN numa_nodes' = DOMAIN numa_nodes
    BY <1>9 DEF Connect
  <2>4. \A c \in online : InNode(c)'
    BY <1>m, <2>1, <2>2, <2>3 DEF InNode
  <2>5. Inside'
    BY <1>9, <2>1, ConnectFacts DEF Inside, Linked
  <2> QED
    BY <2>1, <2>4, <2>5 DEF Early, CpuPcs
<1> QED
  BY <1>1, <1>2, <1>3, <1>4, <1>5, <1>6, <1>7, <1>8, <1>9 DEF TreeStep, BuildTree

-----------------------------------------------------------------------------
(* Failures                                                                *)

BuildPcs == {"nodes", "visit"} \cup CpuPcs

\* A set of nodes that is neither empty nor a single one has two of them at least.
LEMMA SeveralNodes ==
    ASSUME machine \in Machines, NEW S \in SUBSET NodeNumbers, S # {}, \A n : S # {n}
    PROVE  Cardinality(S) > 1
<1>1. IsFiniteSet(S)
  BY NodeFacts, FS_Subset
<1>2. Cardinality(S) \in Nat /\ Cardinality(S) # 0 /\ Cardinality(S) # 1
  BY <1>1, FS_CardinalityType, FS_EmptySet, FS_Singleton
<1> QED
  BY <1>2

\* With memory for everything, the cpu, its cache domain and its package get a way up.
LEMMA AddedWaysUp ==
    ASSUME TreeType, Linked, Masked, HasCpu, AllListed, WaysUp, AddCpu, Added
    PROVE  WaysUp'
<1>1. pc = "add" /\ machine' = machine /\ machine \in Machines /\ numa_avail' = numa_avail
  BY AddCpuSplit, SameMachine DEF kernelVars, TreeType
<1>2. NodesOf(AddNode) = {AddNode}
  <2>1. AddNode \in DOMAIN numa_nodes
    <3>1. cpu \in CpuIds
      BY <1>1, AddCpuTypes
    <3>2. machine.node[cpu] \in Range(machine.node)
      BY <1>1, <3>1, NodeFacts
    <3> QED
      BY <1>1, <3>2 DEF AllListed, AddNode, NodeOfCpu
  <2>2. numa_avail => AddNode # NUMA_NO_NODE
    <3>1. machine.node[cpu] \in Nat
      BY <1>1, AddCpuTypes, NodeFacts
    <3> QED
      BY <3>1 DEF AddNode, NodeOfCpu, NUMA_NO_NODE
  <2>3. NodeNumber(AddNode) = AddNode
    BY DEF AddNode, NodeOfCpu, NodeNumber
  <2> QED
    BY <2>1, <2>2, <2>3 DEF NodesOf, Listed
<1>3. /\ CK \in 1 .. Len(cache_domains) + 1 /\ PK \in 1 .. Len(packages) + 1
      /\ Len(cache_domains) \in Nat /\ Len(packages) \in Nat
      /\ CK <= Len(cache_domains) => cache_domains[CK].mask = CMask
  BY <1>1, AddCpuTypes DEF TreeType, TreeTypes
<1>4. IsPut(Caches, cache_domains, CK, CMask, cpu, {AddNode})
      /\ IsPut(Pkgs, packages, PK, PMask, CK, {AddNode})
  BY <1>1, <1>2, CachesFacts, PkgsFacts
<1>5. /\ \A j \in 1 .. Len(cache_domains) : j # CK => cache_domains'[j] = cache_domains[j]
      /\ Len(cache_domains') = Len(Caches) /\ Len(packages') = Len(Pkgs)
      /\ cache_domains'[CK].children = Caches[CK].children
      /\ cache_domains'[CK].numa_nodes = Caches[CK].numa_nodes
      /\ cache_domains'[CK].parent = IF Moves THEN PK ELSE Caches[CK].parent
      /\ \A j \in 1 .. Len(packages) : j # PK => packages'[j] = packages[j]
      /\ packages'[PK].children = Pkgs[PK].children
      /\ packages'[PK].numa_nodes = Pkgs[PK].numa_nodes
      /\ cpus' = With(cpus, cpu, CK)
  BY <1>1, AddedFacts DEF Added
<1>6. \A k \in 1 .. Len(cache_domains') : k = CK \/ k \in 1 .. Len(cache_domains)
  BY <1>3, <1>4, <1>5 DEF IsPut
<1>7. \A p \in 1 .. Len(packages) : packages[p].children \subseteq packages'[p].children
  BY <1>3, <1>4, <1>5 DEF IsPut
<1>8. \A c \in DOMAIN cpus' : cpus'[c] # 0
  BY <1>3, <1>5 DEF With, WaysUp
<1>9. ASSUME NEW k \in 1 .. Len(cache_domains')
      PROVE  /\ cache_domains'[k].parent # 0
             /\ k \in packages'[cache_domains'[k].parent].children
  <2>1. \A j \in 1 .. Len(cache_domains) :
            /\ cache_domains[j].parent \in 1 .. Len(packages)
            /\ j \in packages[cache_domains[j].parent].children
    BY <1>3 DEF Linked, WaysUp
  <2>2. CASE k # CK
    <3>1. k \in 1 .. Len(cache_domains) /\ cache_domains'[k] = cache_domains[k]
      BY <1>5, <1>6, <2>2
    <3>2. cache_domains[k].parent # 0
      BY <1>3, <2>1, <3>1
    <3> QED
      BY <1>7, <2>1, <3>1, <3>2
  <2>3. CASE k = CK /\ Moves
    <3>1. cache_domains'[k].parent = PK /\ CK \in packages'[PK].children
      BY <1>4, <1>5, <2>3 DEF IsPut
    <3> QED
      BY <1>3, <2>3, <3>1
  <2>4. CASE k = CK /\ ~Moves
    <3>1. CK \in 1 .. Len(cache_domains)
      BY <1>3, <2>4 DEF Moves, Linked
    <3>2. cache_domains'[k].parent = cache_domains[k].parent
      BY <1>3, <1>4, <1>5, <2>4, <3>1 DEF IsPut
    <3> QED
      BY <1>7, <2>1, <2>4, <3>1, <3>2
  <2> QED
    BY <2>2, <2>3, <2>4
<1>a. \A k \in 1 .. Len(cache_domains') : cache_domains'[k].children # {}
  <2>1. cache_domains'[CK].children # {}
    BY <1>4, <1>5 DEF IsPut
  <2> QED
    BY <1>5, <1>6, <2>1 DEF WaysUp
<1>10. ASSUME NEW k \in 1 .. Len(cache_domains'), NEW c \in cache_domains'[k].children
       PROVE  cache_domains'[k].numa_nodes = {NodeOfCpu(c)'}
  <2>1. NodeOfCpu(c)' = NodeOfCpu(c)
    BY <1>1 DEF NodeOfCpu
  <2>2. CASE k # CK
    BY <1>5, <1>6, <1>10, <2>1, <2>2 DEF WaysUp
  <2>3. CASE k = CK /\ CK <= Len(cache_domains)
    <3>1. cache_domains'[k].children = {cpu} \cup cache_domains[CK].children
          /\ cache_domains'[k].numa_nodes = {AddNode} \cup cache_domains[CK].numa_nodes
      BY <1>4, <1>5, <2>3 DEF IsPut
    <3>2. CK \in 1 .. Len(cache_domains)
      BY <1>3, <2>3
    <3>3. cache_domains[CK].children \subseteq CMask
      BY <1>3, <3>2 DEF Masked
    <3>4. \A d \in CMask : NodeOfCpu(d) = AddNode
      BY <1>1 DEF CMask, HasCpu, NodeOfCpu, AddNode
    <3>6. cache_domains'[k].numa_nodes = {NodeOfCpu(c)'}
      <4>1. PICK d \in cache_domains[CK].children : TRUE
        BY <3>2 DEF WaysUp
      <4>2. cache_domains[CK].numa_nodes = {NodeOfCpu(d)} /\ NodeOfCpu(d) = AddNode
        BY <3>2, <3>3, <3>4, <4>1 DEF WaysUp
      <4>3. NodeOfCpu(c) = AddNode
        BY <1>10, <3>1, <3>3, <3>4 DEF AddNode
      <4> QED
        BY <2>1, <3>1, <4>2, <4>3
    <3> QED
      BY <3>6
  <2>4. CASE k = CK /\ ~(CK <= Len(cache_domains))
    <3>1. cache_domains'[k].children = {cpu} /\ cache_domains'[k].numa_nodes = {AddNode}
      BY <1>4, <1>5, <2>4 DEF IsPut
    <3> QED
      BY <1>10, <2>1, <3>1 DEF AddNode
  <2> QED
    BY <2>2, <2>3, <2>4
<1>11. ASSUME NEW p \in 1 .. Len(packages')
       PROVE  packages'[p].numa_nodes # {}
  <2>1. p = PK \/ (p \in 1 .. Len(packages) /\ packages'[p] = packages[p])
    BY <1>3, <1>4, <1>5 DEF IsPut
  <2>2. packages'[PK].numa_nodes # {}
    BY <1>4, <1>5 DEF IsPut
  <2> QED
    BY <2>1, <2>2 DEF WaysUp
<1> QED
  BY <1>8, <1>9, <1>a, <1>10, <1>11 DEF WaysUp

\* In the end every listed cpu is below a node.
LEMMA ConnectComplete ==
    ASSUME TreeType, Linked, AllListed, WaysUp, Counted, pc = "visit", Connect
    PROVE  FailureNoticed'
<1>1. /\ machine' = machine /\ machine \in Machines /\ banned_cpus' = banned_cpus
      /\ UNCHANGED <<cache_domains, cpus, cpu_online_map>>
  BY SameMachine DEF Connect, kernelVars, TreeType
<1>2. DOMAIN numa_nodes' = DOMAIN numa_nodes
      /\ \A n \in DOMAIN numa_nodes : Connected(n) \subseteq numa_nodes'[n].children
  <2>1. ASSUME NEW n \in DOMAIN numa_nodes
        PROVE  Connected(n) \subseteq numa_nodes'[n].children
    <3>1. numa_nodes[n] \in Node
      BY DEF TreeType, TreeTypes
    <3> QED
      BY <3>1 DEF Connect, Node
  <2> QED
    BY <2>1 DEF Connect
<1>3. ASSUME NEW n \in DOMAIN numa_nodes', NEW c \in CpusBelow(n)'
      PROVE  c \in DOMAIN cpus
  <2>1. PICK k \in CachesBelow(n)' : c \in cache_domains[k].children
    BY <1>1, <1>3 DEF CpusBelow
  <2>2. k \in 1 .. Len(cache_domains)
    <3>1. CASE k \in 1 .. Len(cache_domains')
      BY <1>1, <3>1
    <3>2. CASE \E p \in 1 .. Len(packages') : k \in packages'[p].children
      BY <3>2, ConnectFacts DEF Linked
    <3> QED
      BY <2>1, <3>1, <3>2 DEF CachesBelow
  <2> QED
    BY <2>1, <2>2 DEF Linked
<1>4. ASSUME NEW c \in DOMAIN cpus
      PROVE  \E n \in DOMAIN numa_nodes' : c \in CpusBelow(n)'
  <2> DEFINE k == cpus[c]
             p == cache_domains[k].parent
  <2>1. /\ k \in 1 .. Len(cache_domains) /\ c \in cache_domains[k].children
        /\ p \in 1 .. Len(packages) /\ k \in packages[p].children
        /\ cache_domains[k].numa_nodes = {NodeOfCpu(c)}
        /\ packages[p].numa_nodes # {} /\ packages[p].numa_nodes \subseteq DOMAIN numa_nodes
    <3>1. Len(packages) \in Nat
      BY ConnectFacts
    <3>2. /\ k \in 1 .. Len(cache_domains) /\ c \in cache_domains[k].children
      BY DEF Linked, WaysUp
    <3>3. p \in 1 .. Len(packages) /\ k \in packages[p].children
      BY <3>1, <3>2 DEF Linked, WaysUp
    <3> QED
      BY <3>2, <3>3 DEF Linked, WaysUp
  <2> HIDE DEF k, p
  <2>2. SUFFICES \E n \in DOMAIN numa_nodes' : k \in CachesBelow(n)'
    BY <1>1, <2>1, Zenon DEF CpusBelow
  <2>3. CASE \E n : packages[p].numa_nodes = {n}
    <3>1. PICK n : packages[p].numa_nodes = {n}
      BY <2>3
    <3>2. n \in DOMAIN numa_nodes
      BY <2>1, <3>1
    <3>3. <<"package", p>> \in Connected(n)
      BY <2>1, <3>1, Zenon DEF Connected
    <3>4. <<"package", p>> \in numa_nodes'[n].children /\ p \in 1 .. Len(packages')
          /\ k \in packages'[p].children
      BY <1>2, <2>1, <3>2, <3>3, ConnectFacts
    <3>5. k \in CachesBelow(n)'
      BY <3>4, Zenon DEF CachesBelow
    <3> QED
      BY <1>2, <3>2, <3>5
  <2>4. CASE ~\E n : packages[p].numa_nodes = {n}
    <3>1. packages[p].numa_nodes \in SUBSET NodeNumbers
      BY <2>1 DEF TreeType, TreeTypes
    <3>2. Cardinality(packages[p].numa_nodes) > 1
      BY <1>1, <2>1, <2>4, <3>1, SeveralNodes
    <3>n. PICK n : n = NodeOfCpu(c)
      OBVIOUS
    <3>3. n \in DOMAIN numa_nodes
      <4>1. c \in CpuIds
        BY DEF TreeType, TreeTypes
      <4> QED
        BY <1>1, <3>n, <4>1, NodeFacts DEF AllListed, NodeOfCpu
    <3>4. <<"cache", k>> \in Connected(n)
      BY <2>1, <3>n, <3>2, Zenon DEF Connected
    <3>5. <<"cache", k>> \in numa_nodes'[n].children /\ k \in 1 .. Len(cache_domains')
      BY <1>1, <1>2, <2>1, <3>3, <3>4
    <3>6. k \in CachesBelow(n)'
      BY <3>5, Zenon DEF CachesBelow
    <3> QED
      BY <1>2, <3>3, <3>6
  <2> QED
    BY <2>3, <2>4
<1>5. DOMAIN cpus' = UNION { CpusBelow(n)' : n \in DOMAIN numa_nodes' }
  <2>1. DOMAIN cpus' \subseteq UNION { CpusBelow(n)' : n \in DOMAIN numa_nodes' }
    BY <1>1, <1>4, Zenon
  <2>2. UNION { CpusBelow(n)' : n \in DOMAIN numa_nodes' } \subseteq DOMAIN cpus'
    BY <1>1, <1>3, Zenon
  <2> QED
    BY <2>1, <2>2, Zenon
<1>6. cpu_online_map' = DOMAIN cpus' \cup (cpu_online_map' \cap banned_cpus')
  BY <1>1 DEF Counted, CpuPcs
<1> QED
  BY <1>5, <1>6 DEF FailureNoticed

\* Every failure is noticed.
LEMMA FailNext ==
    ASSUME TreeType, MaskInv, FailInv, TreeStep
    PROVE  FailInv'
<1> USE DEF kernelVars, treeVars, localVars, BuildPcs
<1> SUFFICES ASSUME ~need_rebuild'
             PROVE  FailInv'
  BY DEF FailInv
<1>m. machine' = machine /\ machine \in Machines /\ numa_avail' = numa_avail
      /\ banned_cpus' = banned_cpus
  BY TreeStepMachine, SameMachine DEF TreeType
<1>b. ASSUME pc' \in BuildPcs, AllListed', WaysUp', Counted'
      PROVE  FailInv'
  BY <1>b DEF FailInv, FailureNoticed, TreeBuilt, CpuPcs
<1>1. CASE StartBuild
  BY <1>1, <1>m, <1>b DEF StartBuild, AllListed, WaysUp, Counted, CpuPcs
<1>2. CASE AddCpu
  <2>1. pc = "add" /\ pc' = "visit" /\ UNCHANGED <<cpu_online_map, cpu>> /\ Added
    BY <1>2, AddCpuSplit DEF NotAdded, NoMemory
  <2>2. ~need_rebuild
    BY <2>1 DEF Added
  <2>3. AllListed /\ WaysUp /\ Counted /\ Linked /\ Masked /\ HasCpu
    BY <2>1, <2>2 DEF FailInv, CpuPcs, MaskInv
  <2>4. WaysUp'
    BY <1>2, <2>1, <2>3, AddedWaysUp
  <2>5. DOMAIN numa_nodes' = DOMAIN numa_nodes
    BY <2>1 DEF Added
  <2>6. AllListed'
    BY <1>m, <2>1, <2>3, <2>5 DEF AllListed
  <2>7. Counted'
    <3>1. DOMAIN cpus' = DOMAIN cpus \cup {cpu}
      BY <2>1 DEF Added, With
    <3> QED
      BY <1>m, <2>1, <2>3, <3>1 DEF Counted, CpuPcs
  <2> QED
    BY <1>b, <2>1, <2>4, <2>6, <2>7
<1>3. CASE Connect
  <2>1. pc = "visit" /\ pc' = "collect" /\ ~need_rebuild
    BY <1>3 DEF Connect
  <2>2. AllListed /\ WaysUp /\ Counted /\ Linked
    BY <2>1 DEF FailInv, MaskInv
  <2>3. FailureNoticed'
    BY <1>3, <2>1, <2>2, ConnectComplete
  <2> QED
    BY <2>1, <2>3 DEF FailInv, CpuPcs
<1>4. CASE Hotplug \/ add_one_node \/ StartCpus \/ Visit \/ ReadPackage \/ ReadCache
  <2>1. ~need_rebuild /\ pc \in BuildPcs /\ pc' \in BuildPcs
        /\ UNCHANGED <<packages, cache_domains, cpus>>
    BY <1>4 DEF Hotplug, add_one_node, StartCpus, Visit, ReadPackage, ReadCache, CpuPcs,
       NoMemory
  <2>2. AllListed /\ WaysUp /\ Counted
    BY <2>1 DEF FailInv
  <2>3. WaysUp'
    BY <1>m, <2>1, <2>2 DEF WaysUp, NodeOfCpu
  <2>4. AllListed'
    <3>1. CASE add_one_node
      <4> DEFINE n == CHOOSE m \in todo : \A k \in todo : m <= k
      <4>1. todo' = todo \ {n} /\ pc' = "nodes"
            /\ numa_nodes' = With(numa_nodes, n, [mask |-> NodeMask(n), children |-> {}])
        BY <3>1 DEF add_one_node, NoMemory
      <4> HIDE DEF n
      <4>2. DOMAIN numa_nodes' = DOMAIN numa_nodes \cup {n}
        BY <4>1 DEF With
      <4> QED
        BY <1>m, <2>2, <4>1, <4>2 DEF AllListed
    <3>2. CASE Hotplug \/ StartCpus \/ Visit \/ ReadPackage \/ ReadCache
      <4>1. UNCHANGED numa_nodes /\ (pc = "nodes" => UNCHANGED <<pc, todo>> \/ todo = {})
        BY <3>2 DEF Hotplug, StartCpus, Visit, ReadPackage, ReadCache
      <4> QED
        BY <1>m, <2>2, <4>1 DEF AllListed
    <3> QED
      BY <1>4, <3>1, <3>2
  <2>5. Counted'
    <3>1. CASE Visit
      <4>1. PICK c \in todo :
              /\ cpu' = c
              /\ \/ UNCHANGED <<pc, cpu_online_map>>
                 \/ /\ cpu_online_map' = cpu_online_map \cup {c}
                    /\ pc' = IF c \in banned_cpus THEN "visit" ELSE "package"
        BY <3>1 DEF Visit
      <4>2. pc = "visit"
        BY <3>1 DEF Visit
      <4> QED
        BY <1>m, <2>1, <2>2, <4>1, <4>2 DEF Counted, CpuPcs
    <3>2. CASE Hotplug \/ add_one_node \/ StartCpus \/ ReadPackage \/ ReadCache
      <4>1. UNCHANGED <<cpu_online_map, cpu>> /\ (pc \in CpuPcs <=> pc' \in CpuPcs)
        BY <3>2 DEF Hotplug, add_one_node, StartCpus, ReadPackage, ReadCache, CpuPcs
      <4> QED
        BY <1>m, <2>1, <2>2, <4>1 DEF Counted
    <3> QED
      BY <1>4, <3>1, <3>2
  <2> QED
    BY <1>b, <2>1, <2>3, <2>4, <2>5
<1> QED
  BY <1>1, <1>2, <1>3, <1>4 DEF TreeStep, BuildTree

-----------------------------------------------------------------------------
(* The tree: the invariant as a whole                                      *)

\* A step of the build, or a cpu that comes or goes, keeps the invariant.
LEMMA TreeInvNext ==
    ASSUME TreeInv, TreeStep
    PROVE  TreeInv'
  BY TreeTypeNext, LinkedNext, MaskedNext, HasCpuNext, EarlyNext, FailNext DEF TreeInv, MaskInv

\* No tree, as at first and after the third try.
Bare ==
    /\ machine \in Machines /\ online \subseteq CpuIds /\ need_rebuild \in BOOLEAN
    /\ numa_nodes = <<>> /\ packages = <<>> /\ cache_domains = <<>> /\ cpus = <<>>
    /\ cpu_online_map = {} /\ package_mask \subseteq CpuIds /\ cache_mask \subseteq CpuIds
    /\ pc \notin BuildPcs

\* There is no tree at first, and none after the third try.
LEMMA NoTree == Bare => TreeInv
<1> SUFFICES ASSUME Bare PROVE TreeInv
  OBVIOUS
<1> USE DEF Bare
<1>1. TreeType
  <2>1. <<>> \in Seq(Object) /\ DOMAIN <<>> = {} /\ <<>> \in [{} -> Node] /\ <<>> \in [{} -> Nat]
    OBVIOUS
  <2> QED
    BY <2>1 DEF TreeType, TreeTypes, LocalTypes, BuildPcs, CpuPcs
<1>2. MaskInv
  <2>1. Len(packages) = 0 /\ Len(cache_domains) = 0 /\ DOMAIN cpus = {} /\ DOMAIN numa_nodes = {}
    OBVIOUS
  <2>2. Linked /\ Masked /\ HasCpu
    BY <2>1 DEF Linked, Masked, HasCpu, BuildPcs, CpuPcs
  <2>3. Early
    BY <2>1 DEF Early, InNode, Inside, BuildPcs, CpuPcs
  <2> QED
    BY <2>2, <2>3 DEF MaskInv
<1>3. FailureNoticed
  <2>1. DOMAIN cpus = {} /\ DOMAIN numa_nodes = {}
    OBVIOUS
  <2> QED
    BY <2>1, Zenon DEF FailureNoticed
<1> QED
  BY <1>1, <1>2, <1>3 DEF TreeInv, FailInv, BuildPcs, CpuPcs

\* Once it is built the tree stays as it is.
LEMMA TreeStays ==
    ASSUME TreeInv, pc \notin BuildPcs \cup {"free"}, pc' \notin BuildPcs,
           UNCHANGED <<kernelVars, need_rebuild, treeVars, localVars, disturbed, late>>
    PROVE  TreeInv'
<1> USE DEF kernelVars, treeVars, localVars, BuildPcs, CpuPcs
<1>m. machine' = machine /\ machine \in Machines
      /\ CpuIds' = CpuIds /\ banned_cpus' = banned_cpus /\ numa_avail' = numa_avail
      /\ NodeNumbers' = NodeNumbers /\ Object' = Object /\ Node' = Node
  BY SameMachine DEF TreeInv, TreeType
<1>1. TreeType'
  BY <1>m DEF TreeInv, TreeType, TreeTypes, LocalTypes
<1>2. Linked' /\ Masked' /\ HasCpu'
  BY <1>m DEF TreeInv, MaskInv, Linked, Masked, HasCpu
<1>3. Early'
  <2>1. ASSUME late' = {} PROVE Inside' /\ \A c \in online' : InNode(c)'
    <3>1. Inside /\ \A c \in online : InNode(c)
      BY <2>1 DEF TreeInv, MaskInv, Early
    <3>2. \A c \in online' : InNode(c)'
      BY <3>1 DEF InNode, numa_avail
    <3> QED
      BY <3>1, <3>2 DEF Inside
  <2> QED
    BY <2>1 DEF Early
<1>4. FailInv'
  <2>1. ASSUME ~need_rebuild PROVE FailureNoticed'
    <3>1. FailureNoticed /\ TreeBuilt
      BY <2>1 DEF TreeInv, FailInv, TreeBuilt
    <3>2. \A n : CpusBelow(n)' = CpusBelow(n)
      BY DEF CpusBelow, CachesBelow
    <3> QED
      BY <1>m, <2>1, <3>1, <3>2, Zenon DEF FailureNoticed
  <2> QED
    BY <2>1 DEF FailInv
<1> QED
  BY <1>1, <1>2, <1>3, <1>4 DEF TreeInv, MaskInv

\* The invariant says what MasksHold and FailureNoticed ask for.
LEMMA TreeInvImplies ==
    ASSUME TreeInv
    PROVE  MasksHold /\ (TreeBuilt => FailureNoticed)
<1>1. \A o \in Range(packages) \cup Range(cache_domains) : o.mask \cap banned_cpus = {}
  BY DEF TreeInv, TreeType, TreeTypes, MaskInv, Masked, Range
<1>2. ASSUME NEW c \in DOMAIN cpus, cpus[c] # 0
      PROVE  /\ c \in cache_domains[cpus[c]].mask
             /\ cache_domains[cpus[c]].parent # 0 /\ late = {} =>
                    c \in packages[cache_domains[cpus[c]].parent].mask
  BY <1>2 DEF TreeInv, MaskInv, Linked, Masked, Early, Inside
<1> QED
  BY <1>1, <1>2 DEF MasksHold, TreeInv, FailInv, FailureNoticed

-----------------------------------------------------------------------------
(* The undisturbed build                                                   *)

\* The masks of an undisturbed build: the online part of the cache and of the package of
\* cpu c, the latter cut down to the node where that is smaller.
CacheMask(c) == unbanned_cpus \cap Siblings(machine.cache, c)

WholeMask(c) ==
    LET package == Siblings(machine.package, c)
        node == NodeMask(machine.node[c])
    IN  unbanned_cpus \cap
            IF numa_avail /\ Cardinality(package) > Cardinality(node) THEN package \cap node
            ELSE package

\* What has been read is what there is.
ExactReads ==
    /\ \A n \in DOMAIN numa_nodes : numa_nodes[n].mask = NodeMask(n)
    /\ pc \in CpuPcs => cpu \in online
    /\ pc \in {"cache", "add"} => package_mask = Siblings(machine.package, cpu)
    /\ pc = "add" => cache_mask = Siblings(machine.cache, cpu)

\* Every cpu that was visited, is online and is not banned is listed, or about to be.
ExactCpus ==
    DOMAIN cpus \cup (IF pc \in CpuPcs THEN {cpu} ELSE {})
        = IF pc = "nodes" THEN {} ELSE (online \ banned_cpus) \ todo

\* No two objects of a list have the same mask, and the objects of a cpu are those with
\* its masks.
ExactMasks ==
    /\ \A j, k \in 1 .. Len(cache_domains) :
          cache_domains[j].mask = cache_domains[k].mask => j = k
    /\ \A p, q \in 1 .. Len(packages) : packages[p].mask = packages[q].mask => p = q
    /\ \A c \in DOMAIN cpus :
          /\ cache_domains[cpus[c]].mask = CacheMask(c)
          /\ packages[cache_domains[cpus[c]].parent].mask = WholeMask(c)

\* The links down are the links up, read the other way.
ExactLinks ==
    /\ \A k \in 1 .. Len(cache_domains) :
          /\ \A c \in cache_domains[k].children : cpus[c] = k
          /\ cache_domains[k].numa_nodes \subseteq packages[cache_domains[k].parent].numa_nodes
    /\ \A p \in 1 .. Len(packages) :
          /\ packages[p].children # {}
          /\ \A k \in packages[p].children : cache_domains[k].parent = p

\* Nothing is hung under a node before the end, but for the one there is without libnuma.
ExactNodes ==
    /\ numa_avail => \A n \in DOMAIN numa_nodes : numa_nodes[n].children = {}
    /\ ~numa_avail => /\ DOMAIN numa_nodes \subseteq {NUMA_NO_NODE}
                      /\ pc = "nodes" => todo \subseteq {NUMA_NO_NODE}

Exact == ExactReads /\ ExactCpus /\ ExactMasks /\ ExactLinks /\ ExactNodes

\* All that holds as long as nothing has come in between.
ExactInv ==
    ~disturbed /\ ~need_rebuild =>
        /\ pc \in BuildPcs => Exact
        /\ TreeRight

\* The masks of a cpu are those of its cache domain, and are there for it to be in.
LEMMA CpuMasks ==
    ASSUME machine \in Machines, online \subseteq CpuIds, NEW c \in online \ banned_cpus
    PROVE  /\ c \in CacheMask(c)
           /\ \A d \in CacheMask(c) :
                 /\ d \in online \ banned_cpus
                 /\ CacheMask(d) = CacheMask(c) /\ WholeMask(d) = WholeMask(c)
           /\ WholeMask(c) \subseteq online \ banned_cpus
           /\ CacheMask(c) \subseteq WholeMask(c)
<1>1. c \in CpuIds /\ online \subseteq CpuIds /\ machine.node \in [CpuIds -> Nat]
      /\ NUMA_NO_NODE \notin Nat
  BY MachineFacts DEF NUMA_NO_NODE
<1>2. CacheMask(c) = { d \in online \ banned_cpus : machine.cache[d] = machine.cache[c] }
  BY <1>1 DEF CacheMask, Siblings, unbanned_cpus
<1>3. ASSUME NEW d \in CacheMask(c)
      PROVE  /\ d \in online \ banned_cpus /\ machine.cache[d] = machine.cache[c]
             /\ machine.package[d] = machine.package[c] /\ machine.node[d] = machine.node[c]
  BY <1>1, <1>2, MachineFacts
<1>4. ASSUME NEW d \in CacheMask(c)
      PROVE  CacheMask(d) = CacheMask(c) /\ WholeMask(d) = WholeMask(c)
  <2>1. Siblings(machine.cache, d) = Siblings(machine.cache, c)
        /\ Siblings(machine.package, d) = Siblings(machine.package, c)
    BY <1>3 DEF Siblings
  <2> QED
    BY <1>3, <2>1 DEF CacheMask, WholeMask
<1>5. WholeMask(c) \subseteq online \ banned_cpus
  BY DEF WholeMask, unbanned_cpus, Siblings
<1>6. CacheMask(c) \subseteq WholeMask(c)
  <2>1. ASSUME NEW d \in CacheMask(c)
        PROVE  d \in unbanned_cpus /\ d \in Siblings(machine.package, c)
               /\ d \in NodeMask(machine.node[c])
    BY <1>1, <1>3 DEF unbanned_cpus, Siblings, NodeMask
  <2> QED
    BY <2>1 DEF WholeMask
<1> QED
  BY <1>2, <1>3, <1>4, <1>5, <1>6

\* Where no package lies across two nodes, the package of a cpu is the same for all the
\* cpus of its mask.
LEMMA NestedMask ==
    ASSUME machine \in Machines, online \subseteq CpuIds, Nested, NEW c \in online \ banned_cpus
    PROVE  WholeMask(c) = { d \in online \ banned_cpus :
                              /\ machine.package[d] = machine.package[c]
                              /\ numa_avail => machine.node[d] = machine.node[c] }
<1>1. c \in CpuIds /\ machine.node \in [CpuIds -> Nat] /\ NUMA_NO_NODE \notin Nat
      /\ IsFiniteSet(CpuIds)
  BY MachineFacts DEF NUMA_NO_NODE
<1> DEFINE package == Siblings(machine.package, c)
           node == NodeMask(machine.node[c])
<1>2. /\ package = { d \in online : machine.package[d] = machine.package[c] }
      /\ node = { d \in online : machine.node[d] = machine.node[c] }
  BY <1>1 DEF Siblings, NodeMask
<1>3. /\ IsFiniteSet(package) /\ IsFiniteSet(node)
      /\ Cardinality(package) \in Nat /\ Cardinality(node) \in Nat
  BY <1>1, <1>2, FS_Subset, FS_CardinalityType
<1>4. package \subseteq node \/ node \subseteq package
  <2>1. \/ { d \in CpuIds : machine.package[d] = machine.package[c] }
              \subseteq { d \in CpuIds : machine.node[d] = machine.node[c] }
        \/ { d \in CpuIds : machine.node[d] = machine.node[c] }
              \subseteq { d \in CpuIds : machine.package[d] = machine.package[c] }
    BY <1>1 DEF Nested
  <2> QED
    BY <1>2, <2>1
<1>5. WholeMask(c) = unbanned_cpus \cap
            IF numa_avail /\ Cardinality(package) > Cardinality(node) THEN package \cap node
            ELSE package
  BY DEF WholeMask
<1> HIDE DEF package, node
<1>6. numa_avail /\ ~(Cardinality(package) > Cardinality(node)) => package \subseteq node
  <2>1. ASSUME node \subseteq package, ~(Cardinality(package) > Cardinality(node))
        PROVE  package = node
    <3>1. Cardinality(node) <= Cardinality(package)
      BY <1>3, <2>1, FS_Subset
    <3>2. Cardinality(node) = Cardinality(package)
      BY <1>3, <2>1, <3>1
    <3> QED
      BY <1>3, <2>1, <3>2, FS_Subset
  <2> QED
    BY <1>4, <2>1
<1>7. numa_avail => WholeMask(c) = unbanned_cpus \cap package \cap node
  BY <1>5, <1>6
<1>8. ~numa_avail => WholeMask(c) = unbanned_cpus \cap package
  BY <1>5
<1> QED
  BY <1>2, <1>7, <1>8 DEF unbanned_cpus

\* What AddCpu works with when nothing has come in between.
LEMMA ExactAdd ==
    ASSUME TreeType, AllListed, ExactReads, pc = "add"
    PROVE  /\ CMask = CacheMask(cpu) /\ PMask = WholeMask(cpu)
           /\ NodesOf(AddNode) = {AddNode}
           /\ cpu \in online \ banned_cpus
<1>1. machine \in Machines /\ cpu \in CpuIds /\ cpu \in online \ banned_cpus
  BY DEF TreeType, LocalTypes, CpuPcs, ExactReads
<1>2. AddNode \in DOMAIN numa_nodes /\ NodeNumber(AddNode) = AddNode
  BY <1>1, NodeFacts DEF AllListed, AddNode, NodeOfCpu, NodeNumber
<1>3. numa_avail => AddNode = machine.node[cpu] /\ AddNode # NUMA_NO_NODE
  BY <1>1, MachineFacts DEF AddNode, NodeOfCpu, NUMA_NO_NODE
<1>4. package_mask = Siblings(machine.package, cpu) /\ cache_mask = Siblings(machine.cache, cpu)
      /\ numa_nodes[AddNode].mask = NodeMask(AddNode)
  BY <1>2 DEF ExactReads
<1>5. CMask = CacheMask(cpu)
  BY <1>4 DEF CMask, CacheMask
<1>6. PMask = WholeMask(cpu)
  BY <1>2, <1>3, <1>4 DEF PMask, PackageMask, WholeMask, Listed
<1>7. NodesOf(AddNode) = {AddNode}
  BY <1>2, <1>3 DEF NodesOf, Listed
<1> QED
  BY <1>1, <1>5, <1>6, <1>7

\* A cache domain that is there already is under the package that is looked for.
LEMMA ExactParent ==
    ASSUME TreeType, Linked, AllListed, WaysUp, ExactReads, ExactMasks, ExactLinks,
           DOMAIN cpus \subseteq online \ banned_cpus,
           pc = "add", CK \in 1 .. Len(cache_domains)
    PROVE  /\ PK \in 1 .. Len(packages) /\ cache_domains[CK].parent = PK
           /\ CK \in packages[PK].children
<1>1. machine \in Machines /\ online \subseteq CpuIds
      /\ Len(packages) \in Nat /\ packages \in Seq(Object)
  BY DEF TreeType, TreeTypes
<1>2. /\ cache_domains[CK].mask = CMask
      /\ PK \in 1 .. Len(packages) + 1
      /\ PK <= Len(packages) => packages[PK].mask = PMask
  BY AddCpuTypes
<1>3. PICK c \in cache_domains[CK].children : TRUE
  BY DEF WaysUp
<1>4. c \in DOMAIN cpus /\ cpus[c] = CK /\ c \in online \ banned_cpus
  BY <1>3 DEF Linked, ExactLinks
<1>5. CacheMask(c) = CacheMask(cpu) /\ packages[cache_domains[CK].parent].mask = WholeMask(c)
  BY <1>2, <1>4, ExactAdd DEF ExactMasks
<1>6. WholeMask(c) = PMask
  <2>1. cpu \in CacheMask(c)
    BY <1>1, <1>5, CpuMasks, ExactAdd
  <2> QED
    BY <1>1, <1>4, <2>1, CpuMasks, ExactAdd
<1> DEFINE p == cache_domains[CK].parent
<1>7. p \in 1 .. Len(packages) /\ packages[p].mask = PMask /\ CK \in packages[p].children
  BY <1>1, <1>5, <1>6 DEF Linked, WaysUp
<1>8. PK <= Len(packages)
  <2>1. ~(PK > Len(packages))
    BY <1>1, <1>7, PlaceFacts DEF PK
  <2> QED
    BY <1>1, <1>2, <2>1
<1>9. PK \in 1 .. Len(packages) /\ p = PK
  BY <1>1, <1>2, <1>7, <1>8 DEF ExactMasks
<1> QED
  BY <1>7, <1>9

\* The lists after AddCpu when nothing has come in between.
LEMMA ExactLists ==
    ASSUME TreeType, Linked, AllListed, WaysUp, ExactReads, ExactMasks, ExactLinks,
           DOMAIN cpus \subseteq online \ banned_cpus, AddCpu, Added
    PROVE  /\ CK \in 1 .. Len(cache_domains') /\ PK \in 1 .. Len(packages')
           /\ \A k \in 1 .. Len(cache_domains') : k # CK =>
                 k \in 1 .. Len(cache_domains) /\ cache_domains'[k] = cache_domains[k]
           /\ \A p \in 1 .. Len(packages') : p # PK =>
                 p \in 1 .. Len(packages) /\ packages'[p] = packages[p]
           /\ \A k \in 1 .. Len(cache_domains) : k \in 1 .. Len(cache_domains')
           /\ \A p \in 1 .. Len(packages) : p \in 1 .. Len(packages')
           /\ cache_domains'[CK].mask = CMask /\ packages'[PK].mask = PMask
           /\ \A k \in 1 .. Len(cache_domains) :
                 IF k = CK THEN cache_domains[k].mask = CMask
                 ELSE cache_domains[k].mask # CMask
           /\ \A p \in 1 .. Len(packages) :
                 IF p = PK THEN packages[p].mask = PMask ELSE packages[p].mask # PMask
           /\ cache_domains'[CK].parent = PK
           /\ cache_domains'[CK].children = {cpu} \cup
                 IF CK \in 1 .. Len(cache_domains) THEN cache_domains[CK].children ELSE {}
           /\ cache_domains'[CK].numa_nodes = {AddNode} \cup
                 IF CK \in 1 .. Len(cache_domains) THEN cache_domains[CK].numa_nodes ELSE {}
           /\ packages'[PK].children = {CK} \cup
                 IF PK \in 1 .. Len(packages) THEN packages[PK].children ELSE {}
           /\ packages'[PK].numa_nodes = {AddNode} \cup
                 IF PK \in 1 .. Len(packages) THEN packages[PK].numa_nodes ELSE {}
           /\ cpus' = With(cpus, cpu, CK)
<1>1. pc = "add" /\ packages \in Seq(Object) /\ cache_domains \in Seq(Object)
  BY AddCpuSplit DEF TreeType, TreeTypes
<1>2. /\ CK \in 1 .. Len(cache_domains) + 1 /\ PK \in 1 .. Len(packages) + 1
      /\ CK <= Len(cache_domains) => cache_domains[CK].mask = CMask
      /\ PK <= Len(packages) => packages[PK].mask = PMask
      /\ Len(cache_domains) \in Nat /\ Len(packages) \in Nat
  BY <1>1, AddCpuTypes
<1>3. IsPut(Caches, cache_domains, CK, CMask, cpu, {AddNode})
      /\ IsPut(Pkgs, packages, PK, PMask, CK, {AddNode})
  BY <1>1, CachesFacts, PkgsFacts, ExactAdd
<1>4. /\ Len(cache_domains') = Len(Caches) /\ Len(packages') = Len(Pkgs)
      /\ \A j \in 1 .. Len(cache_domains) : j # CK => cache_domains'[j] = cache_domains[j]
      /\ cache_domains'[CK].mask = CMask
      /\ cache_domains'[CK].children = Caches[CK].children
      /\ cache_domains'[CK].numa_nodes = Caches[CK].numa_nodes
      /\ cache_domains'[CK].parent = IF Moves THEN PK ELSE Caches[CK].parent
      /\ \A j \in 1 .. Len(packages) : j # PK => packages'[j] = packages[j]
      /\ packages'[PK].mask = PMask
      /\ packages'[PK].children = Pkgs[PK].children
      /\ packages'[PK].numa_nodes = Pkgs[PK].numa_nodes
  BY <1>1, AddedFacts
<1>5. /\ CK \in 1 .. Len(cache_domains') /\ PK \in 1 .. Len(packages')
      /\ \A k \in 1 .. Len(cache_domains') : k # CK => k \in 1 .. Len(cache_domains)
      /\ \A p \in 1 .. Len(packages') : p # PK => p \in 1 .. Len(packages)
      /\ \A k \in 1 .. Len(cache_domains) : k \in 1 .. Len(cache_domains')
      /\ \A p \in 1 .. Len(packages) : p \in 1 .. Len(packages')
  BY <1>2, <1>3, <1>4 DEF IsPut
<1>6. /\ CK <= Len(cache_domains) <=> CK \in 1 .. Len(cache_domains)
      /\ PK <= Len(packages) <=> PK \in 1 .. Len(packages)
  BY <1>2
<1>7. cache_domains'[CK].parent = PK
  <2>1. CASE CK \in 1 .. Len(cache_domains)
    <3>1. cache_domains[CK].parent = PK
      BY <1>1, <2>1, ExactParent
    <3> QED
      BY <1>3, <1>4, <1>6, <2>1, <3>1 DEF IsPut
  <2>2. CASE CK \notin 1 .. Len(cache_domains)
    <3>1. Moves
      BY <1>2, <2>2 DEF Moves, Linked
    <3> QED
      BY <1>4, <3>1
  <2> QED
    BY <2>1, <2>2
<1>8. \A k \in 1 .. Len(cache_domains) :
         IF k = CK THEN cache_domains[k].mask = CMask ELSE cache_domains[k].mask # CMask
  <2>1. CK > Len(cache_domains) => \A k \in 1 .. Len(cache_domains) : cache_domains[k].mask # CMask
    BY <1>1, PlaceFacts DEF CK
  <2> QED
    BY <1>2, <2>1 DEF ExactMasks
<1>9. \A p \in 1 .. Len(packages) :
         IF p = PK THEN packages[p].mask = PMask ELSE packages[p].mask # PMask
  <2>1. PK > Len(packages) => \A p \in 1 .. Len(packages) : packages[p].mask # PMask
    BY <1>1, PlaceFacts DEF PK
  <2> QED
    BY <1>2, <2>1 DEF ExactMasks
<1>10. /\ Caches[CK].children = {cpu} \cup
             IF CK \in 1 .. Len(cache_domains) THEN cache_domains[CK].children ELSE {}
       /\ Caches[CK].numa_nodes = {AddNode} \cup
             IF CK \in 1 .. Len(cache_domains) THEN cache_domains[CK].numa_nodes ELSE {}
       /\ Pkgs[PK].children = {CK} \cup
             IF PK \in 1 .. Len(packages) THEN packages[PK].children ELSE {}
       /\ Pkgs[PK].numa_nodes = {AddNode} \cup
             IF PK \in 1 .. Len(packages) THEN packages[PK].numa_nodes ELSE {}
  BY <1>3, <1>6 DEF IsPut
<1>11. cpus' = With(cpus, cpu, CK)
  BY DEF Added
<1> QED
  BY <1>4, <1>5, <1>7, <1>8, <1>9, <1>10, <1>11

\* AddCpu keeps the lists exact.
LEMMA ExactAddCpu ==
    ASSUME TreeType, Linked, AllListed, WaysUp, Exact, AddCpu, Added
    PROVE  Exact'
<1> USE DEF kernelVars, localVars
<1>1. /\ pc = "add" /\ pc' = "visit" /\ UNCHANGED <<machine, online, todo, cpu>>
      /\ banned_cpus' = banned_cpus /\ numa_avail' = numa_avail /\ CpuIds' = CpuIds
  BY AddCpuSplit, SameMachine
<1>2. /\ ExactReads /\ ExactMasks /\ ExactLinks
      /\ DOMAIN cpus \cup {cpu} = (online \ banned_cpus) \ todo
      /\ DOMAIN cpus \subseteq online \ banned_cpus
  BY <1>1 DEF Exact, ExactCpus, CpuPcs
<1>3. DOMAIN cpus' = DOMAIN cpus \cup {cpu}
      /\ \A c \in DOMAIN cpus' : cpus'[c] = IF c = cpu THEN CK ELSE cpus[c]
  BY DEF Added, With
<1>4. ExactCpus'
  BY <1>1, <1>2, <1>3 DEF ExactCpus, CpuPcs
<1>5. \A n : NodeMask(n)' = NodeMask(n)
  BY <1>1 DEF NodeMask
<1>6. \A c : CacheMask(c)' = CacheMask(c) /\ WholeMask(c)' = WholeMask(c)
  BY <1>1, <1>5 DEF CacheMask, WholeMask, Siblings, unbanned_cpus
<1>7. /\ DOMAIN numa_nodes' = DOMAIN numa_nodes
      /\ \A n \in DOMAIN numa_nodes : numa_nodes'[n].mask = numa_nodes[n].mask
      /\ numa_avail => numa_nodes' = numa_nodes
  <2>1. numa_nodes \in [DOMAIN numa_nodes -> Node]
    BY DEF TreeType, TreeTypes
  <2>2. CASE ~Hang
    BY <2>2 DEF Added
  <2>3. CASE Hang
    BY <2>1, <2>3 DEF Added, Hang, Node
  <2> QED
    BY <2>2, <2>3
<1>8. ExactReads'
  BY <1>1, <1>2, <1>5, <1>7 DEF ExactReads, CpuPcs
<1>9. ExactNodes'
  BY <1>1, <1>7 DEF Exact, ExactNodes
<1>10. ExactMasks'
  <2>1. \A j, k \in 1 .. Len(cache_domains') :
            cache_domains'[j].mask = cache_domains'[k].mask => j = k
    BY <1>2, ExactLists DEF ExactMasks
  <2>2. \A p, q \in 1 .. Len(packages') : packages'[p].mask = packages'[q].mask => p = q
    BY <1>2, ExactLists DEF ExactMasks
  <2>3. ASSUME NEW c \in DOMAIN cpus'
        PROVE  /\ cache_domains'[cpus'[c]].mask = CacheMask(c)
               /\ packages'[cache_domains'[cpus'[c]].parent].mask = WholeMask(c)
    <3>1. CASE c = cpu
      BY <1>1, <1>2, <1>3, <3>1, ExactLists, ExactAdd
    <3>2. CASE c # cpu
      <4>1. c \in DOMAIN cpus /\ cpus'[c] = cpus[c] /\ cpus[c] \in 1 .. Len(cache_domains)
            /\ cache_domains[cpus[c]].mask = CacheMask(c)
            /\ packages[cache_domains[cpus[c]].parent].mask = WholeMask(c)
        BY <1>2, <1>3, <3>2 DEF Linked, WaysUp, ExactMasks
      <4>2. cache_domains'[cpus[c]].mask = cache_domains[cpus[c]].mask
            /\ cache_domains'[cpus[c]].parent = cache_domains[cpus[c]].parent
        BY <1>1, <1>2, <4>1, ExactLists, ExactParent
      <4> DEFINE p == cache_domains[cpus[c]].parent
      <4>3. p \in 1 .. Len(packages)
        <5>1. Len(packages) \in Nat
          BY DEF TreeType, TreeTypes
        <5> QED
          BY <4>1, <5>1 DEF Linked, WaysUp
      <4>4. packages'[p].mask = packages[p].mask
        BY <1>2, <4>3, ExactLists
      <4> QED
        BY <4>1, <4>2, <4>4
    <3> QED
      BY <3>1, <3>2
  <2> QED
    BY <1>6, <2>1, <2>2, <2>3 DEF ExactMasks
<1>11. ExactLinks'
  <2>1. ASSUME NEW k \in 1 .. Len(cache_domains'), NEW c \in cache_domains'[k].children
        PROVE  cpus'[c] = k
    <3>1. CASE k # CK
      <4>1. k \in 1 .. Len(cache_domains) /\ c \in cache_domains[k].children
        BY <1>2, <2>1, <3>1, ExactLists
      <4>2. c \in DOMAIN cpus /\ cpus[c] = k
        BY <1>2, <4>1 DEF ExactLinks, Linked
      <4>3. c # cpu
        <5>1. ASSUME c = cpu PROVE FALSE
          <6>1. cache_domains[k].mask = CMask
            BY <1>1, <1>2, <4>2, <5>1, ExactAdd DEF ExactMasks
          <6> QED
            BY <1>2, <3>1, <4>1, <6>1, ExactLists
        <5> QED
          BY <5>1
      <4> QED
        BY <1>3, <4>2, <4>3
    <3>2. CASE k = CK
      <4>1. c = cpu \/ (CK \in 1 .. Len(cache_domains) /\ c \in cache_domains[CK].children)
        BY <1>2, <2>1, <3>2, ExactLists
      <4>2. c = cpu \/ (c \in DOMAIN cpus /\ cpus[c] = CK)
        BY <1>2, <4>1 DEF ExactLinks, Linked
      <4> QED
        BY <1>3, <3>2, <4>2
    <3> QED
      BY <3>1, <3>2
  <2>2. ASSUME NEW k \in 1 .. Len(cache_domains')
        PROVE  cache_domains'[k].numa_nodes
                   \subseteq packages'[cache_domains'[k].parent].numa_nodes
    <3>0. Len(packages) \in Nat
      BY DEF TreeType, TreeTypes
    <3>1. \A j \in 1 .. Len(cache_domains) :
             /\ cache_domains[j].parent \in 1 .. Len(packages)
             /\ cache_domains[j].numa_nodes \subseteq packages[cache_domains[j].parent].numa_nodes
      BY <1>2, <3>0 DEF Linked, WaysUp, ExactLinks
    <3>2. \A p \in 1 .. Len(packages) : packages[p].numa_nodes \subseteq packages'[p].numa_nodes
      BY <1>2, ExactLists
    <3>3. CASE k # CK
      <4>1. k \in 1 .. Len(cache_domains) /\ cache_domains'[k] = cache_domains[k]
        BY <1>2, <3>3, ExactLists
      <4> QED
        BY <3>1, <3>2, <4>1
    <3>4. CASE k = CK
      <4>1. CASE CK \in 1 .. Len(cache_domains)
        <5>1. cache_domains[CK].numa_nodes \subseteq packages[PK].numa_nodes
              /\ PK \in 1 .. Len(packages)
          BY <1>1, <1>2, <3>1, <4>1, ExactParent
        <5> QED
          BY <1>2, <3>2, <3>4, <4>1, <5>1, ExactLists
      <4>2. CASE CK \notin 1 .. Len(cache_domains)
        BY <1>2, <3>4, <4>2, ExactLists
      <4> QED
        BY <4>1, <4>2
    <3> QED
      BY <3>3, <3>4
  <2>3. ASSUME NEW p \in 1 .. Len(packages')
        PROVE  /\ packages'[p].children # {}
               /\ \A k \in packages'[p].children : cache_domains'[k].parent = p
    <3>1. \A j \in 1 .. Len(packages) :
            \A k \in packages[j].children : k \in 1 .. Len(cache_domains)
               /\ cache_domains'[k].parent = j
      <4>1. ASSUME NEW j \in 1 .. Len(packages), NEW k \in packages[j].children
            PROVE  k \in 1 .. Len(cache_domains) /\ cache_domains'[k].parent = j
        <5>1. k \in 1 .. Len(cache_domains) /\ cache_domains[k].parent = j
          BY <1>2, <4>1 DEF Linked, ExactLinks
        <5>2. CASE k = CK
          BY <1>1, <1>2, <5>1, <5>2, ExactLists, ExactParent
        <5>3. CASE k # CK
          BY <1>2, <5>1, <5>3, ExactLists
        <5> QED
          BY <5>1, <5>2, <5>3
      <4> QED
        BY <4>1
    <3>2. CASE p # PK
      <4>1. p \in 1 .. Len(packages) /\ packages'[p] = packages[p]
        BY <1>2, <3>2, ExactLists
      <4> QED
        BY <1>2, <3>1, <4>1 DEF ExactLinks
    <3>3. CASE p = PK
      BY <1>2, <3>1, <3>3, ExactLists
    <3> QED
      BY <3>2, <3>3
  <2> QED
    BY <2>1, <2>2, <2>3 DEF ExactLinks
<1> QED
  BY <1>4, <1>8, <1>9, <1>10, <1>11 DEF Exact

\* The other steps of the build, which leave the lists alone.
LEMMA ExactNext ==
    ASSUME TreeType, Linked, AllListed, WaysUp, Exact, pc \in BuildPcs, pc' \in BuildPcs,
           ~need_rebuild', ~disturbed', TreeStep
    PROVE  Exact'
<1> USE DEF kernelVars, treeVars, localVars, BuildPcs, CpuPcs
<1>1. CASE AddCpu
  <2>1. Added
    BY <1>1, AddCpuSplit DEF NotAdded, NoMemory
  <2> QED
    BY <1>1, <2>1, ExactAddCpu
<1>2. CASE Hotplug \/ StartBuild \/ Connect
  BY <1>2 DEF Hotplug, StartBuild, Connect
<1>3. CASE add_one_node \/ StartCpus \/ Visit \/ ReadPackage \/ ReadCache
  <2>1. UNCHANGED <<machine, online, packages, cache_domains, cpus>>
        /\ banned_cpus' = banned_cpus /\ numa_avail' = numa_avail /\ CpuIds' = CpuIds
    BY <1>3, SameMachine DEF add_one_node, StartCpus, Visit, ReadPackage, ReadCache
  <2>2. \A n : NodeMask(n)' = NodeMask(n)
    BY <2>1 DEF NodeMask
  <2>3. \A part, c : Siblings(part, c)' = Siblings(part, c)
    BY <2>1 DEF Siblings
  <2>4. \A c : CacheMask(c)' = CacheMask(c) /\ WholeMask(c)' = WholeMask(c)
    BY <2>1, <2>2 DEF CacheMask, WholeMask, Siblings, unbanned_cpus
  <2>5. ExactMasks' /\ ExactLinks'
    BY <2>1, <2>4 DEF Exact, ExactMasks, ExactLinks
  <2>6. CASE add_one_node
    <3> DEFINE n == CHOOSE m \in todo : \A k \in todo : m <= k
    <3>1. /\ todo' = todo \ {n} /\ pc = "nodes" /\ pc' = "nodes" /\ todo # {} /\ cpu' = cpu
          /\ numa_nodes' = With(numa_nodes, n, [mask |-> NodeMask(n), children |-> {}])
      BY <2>6 DEF add_one_node, NoMemory
    <3>t. n \in todo
      <4>1. todo \subseteq Int /\ todo # {} /\ -1 \in Int /\ \A x \in todo : -1 <= x
        BY <3>1, NodeFacts DEF TreeType, LocalTypes
      <4>2. PICK m \in todo : \A k \in todo : m <= k
        BY <4>1, LeastNumber
      <4> QED
        BY <4>2, Zenon
    <3> HIDE DEF n
    <3>2. /\ DOMAIN numa_nodes' = DOMAIN numa_nodes \cup {n}
          /\ \A m \in DOMAIN numa_nodes' :
                numa_nodes'[m] = IF m = n THEN [mask |-> NodeMask(n), children |-> {}]
                                 ELSE numa_nodes[m]
      BY <3>1 DEF With
    <3>3. ExactReads'
      BY <2>2, <3>1, <3>2 DEF Exact, ExactReads
    <3>4. ExactCpus'
      BY <2>1, <3>1 DEF Exact, ExactCpus
    <3>5. ExactNodes'
      BY <2>1, <3>1, <3>t, <3>2 DEF Exact, ExactNodes
    <3> QED
      BY <2>5, <3>3, <3>4, <3>5 DEF Exact
  <2>7. CASE StartCpus
    <3>1. ExactCpus'
      BY <2>1, <2>7 DEF StartCpus, TreeType, Exact, ExactCpus
    <3>2. ExactReads' /\ ExactNodes'
      BY <2>1, <2>2, <2>7 DEF StartCpus, Exact, ExactReads, ExactNodes
    <3> QED
      BY <2>5, <3>1, <3>2 DEF Exact
  <2>8. CASE Visit
    <3>1. ExactCpus'
      <4>1. PICK c \in todo :
              /\ todo' = todo \ {c} /\ cpu' = c
              /\ \/ c \notin online /\ UNCHANGED pc
                 \/ c \in online /\ pc' = IF c \in banned_cpus THEN "visit" ELSE "package"
        BY <2>8 DEF Visit, NoMemory
      <4>2. pc = "visit" /\ DOMAIN cpus = (online \ banned_cpus) \ todo
        BY <2>8 DEF Visit, Exact, ExactCpus
      <4> QED
        BY <2>1, <4>1, <4>2 DEF ExactCpus
    <3>2. /\ pc' \in {"visit", "package"} /\ (pc' = "package" => cpu' \in online)
          /\ UNCHANGED numa_nodes
      BY <2>8 DEF Visit
    <3>3. ExactReads' /\ ExactNodes'
      BY <2>1, <2>2, <3>2 DEF Exact, ExactReads, ExactNodes
    <3> QED
      BY <2>5, <3>1, <3>3 DEF Exact
  <2>9. CASE ReadPackage \/ ReadCache
    <3>1. /\ UNCHANGED <<numa_nodes, cpu, todo>> /\ cpu \in online
          /\ \/ pc = "package" /\ pc' = "cache"
                /\ package_mask' = Siblings(machine.package, cpu)
             \/ pc = "cache" /\ pc' = "add" /\ package_mask' = package_mask
                /\ cache_mask' = Siblings(machine.cache, cpu)
      BY <2>9 DEF ReadPackage, ReadCache, Exact, ExactReads
    <3>2. ExactCpus' /\ ExactNodes'
      BY <2>1, <3>1 DEF Exact, ExactCpus, ExactNodes
    <3>3. ExactReads'
      BY <2>1, <2>2, <2>3, <3>1 DEF Exact, ExactReads
    <3> QED
      BY <2>5, <3>2, <3>3 DEF Exact
  <2> QED
    BY <1>3, <2>6, <2>7, <2>8, <2>9
<1> QED
  BY <1>1, <1>2, <1>3 DEF TreeStep, BuildTree

\* A build begins with empty lists.
LEMMA ExactStart ==
    ASSUME TreeType, StartBuild
    PROVE  Exact'
<1> USE DEF kernelVars, treeVars, localVars
<1>1. /\ pc' = "nodes" /\ packages' = <<>> /\ cache_domains' = <<>> /\ cpus' = <<>>
      /\ numa_nodes' = <<>> /\ numa_avail' = numa_avail
      /\ todo' = {NUMA_NO_NODE} \cup IF numa_avail THEN Range(machine.node) ELSE {}
  BY SameMachine DEF StartBuild
<1>2. /\ Len(packages') = 0 /\ Len(cache_domains') = 0
      /\ DOMAIN cpus' = {} /\ DOMAIN numa_nodes' = {}
  BY <1>1
<1> QED
  BY <1>1, <1>2 DEF Exact, ExactReads, ExactCpus, ExactMasks, ExactLinks, ExactNodes, CpuPcs

\* The last step makes the tree the machine.
LEMMA ConnectExact ==
    ASSUME TreeType, Linked, Masked, AllListed, WaysUp, Counted, Exact, Connect,
           ~need_rebuild
    PROVE  TreeRight'
<1> USE DEF kernelVars, localVars
<1>1. /\ pc = "visit" /\ todo = {} /\ UNCHANGED <<machine, online, cache_domains, cpus>>
      /\ machine \in Machines /\ online \subseteq CpuIds
      /\ CpuIds' = CpuIds /\ banned_cpus' = banned_cpus /\ numa_avail' = numa_avail
      /\ Len(packages) \in Nat
  BY SameMachine DEF Connect, TreeType, TreeTypes
<1>2. DOMAIN cpus = online \ banned_cpus
  BY <1>1 DEF Exact, ExactCpus, CpuPcs
<1>3. /\ Len(packages') = Len(packages)
      /\ \A p \in 1 .. Len(packages) :
            /\ packages'[p].mask = packages[p].mask
            /\ packages'[p].children = packages[p].children
            /\ packages'[p].numa_nodes = packages[p].numa_nodes
  BY ConnectFacts
<1>4. ASSUME NEW c \in DOMAIN cpus
      PROVE  /\ cpus[c] \in 1 .. Len(cache_domains) /\ c \in cache_domains[cpus[c]].children
             /\ cache_domains[cpus[c]].mask = CacheMask(c)
             /\ packages[cache_domains[cpus[c]].parent].mask = WholeMask(c)
             /\ \A k \in 1 .. Len(cache_domains) :
                   c \in cache_domains[k].children => cpus[c] = k
  BY DEF Linked, WaysUp, Exact, ExactMasks, ExactLinks
<1>5. ASSUME NEW k \in 1 .. Len(cache_domains)
      PROVE  /\ cache_domains[k].parent \in 1 .. Len(packages)
             /\ k \in packages[cache_domains[k].parent].children
             /\ \A p \in 1 .. Len(packages) :
                   k \in packages[p].children => cache_domains[k].parent = p
  BY <1>1 DEF Linked, WaysUp, Exact, ExactLinks
<1>6. \A c \in DOMAIN cpus : { k \in 1 .. Len(cache_domains) : CacheHolds(k, c) } = {cpus[c]}
  BY <1>4 DEF CacheHolds
<1>7. ASSUME NEW k \in 1 .. Len(cache_domains)
      PROVE  cache_domains[k].mask = cache_domains[k].children
  <2>1. PICK c \in cache_domains[k].children : TRUE
    BY DEF WaysUp
  <2>2. c \in DOMAIN cpus /\ cpus[c] = k /\ cache_domains[k].mask = CacheMask(c)
    BY <1>4, <2>1 DEF Linked
  <2>3. ASSUME NEW d \in cache_domains[k].mask
        PROVE  d \in cache_domains[k].children
    <3>1. d \in DOMAIN cpus /\ CacheMask(d) = CacheMask(c)
      BY <1>1, <1>2, <2>2, CpuMasks
    <3>2. cpus[d] = k
      BY <1>4, <2>2, <3>1 DEF Exact, ExactMasks
    <3> QED
      BY <1>4, <3>1, <3>2
  <2> QED
    BY <2>3 DEF Masked
<1>8. \A k \in 1 .. Len(cache_domains) :
         { p \in 1 .. Len(packages) : k \in packages[p].children } = {cache_domains[k].parent}
  BY <1>5
<1>9. ASSUME Nested, NEW p \in 1 .. Len(packages)
      PROVE  packages[p].mask = UNION { cache_domains[k].mask : k \in packages[p].children }
  <2>1. PICK k \in packages[p].children : TRUE
    BY DEF Exact, ExactLinks
  <2>2. k \in 1 .. Len(cache_domains) /\ cache_domains[k].parent = p
    BY <2>1 DEF Linked, Exact, ExactLinks
  <2>3. PICK c \in cache_domains[k].children : TRUE
    BY <2>2 DEF WaysUp
  <2>4. c \in DOMAIN cpus /\ packages[p].mask = WholeMask(c)
    BY <1>4, <2>2, <2>3 DEF Linked
  <2>5. ASSUME NEW d \in packages[p].mask
        PROVE  \E j \in packages[p].children : d \in cache_domains[j].mask
    <3>1. d \in DOMAIN cpus
      BY <1>1, <1>2, <2>4, CpuMasks
    <3>2. WholeMask(d) = WholeMask(c)
      <4>1. \A e \in online \ banned_cpus :
               WholeMask(e) = { x \in online \ banned_cpus :
                                  /\ machine.package[x] = machine.package[e]
                                  /\ numa_avail => machine.node[x] = machine.node[e] }
        BY <1>1, <1>9, NestedMask
      <4>2. machine.package[d] = machine.package[c]
            /\ (numa_avail => machine.node[d] = machine.node[c])
        BY <1>2, <2>4, <4>1
      <4>3. \A x : x \in WholeMask(d) <=> x \in WholeMask(c)
        BY <1>2, <2>4, <3>1, <4>1, <4>2
      <4> QED
        BY <4>3
    <3>3. cache_domains[cpus[d]].parent = p
      <4>1. cpus[d] \in 1 .. Len(cache_domains)
            /\ packages[cache_domains[cpus[d]].parent].mask = packages[p].mask
        BY <1>4, <2>4, <3>1, <3>2
      <4>2. cache_domains[cpus[d]].parent \in 1 .. Len(packages)
        BY <1>5, <4>1
      <4> QED
        BY <4>1, <4>2 DEF Exact, ExactMasks
    <3>4. cpus[d] \in packages[p].children
      BY <1>4, <1>5, <3>1, <3>3
    <3>5. d \in cache_domains[cpus[d]].mask
      BY <1>4, <1>7, <3>1
    <3> QED
      BY <3>4, <3>5
  <2>6. ASSUME NEW j \in packages[p].children, NEW d \in cache_domains[j].mask
        PROVE  d \in packages[p].mask
    <3>1. j \in 1 .. Len(cache_domains) /\ cache_domains[j].parent = p
      BY DEF Linked, Exact, ExactLinks
    <3>2. d \in cache_domains[j].children
      BY <1>7, <3>1
    <3>3. d \in DOMAIN cpus /\ cpus[d] = j
      BY <1>4, <3>1, <3>2 DEF Linked
    <3>4. packages[p].mask = WholeMask(d)
      BY <1>4, <3>1, <3>3
    <3> QED
      BY <1>1, <1>2, <3>3, <3>4, CpuMasks
  <2> QED
    BY <2>5, <2>6
<1>10. Nested' <=> Nested
  BY <1>1 DEF Nested
<1>11. DOMAIN numa_nodes' = DOMAIN numa_nodes
       /\ DOMAIN cpus = UNION { CpusBelow(n)' : n \in DOMAIN numa_nodes' }
  <2>1. FailureNoticed' /\ TreeBuilt' /\ UNCHANGED need_rebuild
    BY <1>1, ConnectComplete DEF Connect, TreeBuilt
  <2> QED
    BY <1>1, <2>1 DEF FailureNoticed, Connect
<1>12. ASSUME numa_avail, NEW n \in DOMAIN numa_nodes, NEW c \in CpusBelow(n)'
       PROVE  c \in DOMAIN cpus /\ n = machine.node[c]
  <2>1. numa_nodes'[n].children = Connected(n)
    <3>1. numa_nodes[n] \in Node /\ numa_nodes[n].children = {}
      BY <1>12 DEF TreeType, TreeTypes, Exact, ExactNodes
    <3> QED
      BY <3>1 DEF Connect, Node
  <2>2. PICK k \in CachesBelow(n)' : c \in cache_domains[k].children
    BY <1>1, <1>12 DEF CpusBelow
  <2>3. \/ \E p \in 1 .. Len(packages) :
              <<"package", p>> \in Connected(n) /\ k \in packages[p].children
        \/ k \in 1 .. Len(cache_domains) /\ <<"cache", k>> \in Connected(n)
    <3>1. \/ \E p \in 1 .. Len(packages') :
                <<"package", p>> \in numa_nodes'[n].children /\ k \in packages'[p].children
          \/ k \in 1 .. Len(cache_domains') /\ <<"cache", k>> \in numa_nodes'[n].children
      BY <2>2, Zenon DEF CachesBelow
    <3> QED
      BY <1>1, <1>3, <2>1, <3>1
  <2>4. ASSUME NEW p \in 1 .. Len(packages), <<"package", p>> \in Connected(n),
               k \in packages[p].children
        PROVE  k \in 1 .. Len(cache_domains) /\ n \in cache_domains[k].numa_nodes
    <3>1. packages[p].numa_nodes = {n}
      BY <2>4 DEF Connected
    <3>2. k \in 1 .. Len(cache_domains) /\ cache_domains[k].parent = p
          /\ cache_domains[k].numa_nodes \subseteq {n}
      BY <2>4, <3>1 DEF Linked, Exact, ExactLinks
    <3>3. cache_domains[k].numa_nodes = {NodeOfCpu(c)}
      BY <2>2, <3>2 DEF WaysUp
    <3> QED
      BY <3>2, <3>3
  <2>5. ASSUME k \in 1 .. Len(cache_domains), <<"cache", k>> \in Connected(n)
        PROVE  n \in cache_domains[k].numa_nodes
    BY <2>5 DEF Connected
  <2>6. k \in 1 .. Len(cache_domains) /\ n \in cache_domains[k].numa_nodes
    BY <2>3, <2>4, <2>5
  <2>7. cache_domains[k].numa_nodes = {NodeOfCpu(c)} /\ c \in DOMAIN cpus
    BY <2>2, <2>6 DEF WaysUp, Linked
  <2> QED
    BY <1>12, <2>6, <2>7 DEF NodeOfCpu
<1>13. ASSUME NEW n \in DOMAIN numa_nodes'
       PROVE  CpusBelow(n)' = { c \in DOMAIN cpus :
                                  n = IF numa_avail THEN machine.node[c] ELSE NUMA_NO_NODE }
  <2>1. CASE numa_avail
    <3>1. ASSUME NEW c \in DOMAIN cpus, n = machine.node[c]
          PROVE  c \in CpusBelow(n)'
      <4>1. PICK m \in DOMAIN numa_nodes' : c \in CpusBelow(m)'
        BY <1>11, Zenon
      <4>2. m = machine.node[c]
        BY <1>11, <1>12, <2>1, <4>1
      <4> QED
        BY <3>1, <4>1, <4>2
    <3>2. \A c \in CpusBelow(n)' : c \in DOMAIN cpus /\ n = machine.node[c]
      BY <1>11, <1>12, <2>1
    <3> QED
      BY <2>1, <3>1, <3>2
  <2>2. CASE ~numa_avail
    <3>1. DOMAIN numa_nodes' = {NUMA_NO_NODE} /\ n = NUMA_NO_NODE
      BY <1>11, <2>2 DEF Exact, ExactNodes
    <3>2. CpusBelow(n)' = DOMAIN cpus
      <4>1. \A c \in CpusBelow(n)' : c \in DOMAIN cpus
        BY <1>11, Zenon
      <4>2. ASSUME NEW c \in DOMAIN cpus PROVE c \in CpusBelow(n)'
        <5>1. PICK m \in DOMAIN numa_nodes' : c \in CpusBelow(m)'
          BY <1>11, Zenon
        <5> QED
          BY <3>1, <5>1
      <4> QED
        BY <4>1, <4>2
    <3> QED
      BY <2>2, <3>1, <3>2
  <2> QED
    BY <2>1, <2>2
<1>14. \A k, c : CacheHolds(k, c)' <=> CacheHolds(k, c)
  BY <1>1 DEF CacheHolds
<1>15. Nested' => \A p \in 1 .. Len(packages') :
         packages'[p].mask = UNION { cache_domains'[k].mask : k \in packages'[p].children }
  BY <1>1, <1>3, <1>9, <1>10
<1>16. \A k \in 1 .. Len(cache_domains') :
          /\ cache_domains'[k].mask = cache_domains'[k].children
          /\ { p \in 1 .. Len(packages') : k \in packages'[p].children }
                = {cache_domains'[k].parent}
  <2>1. ASSUME NEW k \in 1 .. Len(cache_domains)
        PROVE  { p \in 1 .. Len(packages') : k \in packages'[p].children }
                  = { p \in 1 .. Len(packages) : k \in packages[p].children }
    BY <1>3
  <2> QED
    BY <1>1, <1>7, <1>8, <2>1
<1>17. DOMAIN cpus' = online' \ banned_cpus'
  BY <1>1, <1>2
<1>18. \A c \in DOMAIN cpus' :
          { k \in 1 .. Len(cache_domains') : CacheHolds(k, c)' } = {cpus'[c]}
  BY <1>1, <1>6, <1>14
<1>19. \A n \in DOMAIN numa_nodes' :
          CpusBelow(n)' = { c \in DOMAIN cpus' :
                              n = IF numa_avail' THEN machine'.node[c] ELSE NUMA_NO_NODE }
  BY <1>1, <1>13
<1> QED
  BY <1>15, <1>16, <1>17, <1>18, <1>19 DEF TreeRight

\* A step of the build keeps the tree exact, or disturbs it, or finds no memory.
LEMMA ExactInvNext ==
    ASSUME TreeInv, ExactInv, TreeStep
    PROVE  ExactInv'
<1> USE DEF kernelVars, treeVars, localVars
<1> SUFFICES ASSUME ~disturbed', ~need_rebuild'
             PROVE  (pc' \in BuildPcs => Exact') /\ TreeRight'
  BY DEF ExactInv
<1>1. TreeType /\ Linked /\ Masked /\ FailInv
  BY DEF TreeInv, MaskInv
<1>2. CASE StartBuild
  BY <1>1, <1>2, ExactStart DEF StartBuild, TreeRight, TreeBuilt
<1>3. CASE ~StartBuild
  <2>1. /\ ~disturbed /\ ~need_rebuild /\ pc \in BuildPcs
        /\ IF Connect THEN pc' = "collect" ELSE pc' \in BuildPcs
    BY <1>3 DEF TreeStep, BuildTree, Hotplug, add_one_node, StartCpus, Visit, ReadPackage,
       ReadCache, AddCpu, Connect, Added, NoMemory, BuildPcs, CpuPcs
  <2>2. AllListed /\ WaysUp /\ Counted /\ Exact
    BY <1>1, <2>1 DEF FailInv, ExactInv, BuildPcs, CpuPcs
  <2>3. CASE Connect
    BY <1>1, <2>1, <2>2, <2>3, ConnectExact DEF BuildPcs, CpuPcs
  <2>4. CASE ~Connect
    <3>1. Exact' /\ pc' \in BuildPcs
      BY <1>1, <2>1, <2>2, <2>4, ExactNext
    <3> QED
      BY <3>1 DEF TreeRight, TreeBuilt, BuildPcs, CpuPcs
  <2> QED
    BY <2>3, <2>4
<1> QED
  BY <1>2, <1>3

\* A tree that is built and left alone stays right, and exact.
LEMMA RightStays ==
    ASSUME TreeRight, UNCHANGED <<kernelVars, treeVars>>,
           TreeBuilt => TreeBuilt', TreeBuilt' => TreeBuilt,
           UNCHANGED <<need_rebuild, disturbed>>
    PROVE  TreeRight'
<1> USE DEF kernelVars, treeVars
<1> SUFFICES ASSUME ~disturbed, ~need_rebuild, TreeBuilt
             PROVE  TreeRight'
  BY DEF TreeRight
<1>2. \A n : CpusBelow(n)' = CpusBelow(n)
  BY DEF CpusBelow, CachesBelow
<1>3. \A k, c : CacheHolds(k, c)' <=> CacheHolds(k, c)
  BY DEF CacheHolds
<1>4. CpuIds' = CpuIds /\ banned_cpus' = banned_cpus /\ numa_avail' = numa_avail
      /\ (Nested' <=> Nested)
  BY SameMachine DEF Nested, CpuIds
<1> QED
  BY <1>2, <1>3, <1>4 DEF TreeRight

\* The same for the invariant.
LEMMA ExactStays ==
    ASSUME ExactInv, pc \notin BuildPcs \cup {"free"}, pc' \notin BuildPcs,
           UNCHANGED <<kernelVars, need_rebuild, treeVars, disturbed>>
    PROVE  ExactInv'
<1> SUFFICES ASSUME ~disturbed, ~need_rebuild, TreeBuilt'
             PROVE  TreeRight'
  BY DEF ExactInv, TreeRight
<1>1. TreeRight /\ TreeBuilt
  BY DEF ExactInv, TreeBuilt, BuildPcs, CpuPcs
<1> QED
  BY <1>1, RightStays

-----------------------------------------------------------------------------
(* The database: the invariant                                             *)

DevicePlaces == 1 .. Len(machine.devices)

DbType ==
    /\ devices \subseteq DevicePlaces
    /\ active \subseteq AllIrqs /\ tmp_irqs \subseteq AllIrqs
    /\ pc = "devices" => \A next \in queue : \E d \in DevicePlaces, i \in AllIrqs :
                            next = <<d, i>> /\ i \in DeviceIrqs(d)
    /\ pc = "parse" => queue \subseteq AllIrqs
    /\ interrupts_db \in Seq(Infos)

\* While the tree is built the database is empty: what an entry says of nodes is said
\* of the nodes that are listed now.
Emptied == pc \in BuildPcs \cup {"collect"} => interrupts_db = <<>> /\ banned_irqs = {}

\* The entry that device d, or the line, makes of an irq.
Entry(d, irq) == add_one_irq_to_db(d, irq, get_irq_user_policy(irq))

\* Every entry was made by some device that has the irq, or from its line, and nobody
\* had banned the irq there.
Described ==
    \A info \in Infos : \E d \in {0} \cup DevicePlaces :
        /\ info.irq \in AllIrqs /\ (d # 0 => info.irq \in DeviceIrqs(d))
        /\ info = Entry(d, info.irq) /\ ~Banned(d, info.irq)

\* The unspecified node is listed, or will be, or there is going to be a rebuild.
Rooted ==
    \/ need_rebuild \/ NUMA_NO_NODE \in DOMAIN numa_nodes
    \/ pc = "nodes" /\ NUMA_NO_NODE \in todo

\* A rebuild that failed is never balanced on.
NodeInv ==
    /\ pc = "free" => try_times = 0 \/ need_rebuild
    /\ pc = "idle" => try_times = 0 /\ (Infos = {} \/ ~need_rebuild)
    /\ pc \in {"parse", "parsed"} => try_times = 0 \/ ~need_rebuild
    /\ pc # "free" => Rooted

\* The flags of a read are about that read, and what is flagged is known.
FlagInv ==
    /\ pc \notin {"free", "parse"} /\ ~need_rescan => existing = {}
    /\ pc = "parse" /\ ~need_rescan =>
          /\ existing \subseteq Numbers \cup banned_irqs
          /\ (existing \cup queue) \ unsure = active \ unsure
    /\ pc = "parsed" /\ ~need_rescan => (Numbers \cup banned_irqs) \ unsure = active \ unsure
    /\ pc = "idle" /\ ~need_rescan /\ ~need_rebuild =>
          (Numbers \cup banned_irqs) \ unsure = active \ unsure

\* The irq is known as the first device that has it, or else its line, describes it.
AsProvided(irq) ==
    IF Banned(Provider(irq), irq) THEN irq \in banned_irqs
    ELSE Entry(Provider(irq), irq) \in Infos

\* In the order of the directory no device is passed over: an irq that is not known yet
\* is still to be read from every device that has it, until devices are done with.
SourceInv ==
    /\ \A irq \in (Numbers \cup banned_irqs) \ (stale \cup faults) : AsProvided(irq)
    /\ pc = "devices" =>
          \A d \in devices : \A irq \in DeviceIrqs(d) \ (stale \cup faults) :
              Known(irq) \/ <<d, irq>> \in queue
    /\ pc = "missing" =>
          \A d \in devices : \A irq \in DeviceIrqs(d) \ (stale \cup faults) : Known(irq)

DbInv == DbType /\ KnownOnce /\ Emptied /\ Described /\ NodeInv /\ FlagInv /\ SourceInv

RebuildInv == TreeInv /\ ExactInv /\ DbInv

-----------------------------------------------------------------------------
(* Facts about entries, scripts and the lists                              *)

\* What is assumed of the devices and scripts of a machine.
LEMMA DeviceFacts ==
    ASSUME machine \in Machines
    PROVE  /\ AllIrqs \subseteq Nat
           /\ Len(machine.devices) \in Nat /\ IsFiniteSet(DevicePlaces)
           /\ DevicePlaces \subseteq Nat /\ 0 \notin DevicePlaces
           /\ Len(Scripts) \in Nat
           /\ \A d \in DevicePlaces : Range(machine.devices[d].irqs) \subseteq AllIrqs
           /\ \A d : DeviceIrqs(d) \subseteq Range(machine.devices[d].irqs)
<1>1. /\ machine.devices \in Seq(Range(machine.devices))
      /\ Scripts \in Seq(Range(Scripts))
      /\ AllIrqs \subseteq Nat
      /\ \A d \in Range(machine.devices) : Range(d.irqs) \subseteq AllIrqs
  BY DeviceAssumption DEF AllIrqs, Scripts
<1>2. Len(machine.devices) \in Nat /\ Len(Scripts) \in Nat
      /\ \A d \in DevicePlaces : machine.devices[d] \in Range(machine.devices)
  BY <1>1 DEF DevicePlaces, Range
<1>3. IsFiniteSet(DevicePlaces)
  BY <1>2, FS_Interval DEF DevicePlaces
<1>4. \A d : DeviceIrqs(d) \subseteq Range(machine.devices[d].irqs)
  BY DEF DeviceIrqs
<1>5. DevicePlaces \subseteq Nat /\ 0 \notin DevicePlaces
  BY DEF DevicePlaces
<1> QED
  BY <1>1, <1>2, <1>3, <1>4, <1>5

\* The first of a set of numbers is one of them, and none is less.
LEMMA FirstFacts ==
    ASSUME NEW S, S \subseteq Nat, S # {}
    PROVE  First(S) \in S /\ \A k \in S : First(S) <= k
<1>1. \E m \in S : \A k \in S : m <= k
  <2>1. S \subseteq Int /\ 0 \in Int /\ \A x \in S : 0 <= x
    OBVIOUS
  <2> QED
    BY <2>1, LeastNumber
<1> QED
  BY <1>1, Zenon DEF First

\* What an entry says depends on the machine and on the listed nodes only.
LEMMA SameEntry ==
    ASSUME UNCHANGED <<machine, numa_nodes>>, NEW d, NEW irq
    PROVE  Entry(d, irq)' = Entry(d, irq)
<1>1. \A lines : Policy(lines)' = Policy(lines)
  BY DEF Policy, Says, Meant, Listed, NodeNumber, numa_avail
<1>2. get_irq_user_policy(irq)' = get_irq_user_policy(irq)
  BY <1>1 DEF get_irq_user_policy, LastRun, Accepting, Runnable, Scripts
<1>3. \A n : NodeFor(n)' = NodeFor(n)
  BY DEF NodeFor, Listed, NodeNumber, numa_avail
<1>4. Hint(d, irq)' = Hint(d, irq)
  BY DEF Hint
<1> QED
  BY <1>2, <1>3, <1>4 DEF Entry, add_one_irq_to_db

\* A script bans an irq whatever the nodes are.
LEMMA SameBan ==
    ASSUME UNCHANGED machine, NEW d, NEW irq
    PROVE  Banned(d, irq)' = Banned(d, irq)
<1>1. \A lines : Says(lines, "ban")' = Says(lines, "ban")
  BY DEF Says, Meant
<1>2. \A lines : (Policy(lines).ban)' = Policy(lines).ban
  BY <1>1 DEF Policy
<1>3. Accepting(irq)' = Accepting(irq) /\ LastRun(irq)' = LastRun(irq) /\ Scripts' = Scripts
  BY DEF LastRun, Accepting, Runnable, Scripts
<1>4. (get_irq_user_policy(irq).ban)' = get_irq_user_policy(irq).ban
  <2>1. CASE LastRun(irq) = 0 \/ (~machine.policy.is_dir /\ Accepting(irq) = {})
    <3>1. get_irq_user_policy(irq)' = Policy(<<>>)' /\ get_irq_user_policy(irq) = Policy(<<>>)
      BY <1>3, <2>1 DEF get_irq_user_policy
    <3> QED
      BY <1>2, <3>1
  <2>2. CASE ~(LastRun(irq) = 0 \/ (~machine.policy.is_dir /\ Accepting(irq) = {}))
    <3>1. PICK lines : lines = Scripts[LastRun(irq)].says[irq].lines
      OBVIOUS
    <3>2. get_irq_user_policy(irq)' = Policy(lines)' /\ get_irq_user_policy(irq) = Policy(lines)
      BY <1>3, <2>2, <3>1 DEF get_irq_user_policy
    <3> QED
      BY <1>2, <3>2
  <2> QED
    BY <2>1, <2>2
<1> QED
  BY <1>4 DEF Banned, check_for_irq_ban

\* The entries that device directories make.
LEMMA SamePlaces ==
    ASSUME UNCHANGED machine
    PROVE  /\ DevicePlaces' = DevicePlaces /\ AllIrqs' = AllIrqs
           /\ \A d : DeviceIrqs(d)' = DeviceIrqs(d)
  BY DEF DevicePlaces, AllIrqs, DeviceIrqs

\* An entry is about the irq it was made for.
LEMMA EntryIrq ==
    ASSUME NEW d, NEW irq
    PROVE  Entry(d, irq).irq = irq
  BY DEF Entry, add_one_irq_to_db

\* An irq that is not known is added, as an entry or as one that is banned.
Entered(d, irq) ==
    /\ ~Known(irq)
    /\ \/ /\ Banned(d, irq)
          /\ Infos' = Infos /\ banned_irqs' = banned_irqs \cup {irq}
       \/ /\ ~Banned(d, irq)
          /\ Infos' = Infos \cup {Entry(d, irq)} /\ banned_irqs' = banned_irqs

SameDb == Infos' = Infos /\ banned_irqs' = banned_irqs

\* add_new_irq in terms of sets, and the lists stay lists without duplicates.
LEMMA AddFacts ==
    ASSUME interrupts_db \in Seq(Infos), KnownOnce, NEW d, NEW irq, add_new_irq(d, irq)
    PROVE  /\ interrupts_db' \in Seq(Infos') /\ KnownOnce'
           /\ (Known(irq) /\ SameDb) \/ Entered(d, irq)
<1>1. CASE Known(irq)
  <2>1. UNCHANGED <<interrupts_db, banned_irqs>>
    BY <1>1 DEF add_new_irq
  <2> QED
    BY <1>1, <2>1 DEF KnownOnce, Numbers, Infos, SameDb
<1>2. CASE ~Known(irq) /\ Banned(d, irq)
  <2>1. banned_irqs' = banned_irqs \cup {irq} /\ UNCHANGED interrupts_db
    BY <1>2 DEF add_new_irq
  <2> QED
    BY <1>2, <2>1 DEF KnownOnce, Numbers, Infos, Entered, Known
<1>3. CASE ~Known(irq) /\ ~Banned(d, irq)
  <2>0. PICK e : e = Entry(d, irq)
    OBVIOUS
  <2> DEFINE S == Infos \cup {e}
  <2>1. interrupts_db' = Append(interrupts_db, e) /\ UNCHANGED banned_irqs
    BY <1>3, <2>0 DEF add_new_irq, Entry
  <2>2. e.irq = irq
    BY <2>0, EntryIrq
  <2>3. interrupts_db \in Seq(S) /\ e \in S
    OBVIOUS
  <2>4. interrupts_db' \in Seq(S) /\ Infos' = S
    <3>1. Range(Append(interrupts_db, e)) = Range(interrupts_db) \cup {e}
          /\ Append(interrupts_db, e) \in Seq(S)
      <4> HIDE DEF S
      <4> QED
        BY <2>3, AppendFacts
    <3> QED
      BY <2>1, <3>1 DEF Infos
  <2>5. Entered(d, irq)
    BY <1>3, <2>0, <2>1, <2>4 DEF Entered
  <2>6. KnownOnce'
    <3>1. /\ Len(interrupts_db) \in Nat
          /\ Len(interrupts_db') = Len(interrupts_db) + 1
          /\ \A k \in 1 .. Len(interrupts_db) :
                interrupts_db'[k] = interrupts_db[k] /\ interrupts_db[k] \in Infos
          /\ interrupts_db'[Len(interrupts_db) + 1] = e
      BY <2>1, <2>3
    <3>2. irq \notin Numbers /\ irq \notin banned_irqs
      BY <1>3 DEF Known
    <3>3. \A k \in 1 .. Len(interrupts_db) : interrupts_db[k].irq # irq
      BY <3>1, <3>2 DEF Numbers
    <3>4. ASSUME NEW j \in 1 .. Len(interrupts_db'), NEW k \in 1 .. Len(interrupts_db'),
                 interrupts_db'[j].irq = interrupts_db'[k].irq
          PROVE  j = k
      BY <2>2, <3>1, <3>3, <3>4 DEF KnownOnce
    <3>5. Numbers' = Numbers \cup {irq}
      BY <2>2, <2>4 DEF Numbers
    <3> QED
      BY <2>1, <3>2, <3>4, <3>5 DEF KnownOnce
  <2> QED
    BY <2>4, <2>5, <2>6
<1> QED
  BY <1>1, <1>2, <1>3

\* clear_no_existing_irqs in terms of sets, likewise.
LEMMA ClearFacts ==
    ASSUME interrupts_db \in Seq(Infos), KnownOnce, clear_no_existing_irqs
    PROVE  /\ interrupts_db' \in Seq(Infos') /\ KnownOnce'
           /\ Infos' = { info \in Infos : info.irq \in existing }
           /\ banned_irqs' = banned_irqs \cap existing
<1> DEFINE kept == { k \in 1 .. Len(interrupts_db) : interrupts_db[k].irq \in existing }
           n == Cardinality(kept)
<1>1. PICK place \in Bijection(1 .. n, kept) :
        interrupts_db' = [k \in 1 .. n |-> interrupts_db[place[k]]]
  BY DEF clear_no_existing_irqs
<1>2. n \in Nat
  <2>1. Len(interrupts_db) \in Nat
    OBVIOUS
  <2>2. IsFiniteSet(1 .. Len(interrupts_db))
    BY <2>1, FS_Interval
  <2>3. IsFiniteSet(kept)
    BY <2>2, FS_Subset
  <2> QED
    BY <2>3, FS_CardinalityType
<1>3. /\ place \in [1 .. n -> kept]
      /\ \A a, b \in 1 .. n : place[a] = place[b] => a = b
      /\ \A b \in kept : \E a \in 1 .. n : place[a] = b
  BY <1>1 DEF Bijection, Injection, Surjection, IsInjective
<1> HIDE DEF n
<1>4. \A k \in kept : k \in 1 .. Len(interrupts_db) /\ interrupts_db[k].irq \in existing
      /\ interrupts_db[k] \in Infos
  OBVIOUS
<1>5. \A info \in Infos : info.irq \in existing => \E k \in kept : info = interrupts_db[k]
  BY DEF Infos, Range
<1> HIDE DEF kept
<1>6. \A k \in 1 .. n : interrupts_db'[k] = interrupts_db[place[k]] /\ place[k] \in kept
  BY <1>1, <1>3
<1>7. DOMAIN interrupts_db' = 1 .. n
  BY <1>1
<1>8. Infos' = { info \in Infos : info.irq \in existing }
  <2>1. ASSUME NEW info \in Infos' PROVE info \in Infos /\ info.irq \in existing
    BY <1>4, <1>6, <1>7 DEF Infos, Range
  <2>2. ASSUME NEW info \in Infos, info.irq \in existing PROVE info \in Infos'
    <3>1. PICK k \in kept : info = interrupts_db[k]
      BY <1>5, <2>2
    <3>2. PICK a \in 1 .. n : place[a] = k
      BY <1>3
    <3> QED
      BY <1>6, <1>7, <3>1, <3>2 DEF Infos, Range
  <2> QED
    BY <2>1, <2>2
<1>9. interrupts_db' \in Seq(Infos') /\ Len(interrupts_db') = n
  <2>1. interrupts_db' \in [1 .. n -> Infos']
    BY <1>1, <1>7 DEF Infos, Range
  <2> QED
    BY <1>2, <2>1, FunctionIsSeq
<1>10. banned_irqs' = banned_irqs \cap existing
  BY DEF clear_no_existing_irqs
<1>11. KnownOnce'
  <2>1. ASSUME NEW j \in 1 .. n, NEW k \in 1 .. n,
               interrupts_db'[j].irq = interrupts_db'[k].irq
        PROVE  j = k
    BY <1>3, <1>4, <1>6, <2>1 DEF KnownOnce
  <2>2. Numbers' \subseteq Numbers
    BY <1>8 DEF Numbers
  <2> QED
    BY <1>9, <1>10, <2>1, <2>2 DEF KnownOnce
<1> QED
  BY <1>8, <1>9, <1>10, <1>11

-----------------------------------------------------------------------------
(* The steps in terms of sets                                              *)

\* The machine stays the same.
LEMMA MachineStays ==
    ASSUME Next
    PROVE  UNCHANGED machine
<1>1. CASE Tree \/ CpuHotplug
  BY <1>1, TreeStepMachine DEF Tree, CpuHotplug, TreeStep
<1>2. CASE ~(Tree \/ CpuHotplug)
  BY <1>2 DEF Next, Daemon, DbStep, Collect, BuildDevIrqs, AddMissing, ParseLine, LineNoMemory,
     ReadFails, EndParse, GiveUp, Scan, Decide, Pci, kernelVars
<1> QED
  BY <1>1, <1>2

\* An irq is tried once.
Tried(d, irq) ==
    \/ ((Known(irq) /\ SameDb) \/ Entered(d, irq)) /\ UNCHANGED faults
    \/ ~Known(irq) /\ SameDb /\ faults' = faults \cup {irq}

Listlike == interrupts_db \in Seq(Infos) /\ KnownOnce

\* A step that leaves the lists alone.
LEMMA SameLists ==
    ASSUME UNCHANGED <<interrupts_db, banned_irqs>>
    PROVE  SameDb /\ (Listlike => Listlike') /\ Numbers' = Numbers
  BY DEF SameDb, Listlike, KnownOnce, Numbers, Infos

\* A step that empties them.
LEMMA NoLists ==
    ASSUME interrupts_db = <<>>, banned_irqs = {}
    PROVE  Infos = {} /\ Numbers = {} /\ Listlike
<1>1. Infos = {}
  BY DEF Infos, Range
<1> QED
  BY <1>1 DEF Numbers, Listlike, KnownOnce

\* A step of rebuild_irq_db tries one irq and keeps the lists as they should be.
LEMMA TryFacts ==
    ASSUME Listlike, NEW d, NEW irq, AddOrFail(d, irq)
    PROVE  Listlike' /\ Tried(d, irq)
<1>1. CASE add_new_irq(d, irq) /\ UNCHANGED faults
  BY <1>1, AddFacts DEF Listlike, Tried
<1>2. CASE ~Known(irq) /\ faults' = faults \cup {irq} /\ UNCHANGED <<interrupts_db, banned_irqs>>
  BY <1>2, SameLists DEF Tried
<1> QED
  BY <1>1, <1>2 DEF AddOrFail

\* The device that answers for an irq is the first that has it.
LEMMA ProviderFacts ==
    ASSUME machine \in Machines, devices \subseteq DevicePlaces, NEW irq
    PROVE  /\ Provider(irq) = 0 => \A d \in devices : irq \notin DeviceIrqs(d)
           /\ Provider(irq) # 0 => /\ Provider(irq) \in devices
                                   /\ irq \in DeviceIrqs(Provider(irq))
           /\ \A d \in devices :
                 /\ irq \in DeviceIrqs(d)
                 /\ \A e \in devices : irq \in DeviceIrqs(e) => d <= e
                 => Provider(irq) = d
           /\ (\A d \in devices : irq \notin DeviceIrqs(d)) => Provider(irq) = 0
<1> DEFINE has == { d \in devices : Provides(d, irq) }
<1>1. has = { d \in devices : irq \in DeviceIrqs(d) }
  BY DEF Provides
<1>2. has \subseteq Nat /\ 0 \notin has
  BY <1>1, DeviceFacts
<1>3. Provider(irq) = IF has = {} THEN 0 ELSE First(has)
  BY DEF Provider
<1> HIDE DEF has
<1>4. has # {} => First(has) \in has /\ \A k \in has : First(has) <= k
  BY <1>2, FirstFacts
<1>5. ASSUME NEW d \in has, \A e \in has : d <= e, has # {}
      PROVE  First(has) = d
  <2>1. First(has) \in has /\ First(has) <= d /\ d <= First(has)
    BY <1>4, <1>5
  <2>2. d \in Nat /\ First(has) \in Nat
    BY <1>2, <2>1
  <2> QED
    BY <2>1, <2>2
<1>6. Provider(irq) = 0 => has = {}
  BY <1>2, <1>3, <1>4
<1>7. Provider(irq) # 0 => Provider(irq) \in has
  BY <1>3, <1>4
<1>8. ASSUME NEW d \in devices, irq \in DeviceIrqs(d),
             \A e \in devices : irq \in DeviceIrqs(e) => d <= e
      PROVE  Provider(irq) = d
  BY <1>1, <1>3, <1>5, <1>8
<1>9. (\A d \in devices : irq \notin DeviceIrqs(d)) => Provider(irq) = 0
  BY <1>1, <1>3
<1> QED
  BY <1>1, <1>6, <1>7, <1>8, <1>9

\* proc_irq_hotplug: unless an allocation fails, the irq is added by the device that
\* answers for it.
Plugged(irq) ==
    /\ stale' = stale \ {irq} /\ faults \subseteq faults' \cup {irq}
    /\ \/ SameDb /\ irq \in faults'
       \/ \E d \in {0} \cup devices :
             /\ d # 0 => irq \in DeviceIrqs(d)
             /\ Entered(d, irq)
             /\ irq \notin faults' => d = Provider(irq)

\* proc_irq_hotplug does just that, however many allocations fail.
LEMMA HotplugFacts ==
    ASSUME machine \in Machines, devices \subseteq DevicePlaces, Listlike,
           NEW irq, ~Known(irq), NEW tried \in Nat, ProcIrqHotplug(irq, tried)
    PROVE  Listlike' /\ Plugged(irq)
<1> DEFINE has == { d \in devices : Provides(d, irq) }
<1>1. has = { d \in devices : irq \in DeviceIrqs(d) }
  BY DEF Provides
<1>2. IsFiniteSet(has) /\ has \subseteq Nat /\ 0 \notin has
  <2>1. has \subseteq DevicePlaces /\ IsFiniteSet(DevicePlaces) /\ DevicePlaces \subseteq Nat
    BY <1>1, DeviceFacts
  <2>2. IsFiniteSet(has)
    BY <2>1, FS_Subset
  <2> QED
    BY <2>1, <2>2, DeviceFacts
<1>3. /\ stale' = stale \ {irq}
      /\ faults' = IF tried > 0 THEN faults \cup {irq} ELSE faults \ {irq}
      /\ \/ \E d \in has : /\ Cardinality({ e \in has : e < d }) = tried
                           /\ add_new_irq(d, irq)
         \/ tried = Cardinality(has) /\ add_new_irq(0, irq)
         \/ tried = Cardinality(has) + 1 /\ UNCHANGED <<interrupts_db, banned_irqs>>
  BY DEF ProcIrqHotplug
<1> HIDE DEF has
<1>4. Cardinality(has) \in Nat /\ (Cardinality(has) = 0 => has = {})
  BY <1>2, FS_CardinalityType, FS_EmptySet
<1>5. CASE \E d \in has : Cardinality({ e \in has : e < d }) = tried /\ add_new_irq(d, irq)
  <2>1. PICK d \in has : Cardinality({ e \in has : e < d }) = tried /\ add_new_irq(d, irq)
    BY <1>5
  <2>2. Listlike' /\ Entered(d, irq)
    BY <2>1, AddFacts DEF Listlike
  <2>3. ASSUME irq \notin faults' PROVE d = Provider(irq)
    <3>1. tried = 0
      BY <1>3, <2>3
    <3>2. { e \in has : e < d } = {}
      <4>1. IsFiniteSet({ e \in has : e < d })
        BY <1>2, FS_Subset
      <4> QED
        BY <2>1, <3>1, <4>1, FS_EmptySet
    <3>3. \A e \in has : d <= e
      BY <1>2, <3>2
    <3> QED
      BY <1>1, <3>3, ProviderFacts
  <2> QED
    BY <1>1, <1>3, <2>2, <2>3 DEF Plugged
<1>6. CASE tried = Cardinality(has) /\ add_new_irq(0, irq)
  <2>1. Listlike' /\ Entered(0, irq)
    BY <1>6, AddFacts DEF Listlike
  <2>2. ASSUME irq \notin faults' PROVE 0 = Provider(irq)
    <3>1. has = {}
      BY <1>3, <1>4, <1>6, <2>2
    <3> QED
      BY <1>1, <3>1, ProviderFacts
  <2> QED
    BY <1>3, <2>1, <2>2 DEF Plugged
<1>7. CASE tried = Cardinality(has) + 1 /\ UNCHANGED <<interrupts_db, banned_irqs>>
  <2>1. Listlike' /\ SameDb
    BY <1>7, SameLists
  <2>2. irq \in faults' /\ faults \subseteq faults'
    BY <1>3, <1>4, <1>7
  <2> QED
    BY <1>3, <2>1, <2>2 DEF Plugged
<1> QED
  BY <1>3, <1>5, <1>6, <1>7

\* The lists are empty after this step.
LEMMA NoListsNext ==
    ASSUME interrupts_db' = <<>>, banned_irqs' = {}
    PROVE  Infos' = {} /\ Numbers' = {} /\ Listlike'
<1>1. Infos' = {}
  BY DEF Infos, Range
<1> QED
  BY <1>1 DEF Numbers, Listlike, KnownOnce

\* A step through the directories.
Built ==
    /\ pc = "devices" /\ Listlike'
    /\ \/ /\ pc' = "devices"
          /\ \E d \in DevicePlaces, irq \in AllIrqs :
                /\ <<d, irq>> \in queue /\ irq \in DeviceIrqs(d)
                /\ \A e, i : <<e, i>> \in queue => d <= e
                /\ queue' = queue \ {<<d, irq>>}
                /\ \/ d \in devices /\ Tried(d, irq)
                   \/ d \notin devices /\ SameDb /\ UNCHANGED faults
       \/ /\ pc' = "missing" /\ queue = {}
          /\ SameDb /\ UNCHANGED faults

\* build_dev_irqs goes through the directories in their order.
LEMMA BuiltFacts ==
    ASSUME DbType, KnownOnce, BuildDevIrqs
    PROVE  Built
<1>0. pc = "devices" /\ Listlike
  BY DEF BuildDevIrqs, DbType, Listlike
<1>1. CASE queue = {} /\ pc' = "missing" /\ UNCHANGED <<interrupts_db, banned_irqs, faults>>
  BY <1>0, <1>1, SameLists DEF Built
<1>2. CASE /\ UNCHANGED pc
           /\ \E next \in queue :
                LET d == next[1]  irq == next[2]
                IN  /\ \A other \in queue : d <= other[1]
                    /\ IF d \in devices THEN AddOrFail(d, irq)
                       ELSE UNCHANGED <<interrupts_db, banned_irqs, faults, events>>
                    /\ queue' = queue \ {next}
  <2>1. PICK next \in queue :
          /\ \A other \in queue : next[1] <= other[1]
          /\ IF next[1] \in devices THEN AddOrFail(next[1], next[2])
             ELSE UNCHANGED <<interrupts_db, banned_irqs, faults, events>>
          /\ queue' = queue \ {next}
    BY <1>2
  <2>2. PICK d \in DevicePlaces, irq \in AllIrqs : next = <<d, irq>> /\ irq \in DeviceIrqs(d)
    BY <1>0, <2>1 DEF DbType
  <2>3. d = next[1] /\ irq = next[2]
    BY <2>2
  <2>4. \A e, i : <<e, i>> \in queue => d <= e
    BY <2>1, <2>3
  <2>5. CASE d \in devices
    <3>1. Listlike' /\ Tried(d, irq)
      BY <1>0, <2>1, <2>3, <2>5, TryFacts
    <3> QED
      BY <1>0, <1>2, <2>1, <2>2, <2>4, <2>5, <3>1 DEF Built
  <2>6. CASE d \notin devices
    <3>1. Listlike' /\ SameDb /\ UNCHANGED faults
      BY <1>0, <2>1, <2>3, <2>6, SameLists
    <3> QED
      BY <1>0, <1>2, <2>1, <2>2, <2>4, <2>6, <3>1 DEF Built
  <2> QED
    BY <2>5, <2>6
<1> QED
  BY <1>1, <1>2 DEF BuildDevIrqs

\* A step through the lines that were collected.
Missed ==
    /\ pc = "missing" /\ Listlike'
    /\ \/ /\ pc' = "missing"
          /\ \E irq \in tmp_irqs : Tried(0, irq) /\ tmp_irqs' = tmp_irqs \ {irq}
       \/ /\ SameDb /\ UNCHANGED <<faults, tmp_irqs>>
          /\ \/ need_rebuild /\ pc' = "free"
             \/ ~need_rebuild /\ pc' = "parse" /\ queue' = active /\ unsure' = {}

\* add_missing_irq goes through the collected lines.
LEMMA MissedFacts ==
    ASSUME machine \in Machines, DbType, KnownOnce, AddMissing
    PROVE  Missed
<1>0. pc = "missing" /\ Listlike
  BY DEF AddMissing, DbType, Listlike
<1>1. CASE tmp_irqs # {} /\ UNCHANGED pc
           /\ AddOrFail(0, First(tmp_irqs)) /\ tmp_irqs' = tmp_irqs \ {First(tmp_irqs)}
  <2>1. First(tmp_irqs) \in tmp_irqs
    <3>1. tmp_irqs \subseteq Nat
      BY DeviceFacts DEF DbType
    <3> QED
      BY <1>1, <3>1, FirstFacts
  <2>2. Listlike' /\ Tried(0, First(tmp_irqs))
    BY <1>0, <1>1, TryFacts
  <2> QED
    BY <1>0, <1>1, <2>1, <2>2 DEF Missed
<1>2. CASE /\ \/ need_rebuild /\ pc' = "free" /\ UNCHANGED <<queue, unsure>>
              \/ ~need_rebuild /\ OpenProcInterrupts
           /\ UNCHANGED <<tmp_irqs, interrupts_db, banned_irqs, faults, events>>
  <2>1. UNCHANGED <<interrupts_db, banned_irqs>> /\ UNCHANGED <<faults, tmp_irqs>>
    BY <1>2
  <2>2. CASE need_rebuild /\ pc' = "free"
    BY <1>0, <2>1, <2>2, SameLists DEF Missed
  <2>3. CASE ~need_rebuild /\ OpenProcInterrupts
    BY <1>0, <2>1, <2>3, SameLists DEF Missed, OpenProcInterrupts
  <2> QED
    BY <1>2, <2>2, <2>3
<1>3. CASE tmp_irqs # {} /\ UNCHANGED <<pc, queue, unsure>>
           /\ AddOrFail(0, First(tmp_irqs)) /\ tmp_irqs' = tmp_irqs \ {First(tmp_irqs)}
  BY <1>1, <1>3
<1> QED
  BY <1>2, <1>3, Zenon DEF AddMissing

\* A line of /proc/interrupts.
Parsed ==
    /\ pc = "parse" /\ pc' = "parse" /\ Listlike'
    /\ \E irq \in queue :
          /\ \/ Known(irq) /\ SameDb /\ UNCHANGED <<faults, stale>>
             \/ ~Known(irq) /\ Plugged(irq)
          /\ queue' \subseteq queue
          /\ ~need_rescan' => /\ ~need_rescan /\ Known(irq)'
                              /\ existing' = existing \cup {irq} /\ queue' = queue \ {irq}

\* parse_proc_interrupts flags what is known after the line.
LEMMA ParsedFacts ==
    ASSUME machine \in Machines, DbType, KnownOnce, ParseLine
    PROVE  Parsed
<1>0. pc = "parse" /\ pc' = "parse" /\ queue # {} /\ Listlike
  BY DEF ParseLine, DbType, Listlike
<1> DEFINE irq == First(queue)
           failed == irq \notin { i.irq : i \in Range(interrupts_db') } \cup banned_irqs'
<1>1. /\ \/ /\ Known(irq)
            /\ UNCHANGED <<interrupts_db, banned_irqs, faults, stale, events>>
         \/ ~Known(irq) /\ \E tried \in 0 .. events : ProcIrqHotplug(irq, tried)
      /\ existing' = IF failed THEN existing ELSE existing \cup {irq}
      /\ need_rescan' = (need_rescan \/ failed \/ Columns # num_online_cpus)
      /\ queue' = IF failed \/ Columns # num_online_cpus THEN {} ELSE queue \ {irq}
  BY DEF ParseLine
<1>2. irq \in queue
  <2>1. queue \subseteq Nat
    BY <1>0, DeviceFacts DEF DbType
  <2> QED
    BY <1>0, <2>1, FirstFacts
<1> HIDE DEF irq
<1>i. PICK i : i = irq
  OBVIOUS
<1>3. ~failed <=> Known(i)'
  BY <1>i DEF Known, Numbers, Infos
<1>4. queue' \subseteq queue
      /\ (~need_rescan' => /\ ~need_rescan /\ Known(i)'
                           /\ existing' = existing \cup {i} /\ queue' = queue \ {i})
  <2> HIDE DEF failed
  <2> QED
    BY <1>1, <1>3, <1>i
<1>5. CASE Known(i) /\ UNCHANGED <<interrupts_db, banned_irqs, faults, stale>>
  BY <1>0, <1>2, <1>4, <1>5, <1>i, SameLists DEF Parsed
<1>6. CASE ~Known(i) /\ \E tried \in 0 .. events : ProcIrqHotplug(i, tried)
  <2>1. PICK tried \in 0 .. events : ProcIrqHotplug(i, tried)
    BY <1>6
  <2>2. tried \in Nat
    OBVIOUS
  <2>3. Listlike' /\ Plugged(i)
    BY <1>0, <1>6, <2>1, <2>2, HotplugFacts DEF DbType
  <2> QED
    BY <1>0, <1>2, <1>4, <1>6, <1>i, <2>3 DEF Parsed
<1> QED
  BY <1>1, <1>5, <1>6, <1>i

\* The end of a read.
Read ==
    /\ pc = "parse" /\ pc' = "parsed" /\ queue = {} /\ Listlike' /\ UNCHANGED need_rescan
    /\ \/ need_rescan /\ SameDb /\ UNCHANGED <<existing, stale, faults>>
       \/ /\ ~need_rescan
          /\ Infos' = { info \in Infos : info.irq \in existing }
          /\ banned_irqs' = banned_irqs \cap existing
          /\ existing' = {} /\ stale' = stale \cap existing /\ faults' = faults \cap existing

\* The end of a read forgets what was not flagged.
LEMMA ReadFacts ==
    ASSUME DbType, KnownOnce, EndParse
    PROVE  Read
<1>0. pc = "parse" /\ pc' = "parsed" /\ queue = {} /\ Listlike /\ UNCHANGED need_rescan
  BY DEF EndParse, DbType, Listlike
<1>1. CASE need_rescan
  <2>1. UNCHANGED <<interrupts_db, banned_irqs, existing, stale, faults>>
    BY <1>1 DEF EndParse
  <2> QED
    BY <1>0, <1>1, <2>1, SameLists DEF Read
<1>2. CASE ~need_rescan
  <2>1. clear_no_existing_irqs
    BY <1>2 DEF EndParse
  <2> QED
    BY <1>0, <1>2, <2>1, ClearFacts DEF Read, Listlike, clear_no_existing_irqs
<1> QED
  BY <1>1, <1>2

\* A step of the build: the lists are emptied first and then left alone.
Grown ==
    /\ UNCHANGED <<devices, active, queue, tmp_irqs, need_rescan, stale, unsure, faults>>
    /\ \/ /\ pc = "free" /\ pc' = "nodes" /\ NUMA_NO_NODE \in todo'
          /\ interrupts_db' = <<>> /\ banned_irqs' = {} /\ existing' = {}
       \/ /\ pc \in BuildPcs /\ pc' \in BuildPcs \cup {"collect"}
          /\ UNCHANGED <<interrupts_db, banned_irqs, existing>>

\* The build of the tree does no more to the database than this.
LEMMA GrownFacts ==
    ASSUME Tree
    PROVE  Grown
<1>1. UNCHANGED <<devices, active, queue, tmp_irqs, need_rescan, stale, unsure, faults>>
  BY DEF Tree, pciVars, ghostVars
<1>2. CASE StartBuild
  BY <1>1, <1>2 DEF Tree, StartBuild, Grown
<1>3. CASE add_one_node \/ StartCpus \/ Visit \/ ReadPackage \/ ReadCache \/ AddCpu \/ Connect
  <2>1. pc \in BuildPcs /\ pc' \in BuildPcs \cup {"collect"}
    BY <1>3 DEF add_one_node, StartCpus, Visit, ReadPackage, ReadCache, AddCpu, Connect,
       BuildPcs, CpuPcs
  <2>2. UNCHANGED <<interrupts_db, banned_irqs, existing>>
    BY <2>1 DEF Tree, BuildPcs, CpuPcs
  <2> QED
    BY <1>1, <2>1, <2>2 DEF Grown
<1> QED
  BY <1>2, <1>3 DEF Tree, BuildTree

\* A step that leaves the tree and the lists as they are.
Aside == CpuHotplug \/ Scan \/ Decide \/ Pci \/ LineNoMemory \/ ReadFails

\* These steps leave the lists alone.
LEMMA AsideFacts ==
    ASSUME Aside
    PROVE  UNCHANGED <<interrupts_db, banned_irqs>> /\ UNCHANGED <<existing, faults, tmp_irqs>>
  BY DEF Aside, CpuHotplug, Scan, Decide, Pci, LineNoMemory, ReadFails, irqDbVars, dbVars,
     ghostVars

\* The steps, once more.
LEMMA Steps ==
    ASSUME Next
    PROVE  \/ Tree \/ Aside \/ GiveUp \/ Collect \/ BuildDevIrqs \/ AddMissing
           \/ ParseLine \/ EndParse
  BY DEF Next, Daemon, DbStep, Aside

\* Every step leaves lists without duplicates.
LEMMA ListsNext ==
    ASSUME machine \in Machines, DbType, KnownOnce, Next
    PROVE  interrupts_db' \in Seq(Infos') /\ KnownOnce'
<1>0. Listlike
  BY DEF DbType, Listlike
<1>1. CASE Tree
  <2>1. CASE interrupts_db' = <<>> /\ banned_irqs' = {}
    BY <2>1, NoListsNext DEF Listlike
  <2>2. CASE UNCHANGED <<interrupts_db, banned_irqs>>
    BY <1>0, <2>2, SameLists DEF Listlike
  <2> QED
    BY <1>1, <2>1, <2>2, GrownFacts DEF Grown
<1>2. CASE Aside
  BY <1>0, <1>2, AsideFacts, SameLists DEF Listlike
<1>3. CASE GiveUp \/ Collect
  BY <1>3, NoListsNext DEF GiveUp, Collect, Listlike
<1>4. CASE BuildDevIrqs
  BY <1>4, BuiltFacts DEF Built, Listlike
<1>5. CASE AddMissing
  BY <1>5, MissedFacts DEF Missed, Listlike
<1>6. CASE ParseLine
  BY <1>6, ParsedFacts DEF Parsed, Listlike
<1>7. CASE EndParse
  BY <1>7, ReadFacts DEF Read, Listlike
<1> QED
  BY <1>1, <1>2, <1>3, <1>4, <1>5, <1>6, <1>7, Steps

\* The types of the rest.
LEMMA DbTypeNext ==
    ASSUME machine \in Machines, DbType, KnownOnce, Next
    PROVE  DbType'
<1> USE DEF pciVars, dbVars, ghostVars, irqDbVars
<1>m. /\ machine' = machine /\ DevicePlaces' = DevicePlaces /\ AllIrqs' = AllIrqs
      /\ \A d : DeviceIrqs(d)' = DeviceIrqs(d)
  BY MachineStays, SamePlaces
<1>l. interrupts_db' \in Seq(Infos')
  BY ListsNext
<1>1. devices' \subseteq DevicePlaces /\ active' \subseteq AllIrqs
  <2>1. CASE Pci
    <3>1. PICK d \in DevicePlaces :
            /\ devices' \in {devices, devices \cup {d}, devices \ {d}}
            /\ active' \subseteq active \cup Range(machine.devices[d].irqs)
      BY <2>1 DEF Pci, DevicePlaces
    <3>2. Range(machine.devices[d].irqs) \subseteq AllIrqs
      BY <3>1, DeviceFacts
    <3> QED
      BY <3>1, <3>2 DEF DbType
  <2>2. CASE ~Pci
    <3>1. UNCHANGED <<devices, active>>
      BY <2>2 DEF Next, Daemon, Tree, DbStep, Collect, BuildDevIrqs, AddMissing, ParseLine,
         LineNoMemory, ReadFails, EndParse, GiveUp, Scan, Decide, CpuHotplug
    <3> QED
      BY <3>1 DEF DbType
  <2> QED
    BY <2>1, <2>2
<1>2. tmp_irqs' \subseteq AllIrqs
  <2>1. CASE Tree
    BY <2>1, GrownFacts DEF Grown, DbType
  <2>2. CASE Aside
    BY <2>2, AsideFacts DEF DbType
  <2>3. CASE AddMissing
    BY <2>3, MissedFacts DEF Missed, DbType
  <2>4. CASE GiveUp \/ Collect \/ BuildDevIrqs \/ ParseLine \/ EndParse
    BY <2>4 DEF GiveUp, Collect, BuildDevIrqs, ParseLine, EndParse, DbType
  <2> QED
    BY <2>1, <2>2, <2>3, <2>4, Steps
<1>3. ASSUME pc' = "devices", NEW next \in queue'
      PROVE  \E d \in DevicePlaces, i \in AllIrqs : next = <<d, i>> /\ i \in DeviceIrqs(d)
  <2>1. CASE Collect
    <3>1. next \in DevicePlaces \X AllIrqs /\ next[2] \in DeviceIrqs(next[1])
      BY <1>3, <2>1 DEF Collect, DevicePlaces
    <3> QED
      BY <3>1
  <2>2. CASE BuildDevIrqs
    BY <1>3, <2>2, BuiltFacts DEF Built, DbType
  <2>3. CASE Pci
    BY <1>3, <2>3 DEF Pci, DbType
  <2>4. CASE Tree
    BY <1>3, <2>4, GrownFacts DEF Grown, BuildPcs, CpuPcs
  <2>5. CASE AddMissing
    BY <1>3, <2>5, MissedFacts DEF Missed
  <2>6. CASE CpuHotplug
    BY <1>3, <2>6 DEF CpuHotplug, Hotplug
  <2>7. CASE Scan \/ Decide \/ GiveUp \/ ParseLine \/ LineNoMemory \/ ReadFails \/ EndParse
    BY <1>3, <2>7 DEF Scan, Decide, GiveUp, ParseLine, LineNoMemory, ReadFails, EndParse,
       OpenProcInterrupts
  <2> QED
    BY <2>1, <2>2, <2>3, <2>4, <2>5, <2>6, <2>7, Steps DEF Aside
<1>4. ASSUME pc' = "parse" PROVE queue' \subseteq AllIrqs
  <2>1. CASE Tree
    BY <1>4, <2>1, GrownFacts DEF Grown, BuildPcs, CpuPcs
  <2>2. CASE BuildDevIrqs
    BY <1>4, <2>2, BuiltFacts DEF Built
  <2>3. CASE AddMissing
    BY <1>4, <2>3, MissedFacts DEF Missed, DbType
  <2>4. CASE ParseLine
    BY <1>4, <2>4, ParsedFacts DEF Parsed, DbType
  <2>5. CASE CpuHotplug
    BY <1>4, <2>5 DEF CpuHotplug, Hotplug
  <2>6. CASE Scan \/ Pci
    BY <1>4, <2>6 DEF Scan, Pci, OpenProcInterrupts, DbType
  <2>7. CASE Decide \/ GiveUp \/ Collect \/ LineNoMemory \/ ReadFails \/ EndParse
    BY <1>4, <2>7 DEF Decide, GiveUp, Collect, LineNoMemory, ReadFails, EndParse
  <2> QED
    BY <2>1, <2>2, <2>3, <2>4, <2>5, <2>6, <2>7, Steps DEF Aside
<1> QED
  BY <1>m, <1>l, <1>1, <1>2, <1>3, <1>4 DEF DbType

\* The lists are empty while the tree is built.
LEMMA EmptiedNext ==
    ASSUME Emptied, Next
    PROVE  Emptied'
<1> USE DEF BuildPcs, CpuPcs
<1> SUFFICES ASSUME pc' \in BuildPcs \cup {"collect"}
             PROVE  interrupts_db' = <<>> /\ banned_irqs' = {}
  BY DEF Emptied
<1>1. CASE Tree
  BY <1>1, GrownFacts DEF Grown, Emptied
<1>2. CASE CpuHotplug
  BY <1>2 DEF CpuHotplug, Hotplug, Emptied, irqDbVars, dbVars
<1>3. CASE ~(Tree \/ CpuHotplug)
  BY <1>3 DEF Next, Daemon, DbStep, Collect, BuildDevIrqs, AddMissing, ParseLine, LineNoMemory,
     ReadFails, EndParse, GiveUp, Scan, Decide, Pci, OpenProcInterrupts
<1> QED
  BY <1>1, <1>2, <1>3

-----------------------------------------------------------------------------
(* What the entries say                                                    *)

\* The nodes change only while the lists are empty.
LEMMA NodesStay ==
    ASSUME Next, ~Tree, ~GiveUp
    PROVE  UNCHANGED numa_nodes
  BY DEF Next, Daemon, DbStep, Collect, BuildDevIrqs, AddMissing, ParseLine, LineNoMemory,
     ReadFails, EndParse, Scan, Decide, Pci, CpuHotplug, Hotplug, treeVars

\* A step that changes the nodes leaves the lists empty.
LEMMA EmptyNext ==
    ASSUME Emptied, Tree \/ GiveUp
    PROVE  interrupts_db' = <<>> /\ banned_irqs' = {}
<1>1. CASE Tree
  BY <1>1, GrownFacts DEF Grown, Emptied
<1>2. CASE GiveUp
  BY <1>2 DEF GiveUp
<1> QED
  BY <1>1, <1>2

\* Device d, or the line, has made this entry.
DescribedBy(info, d) ==
    /\ info.irq \in AllIrqs /\ (d # 0 => info.irq \in DeviceIrqs(d))
    /\ info = Entry(d, info.irq) /\ ~Banned(d, info.irq)

\* An entry stays what its maker would make of it, while the nodes stay.
LEMMA DescribedStays ==
    ASSUME UNCHANGED <<machine, numa_nodes>>, NEW info, NEW d, DescribedBy(info, d)
    PROVE  DescribedBy(info, d)'
<1>1. PICK i : i = info.irq
  OBVIOUS
<1>2. Entry(d, i)' = Entry(d, i) /\ Banned(d, i)' = Banned(d, i)
      /\ DeviceIrqs(d)' = DeviceIrqs(d) /\ AllIrqs' = AllIrqs
  BY SameEntry, SameBan, SamePlaces
<1> QED
  BY <1>1, <1>2 DEF DescribedBy

\* A new entry is what its maker makes of it.
LEMMA EnteredDescribed ==
    ASSUME NEW d, NEW irq \in AllIrqs, Entered(d, irq), d # 0 => irq \in DeviceIrqs(d),
           NEW info \in Infos'
    PROVE  info \in Infos \/ DescribedBy(info, d)
  BY EntryIrq DEF Entered, DescribedBy

\* Every entry was made by a device or a line.
LEMMA DescribedNext ==
    ASSUME machine \in Machines, DbType, KnownOnce, Emptied, Described, Next
    PROVE  Described'
<1>0. CASE Tree \/ GiveUp
  <2>1. Infos' = {}
    BY <1>0, EmptyNext, NoListsNext
  <2> QED
    BY <2>1 DEF Described
<1> SUFFICES ASSUME ~Tree, ~GiveUp, NEW info \in Infos'
             PROVE  \E d \in {0} \cup DevicePlaces : DescribedBy(info, d)'
  <2>1. UNCHANGED machine
    BY MachineStays
  <2> QED
    BY <1>0, <2>1, SamePlaces DEF Described, DescribedBy
<1>m. UNCHANGED <<machine, numa_nodes>>
  BY MachineStays, NodesStay
<1> SUFFICES \E d \in {0} \cup DevicePlaces : DescribedBy(info, d)
  BY <1>m, DescribedStays
<1>1. ASSUME info \in Infos PROVE \E d \in {0} \cup DevicePlaces : DescribedBy(info, d)
  BY <1>1 DEF Described, DescribedBy
<1>2. ASSUME NEW d \in {0} \cup DevicePlaces, NEW irq \in AllIrqs, Entered(d, irq),
             d # 0 => irq \in DeviceIrqs(d)
      PROVE  \E e \in {0} \cup DevicePlaces : DescribedBy(info, e)
  BY <1>1, <1>2, EnteredDescribed
<1>3. CASE Collect
  <2>1. Infos' = {}
    BY <1>3, NoListsNext DEF Collect
  <2> QED
    BY <2>1
<1>4. CASE Aside
  BY <1>1, <1>4, AsideFacts, SameLists DEF SameDb
<1>5. CASE BuildDevIrqs
  <2>1. SameDb \/ \E d \in DevicePlaces, irq \in AllIrqs : irq \in DeviceIrqs(d) /\ Entered(d, irq)
    BY <1>5, BuiltFacts DEF Built, Tried
  <2> QED
    BY <1>1, <1>2, <2>1 DEF SameDb
<1>6. CASE AddMissing
  <2>1. SameDb \/ \E irq \in AllIrqs : Entered(0, irq)
    BY <1>6, MissedFacts DEF Missed, Tried, DbType
  <2> QED
    BY <1>1, <1>2, <2>1 DEF SameDb
<1>7. CASE ParseLine
  <2>1. \/ SameDb
        \/ \E irq \in AllIrqs : \E d \in {0} \cup devices :
              Entered(d, irq) /\ (d # 0 => irq \in DeviceIrqs(d))
    BY <1>7, ParsedFacts DEF Parsed, Plugged, DbType
  <2> QED
    BY <1>1, <1>2, <2>1 DEF SameDb, DbType
<1>8. CASE EndParse
  BY <1>1, <1>8, ReadFacts DEF Read, SameDb
<1> QED
  BY <1>3, <1>4, <1>5, <1>6, <1>7, <1>8, Steps

\* A rebuild that failed is tried again before the next balance.
LEMMA NodeInvNext ==
    ASSUME TreeInv, DbType, KnownOnce, Emptied, NodeInv, Next
    PROVE  NodeInv'
<1> USE DEF kernelVars, treeVars, localVars
<1>b. need_rebuild \in BOOLEAN /\ machine \in Machines
  BY DEF TreeInv, TreeType, LocalTypes
<1>1. CASE Tree
  <2>1. pc' \in BuildPcs \cup {"collect"}
    BY <1>1, GrownFacts DEF Grown, BuildPcs, CpuPcs
  <2>2. Rooted'
    <3>1. CASE StartBuild
      BY <3>1 DEF StartBuild, Rooted
    <3>2. CASE add_one_node
      <4> DEFINE n == CHOOSE m \in todo : \A k \in todo : m <= k
      <4>1. pc = "nodes" /\ todo' = todo \ {n} /\ pc' = "nodes"
            /\ \/ /\ numa_nodes' = With(numa_nodes, n, [mask |-> NodeMask(n), children |-> {}])
                  /\ UNCHANGED need_rebuild
               \/ need_rebuild' = TRUE
        BY <3>2 DEF add_one_node, NoMemory
      <4> HIDE DEF n
      <4> QED
        BY <4>1 DEF NodeInv, Rooted, With
    <3>3. CASE StartCpus \/ Visit \/ ReadPackage \/ ReadCache \/ AddCpu \/ Connect
      <4>1. DOMAIN numa_nodes' = DOMAIN numa_nodes
        BY <3>3 DEF StartCpus, Visit, ReadPackage, ReadCache, AddCpu, Connect
      <4>2. pc # "free" /\ (pc = "nodes" => todo = {}) /\ (need_rebuild => need_rebuild')
        BY <3>3 DEF StartCpus, Visit, ReadPackage, ReadCache, AddCpu, Connect, NoMemory
      <4> QED
        BY <4>1, <4>2 DEF NodeInv, Rooted
    <3> QED
      BY <1>1, <3>1, <3>2, <3>3 DEF Tree, BuildTree
  <2> QED
    BY <2>1, <2>2 DEF NodeInv, BuildPcs, CpuPcs
<1>2. CASE CpuHotplug
  BY <1>2 DEF CpuHotplug, Hotplug, NodeInv, Rooted
<1>3. CASE GiveUp
  <2>1. Infos' = {}
    BY <1>3, NoListsNext DEF GiveUp
  <2>2. need_rebuild'
    BY <1>3 DEF GiveUp, NodeInv, RebuildTries
  <2> QED
    BY <1>3, <2>1, <2>2 DEF GiveUp, NodeInv, Rooted
<1>4. CASE ~(Tree \/ CpuHotplug \/ GiveUp)
  <2>1. UNCHANGED <<numa_nodes, need_rebuild>>
    BY <1>4 DEF Next, Daemon, DbStep, Collect, BuildDevIrqs, AddMissing, ParseLine,
       LineNoMemory, ReadFails, EndParse, Scan, Decide, Pci
  <2>2. pc \notin {"nodes", "free"}
    BY <1>4 DEF Next, Daemon, DbStep, Collect, BuildDevIrqs, AddMissing, ParseLine,
       LineNoMemory, ReadFails, EndParse, Scan, Decide, Pci
  <2>3. Rooted'
    BY <2>1, <2>2 DEF NodeInv, Rooted
  <2>4. CASE Pci
    <3>1. Infos' = Infos /\ UNCHANGED <<pc, try_times>>
      BY <2>4 DEF Pci, dbVars, Infos
    <3> QED
      BY <2>1, <2>3, <3>1 DEF NodeInv
  <2>5. CASE Decide
    BY <1>b, <2>1, <2>3, <2>5 DEF Decide, NodeInv
  <2>6. CASE Scan
    BY <2>1, <2>3, <2>6 DEF Scan, NodeInv, OpenProcInterrupts
  <2>7. CASE Collect \/ BuildDevIrqs
    BY <2>3, <2>7 DEF Collect, BuildDevIrqs, NodeInv
  <2>8. CASE AddMissing
    <3>1. UNCHANGED try_times
      BY <2>8 DEF AddMissing
    <3> QED
      BY <1>b, <2>1, <2>3, <2>8, <3>1, MissedFacts DEF Missed, NodeInv
  <2>9. CASE ParseLine \/ LineNoMemory \/ ReadFails \/ EndParse
    BY <1>b, <2>1, <2>3, <2>9 DEF ParseLine, LineNoMemory, ReadFails, EndParse, NodeInv
  <2> QED
    BY <1>4, <2>4, <2>5, <2>6, <2>7, <2>8, <2>9 DEF Next, Daemon, DbStep
<1> QED
  BY <1>1, <1>2, <1>3, <1>4

-----------------------------------------------------------------------------
(* The flags of a read                                                     *)

\* Nothing is forgotten when an irq is added.
LEMMA Remembered ==
    ASSUME SameDb \/ \E d, irq : Entered(d, irq)
    PROVE  Infos \subseteq Infos' /\ Numbers \subseteq Numbers' /\ banned_irqs \subseteq banned_irqs'
<1>1. Infos \subseteq Infos' /\ banned_irqs \subseteq banned_irqs'
  BY DEF SameDb, Entered
<1> QED
  BY <1>1 DEF Numbers

\* Device d or the line is the irq's own; nobody but that irq becomes known.
LEMMA EnteredNumbers ==
    ASSUME NEW d, NEW irq, Entered(d, irq)
    PROVE  Numbers' \cup banned_irqs' = Numbers \cup banned_irqs \cup {irq}
<1>1. Entry(d, irq).irq = irq
  BY EntryIrq
<1> QED
  BY <1>1 DEF Entered, Numbers

\* Every step keeps the flags true.
LEMMA FlagInvNext ==
    ASSUME TreeInv, DbType, KnownOnce, NodeInv, FlagInv, Next
    PROVE  FlagInv'
<1> USE DEF pciVars, dbVars, ghostVars, irqDbVars
<1>b. machine \in Machines
  BY DEF TreeInv, TreeType
<1>1. CASE Tree
  BY <1>1, GrownFacts DEF Grown, FlagInv, BuildPcs, CpuPcs
<1>2. CASE CpuHotplug
  <2>1. UNCHANGED <<pc, need_rescan, need_rebuild, existing, queue, unsure, active>>
        /\ Numbers' = Numbers /\ banned_irqs' = banned_irqs
    BY <1>2 DEF CpuHotplug, Hotplug, Numbers, Infos
  <2> QED
    BY <2>1 DEF FlagInv
<1>3. CASE GiveUp
  <2>1. need_rebuild'
    BY <1>3 DEF GiveUp, NodeInv, RebuildTries
  <2> QED
    BY <1>3, <2>1 DEF GiveUp, FlagInv
<1>4. CASE Collect
  BY <1>4 DEF Collect, FlagInv
<1>5. CASE BuildDevIrqs
  <2>1. UNCHANGED <<existing, need_rescan>>
    BY <1>5 DEF BuildDevIrqs
  <2> QED
    BY <1>5, <2>1, BuiltFacts DEF Built, FlagInv
<1>6. CASE AddMissing
  <2>1. UNCHANGED <<existing, need_rescan, active>>
    BY <1>6 DEF AddMissing
  <2>2. pc = "missing" /\ (pc' = "parse" => queue' = active /\ unsure' = {})
        /\ pc' \in {"missing", "free", "parse"}
    BY <1>b, <1>6, MissedFacts DEF Missed
  <2> QED
    BY <2>1, <2>2 DEF FlagInv
<1>7. CASE ParseLine
  <2>1. UNCHANGED <<active, unsure>>
    BY <1>7 DEF ParseLine
  <2>2. Parsed
    BY <1>b, <1>7, ParsedFacts
  <2>3. PICK irq \in queue :
          /\ (Known(irq) /\ SameDb) \/ Plugged(irq)
          /\ ~need_rescan' => /\ ~need_rescan /\ Known(irq)'
                              /\ existing' = existing \cup {irq} /\ queue' = queue \ {irq}
    BY <2>2 DEF Parsed
  <2>4. Numbers \subseteq Numbers' /\ banned_irqs \subseteq banned_irqs'
    BY <2>3, Remembered DEF Plugged
  <2>5. pc = "parse" /\ pc' = "parse"
    BY <2>2 DEF Parsed
  <2>6. ASSUME ~need_rescan'
        PROVE  /\ existing' \subseteq Numbers' \cup banned_irqs'
               /\ (existing' \cup queue') \ unsure' = active' \ unsure'
    BY <2>1, <2>3, <2>4, <2>5, <2>6 DEF FlagInv, Known
  <2> QED
    BY <2>5, <2>6 DEF FlagInv
<1>8. CASE EndParse
  <2>1. UNCHANGED <<active, unsure>>
    BY <1>8 DEF EndParse
  <2>2. Read
    BY <1>8, ReadFacts
  <2>3. CASE need_rescan
    BY <2>2, <2>3 DEF Read, FlagInv
  <2>4. CASE ~need_rescan
    <3>1. Numbers' = Numbers \cap existing
      BY <2>2, <2>4 DEF Read, Numbers
    <3>2. Numbers' \cup banned_irqs' = existing
      BY <2>2, <2>4, <3>1 DEF Read, FlagInv
    <3> QED
      BY <2>1, <2>2, <2>4, <3>2 DEF Read, FlagInv
  <2> QED
    BY <2>3, <2>4
<1>9. CASE Scan
  BY <1>9 DEF Scan, FlagInv, OpenProcInterrupts
<1>10. CASE Decide
  <2>1. UNCHANGED <<existing, unsure, active, need_rebuild>> /\ pc = "parsed"
        /\ Numbers' = Numbers /\ banned_irqs' = banned_irqs
    BY <1>10 DEF Decide, Numbers, Infos
  <2>2. pc' = "free" \/ (pc' = "idle" /\ (~need_rescan' => ~need_rescan))
    BY <1>10 DEF Decide
  <2> QED
    BY <2>1, <2>2 DEF FlagInv
<1>11. CASE Pci
  <2>1. /\ UNCHANGED <<existing, queue, need_rescan, need_rebuild, pc>>
        /\ Numbers' = Numbers /\ banned_irqs' = banned_irqs
        /\ unsure' = unsure \cup (active \ active') \cup (active' \ active)
        /\ pc # "parsed"
    BY <1>11 DEF Pci, Numbers, Infos
  <2>2. \A S : S \ unsure = active \ unsure => S \ unsure' = active' \ unsure'
    BY <2>1
  <2> QED
    BY <2>1, <2>2 DEF FlagInv
<1>12. CASE LineNoMemory
  <2>1. /\ UNCHANGED <<existing, need_rescan, active>> /\ pc = "parse" /\ pc' = "parse"
        /\ queue' = {} /\ unsure' = unsure \cup queue
        /\ Numbers' = Numbers /\ banned_irqs' = banned_irqs
    BY <1>12 DEF LineNoMemory, Numbers, Infos
  <2> QED
    BY <2>1 DEF FlagInv
<1>13. CASE ReadFails
  <2>1. /\ UNCHANGED <<existing, need_rescan, active>> /\ pc \in {"idle", "missing"}
        /\ pc' = "parsed" /\ unsure' = Numbers \cup banned_irqs \cup active
        /\ Numbers' = Numbers /\ banned_irqs' = banned_irqs
    BY <1>13 DEF ReadFails, Numbers, Infos
  <2> QED
    BY <2>1 DEF FlagInv
<1> QED
  BY <1>1, <1>2, <1>3, <1>4, <1>5, <1>6, <1>7, <1>8, <1>9, <1>10, <1>11, <1>12, <1>13, Steps
     DEF Aside

-----------------------------------------------------------------------------
(* Where an entry comes from                                               *)

\* The same devices give the same answer.
LEMMA ProviderStays ==
    ASSUME UNCHANGED <<machine, devices>>, NEW irq
    PROVE  Provider(irq)' = Provider(irq)
  BY DEF Provider, Provides, DeviceIrqs

\* What was as its device describes it still is, if the device answers for it still.
LEMMA AsStays ==
    ASSUME UNCHANGED <<machine, numa_nodes>>, NEW irq, Provider(irq)' = Provider(irq),
           Infos \subseteq Infos', banned_irqs \subseteq banned_irqs', AsProvided(irq)
    PROVE  AsProvided(irq)'
<1>1. PICK d : d = Provider(irq)
  OBVIOUS
<1>2. Entry(d, irq)' = Entry(d, irq) /\ Banned(d, irq)' = Banned(d, irq)
  BY SameEntry, SameBan
<1> QED
  BY <1>1, <1>2 DEF AsProvided

\* What its device, or its line, has just entered is as it describes it.
LEMMA AsEntered ==
    ASSUME UNCHANGED <<machine, numa_nodes, devices>>, NEW irq, NEW d, d = Provider(irq),
           Entered(d, irq)
    PROVE  AsProvided(irq)'
<1>1. Entry(d, irq)' = Entry(d, irq) /\ Banned(d, irq)' = Banned(d, irq)
      /\ Provider(irq)' = d
  BY SameEntry, SameBan, ProviderStays
<1> QED
  BY <1>1 DEF AsProvided, Entered

KnownAs == \A irq \in (Numbers \cup banned_irqs) \ (stale \cup faults) : AsProvided(irq)

\* A step of a read or of a rebuild that enters at most one irq, by its own device.
LEMMA KnownAsNext ==
    ASSUME UNCHANGED <<machine, numa_nodes, devices>>, KnownAs, NEW irq, NEW d,
           \/ SameDb
           \/ Entered(d, irq) /\ (irq \notin stale' \cup faults' => d = Provider(irq)),
           stale \subseteq stale' \cup {irq}, faults \subseteq faults' \cup {irq},
           SameDb /\ irq \in Numbers \cup banned_irqs =>
               irq \in stale' \cup faults' \/ irq \notin stale \cup faults
    PROVE  KnownAs'
<1> SUFFICES ASSUME NEW i \in (Numbers' \cup banned_irqs') \ (stale' \cup faults')
             PROVE  AsProvided(i)'
  BY DEF KnownAs
<1>1. Infos \subseteq Infos' /\ banned_irqs \subseteq banned_irqs'
  BY Remembered
<1>2. Provider(i)' = Provider(i)
  BY ProviderStays
<1>3. CASE i \in (Numbers \cup banned_irqs) \ (stale \cup faults)
  BY <1>1, <1>2, <1>3, AsStays DEF KnownAs
<1>4. CASE i \notin Numbers \cup banned_irqs
  <2>1. i = irq /\ Entered(d, irq) /\ ~SameDb
    <3>1. SameDb => Numbers' = Numbers
      BY DEF SameDb, Numbers
    <3> QED
      BY <1>4, <3>1, EnteredNumbers DEF SameDb
  <2> QED
    BY <2>1, AsEntered
<1>5. CASE i \in Numbers \cup banned_irqs /\ i \in stale \cup faults
  BY <1>5 DEF Entered, Known
<1> QED
  BY <1>3, <1>4, <1>5

\* A device that comes or goes makes its irqs stale, and is nothing to the others.
LEMMA PciFacts ==
    ASSUME Pci, NEW irq, irq \notin stale'
    PROVE  /\ irq \notin stale
           /\ Provider(irq)' = Provider(irq)
           /\ \A e \in devices' : irq \in DeviceIrqs(e) => e \in devices
<1>1. PICK d \in DevicePlaces :
        /\ devices' \in {devices, devices \cup {d}, devices \ {d}}
        /\ stale' = stale \cup IF devices' # devices THEN Range(machine.devices[d].irqs) ELSE {}
  BY DEF Pci, DevicePlaces
<1>2. machine' = machine /\ \A e : DeviceIrqs(e)' = DeviceIrqs(e)
  BY SamePlaces DEF Pci, kernelVars
<1>3. devices' = devices \/ irq \notin DeviceIrqs(d)
  BY <1>1 DEF DeviceIrqs
<1>4. { e \in devices' : irq \in DeviceIrqs(e) } = { e \in devices : irq \in DeviceIrqs(e) }
  BY <1>1, <1>3
<1>5. { e \in devices' : Provides(e, irq)' } = { e \in devices : Provides(e, irq) }
  BY <1>2, <1>4 DEF Provides
<1>6. Provider(irq)' = Provider(irq)
  BY <1>5 DEF Provider
<1> QED
  BY <1>1, <1>4, <1>6

\* However an irq gets into the database, it is there as its device describes it.
LEMMA SourceInvNext ==
    ASSUME machine \in Machines, DbType, KnownOnce, Emptied, SourceInv, Next
    PROVE  SourceInv'
<1> USE DEF pciVars, dbVars, ghostVars, irqDbVars
<1>k. KnownAs
  BY DEF SourceInv, KnownAs
<1>q. ASSUME KnownAs', pc' \notin {"devices", "missing"} PROVE SourceInv'
  BY <1>q DEF SourceInv, KnownAs
<1>m. machine' = machine /\ \A d : DeviceIrqs(d)' = DeviceIrqs(d)
  BY MachineStays, SamePlaces
<1>n. ASSUME ~Tree, ~GiveUp PROVE UNCHANGED numa_nodes
  BY <1>n, NodesStay
<1>1. CASE Tree \/ GiveUp
  <2>1. Numbers' = {} /\ banned_irqs' = {}
    BY <1>1, EmptyNext, NoListsNext
  <2>2. pc' \notin {"devices", "missing"}
    BY <1>1, GrownFacts DEF Grown, GiveUp, BuildPcs, CpuPcs
  <2> QED
    BY <1>q, <2>1, <2>2 DEF KnownAs
<1> SUFFICES ASSUME ~Tree, ~GiveUp PROVE SourceInv'
  BY <1>1
<1>u. UNCHANGED <<machine, numa_nodes>>
  BY <1>m, <1>n
<1>2. CASE CpuHotplug \/ Scan \/ Decide \/ LineNoMemory \/ ReadFails
  <2>1. UNCHANGED <<interrupts_db, banned_irqs>> /\ UNCHANGED <<devices, stale, faults>>
        /\ pc' \notin {"devices", "missing"}
    BY <1>2 DEF CpuHotplug, Hotplug, Scan, Decide, LineNoMemory, ReadFails, OpenProcInterrupts
  <2>2. SameDb
    BY <2>1, SameLists
  <2>3. KnownAs'
    BY <1>k, <1>u, <2>1, <2>2, KnownAsNext
  <2> QED
    BY <1>q, <2>1, <2>3
<1>3. CASE Pci
  <2>1. UNCHANGED <<interrupts_db, banned_irqs>> /\ UNCHANGED <<pc, queue, faults>>
    BY <1>3 DEF Pci
  <2>2. SameDb /\ Numbers' = Numbers
    BY <2>1, SameLists
  <2>3. \A irq : irq \notin stale' =>
          irq \notin stale /\ Provider(irq)' = Provider(irq)
          /\ \A e \in devices' : irq \in DeviceIrqs(e) => e \in devices
    BY <1>3, PciFacts
  <2>4. KnownAs'
    <3> SUFFICES ASSUME NEW i \in (Numbers' \cup banned_irqs') \ (stale' \cup faults')
                 PROVE  AsProvided(i)'
      BY DEF KnownAs
    <3>1. AsProvided(i) /\ Provider(i)' = Provider(i)
      BY <1>k, <2>1, <2>2, <2>3 DEF KnownAs
    <3> QED
      BY <1>u, <2>1, <2>2, <3>1, AsStays DEF SameDb
  <2>5. \A i : Known(i)' = Known(i)
    BY <2>1, <2>2 DEF Known
  <2> QED
    BY <1>m, <2>1, <2>3, <2>4, <2>5 DEF SourceInv, KnownAs
<1>4. CASE Collect
  <2>1. Numbers' = {} /\ banned_irqs' = {}
    BY <1>4, NoListsNext DEF Collect
  <2>2. pc' = "devices" /\ UNCHANGED devices
        /\ queue' = { next \in DevicePlaces \X AllIrqs : next[2] \in DeviceIrqs(next[1]) }
    BY <1>4 DEF Collect, DevicePlaces
  <2>3. ASSUME NEW d \in devices', NEW irq \in DeviceIrqs(d) PROVE <<d, irq>> \in queue'
    <3>1. d \in DevicePlaces /\ irq \in AllIrqs
      BY <2>2, DeviceFacts DEF DbType
    <3> QED
      BY <2>2, <3>1
  <2> QED
    BY <1>m, <2>1, <2>2, <2>3 DEF SourceInv
<1>5. CASE BuildDevIrqs
  <2>0. UNCHANGED <<stale, devices>> /\ Built
    BY <1>5, BuiltFacts DEF BuildDevIrqs
  <2>1. CASE pc' = "missing" /\ queue = {} /\ SameDb /\ UNCHANGED faults
    <3>1. KnownAs'
      BY <1>k, <1>u, <2>0, <2>1, KnownAsNext
    <3>2. \A d \in devices : \A irq \in DeviceIrqs(d) \ (stale \cup faults) : Known(irq)
      BY <2>0, <2>1 DEF Built, SourceInv
    <3>3. \A irq : Known(irq) => Known(irq)'
      BY <2>1 DEF SameDb, Known, Numbers
    <3> QED
      BY <1>m, <2>0, <2>1, <3>1, <3>2, <3>3 DEF SourceInv, KnownAs
  <2>2. CASE pc' = "devices"
    <3>1. PICK d \in DevicePlaces, irq \in AllIrqs :
            /\ <<d, irq>> \in queue /\ irq \in DeviceIrqs(d)
            /\ \A e, i : <<e, i>> \in queue => d <= e
            /\ queue' = queue \ {<<d, irq>>}
            /\ \/ d \in devices /\ Tried(d, irq)
               \/ d \notin devices /\ SameDb /\ UNCHANGED faults
      BY <2>0, <2>2 DEF Built
    <3>2. SameDb \/ Entered(d, irq)
      BY <3>1 DEF Tried
    <3>3. \A e \in devices : \A i \in DeviceIrqs(e) \ (stale \cup faults) :
              Known(i) \/ <<e, i>> \in queue
      BY <2>0 DEF Built, SourceInv
    <3>4. ASSUME Entered(d, irq), ~SameDb, irq \notin stale' \cup faults'
          PROVE  d = Provider(irq) /\ faults' = faults
      <4>1. d \in devices /\ faults' = faults /\ ~Known(irq)
        BY <3>1, <3>4 DEF Tried, Entered
      <4>2. \A e \in devices : irq \in DeviceIrqs(e) => d <= e
        BY <2>0, <3>1, <3>3, <3>4, <4>1
      <4> QED
        BY <3>1, <4>1, <4>2, ProviderFacts DEF DbType
    <3>5. faults \subseteq faults' /\ (SameDb /\ irq \in Numbers \cup banned_irqs => faults' = faults)
      <4>1. SameDb /\ irq \in Numbers \cup banned_irqs => Known(irq)
        BY DEF Known
      <4> QED
        BY <3>1, <4>1 DEF Tried, Entered
    <3>6. KnownAs'
      <4>1. CASE SameDb
        BY <1>k, <1>u, <2>0, <3>5, <4>1, KnownAsNext
      <4>2. CASE ~SameDb
        BY <1>k, <1>u, <2>0, <3>2, <3>4, <3>5, <4>2, KnownAsNext
      <4> QED
        BY <4>1, <4>2
    <3>7. ASSUME NEW e \in devices', NEW i \in DeviceIrqs(e) \ (stale' \cup faults')
          PROVE  Known(i)' \/ <<e, i>> \in queue'
      <4>1. Known(i) => Known(i)'
        BY <3>2, Remembered DEF Known
      <4>2. Entered(d, irq) => Known(irq)'
        BY EnteredNumbers DEF Known
      <4>3. Known(i) \/ <<e, i>> \in queue
        BY <2>0, <3>3, <3>5, <3>7
      <4>4. CASE <<e, i>> = <<d, irq>>
        <5>1. e = d /\ i = irq /\ d \in devices
          BY <2>0, <3>7, <4>4
        <5>2. Known(irq) \/ Entered(d, irq)
          BY <3>1, <3>7, <5>1 DEF Tried
        <5> QED
          BY <4>1, <4>2, <5>1, <5>2
      <4>5. CASE <<e, i>> # <<d, irq>>
        BY <3>1, <4>1, <4>3, <4>5
      <4> QED
        BY <4>4, <4>5
    <3> QED
      BY <1>m, <2>2, <3>6, <3>7 DEF SourceInv, KnownAs
  <2> QED
    BY <2>0, <2>1, <2>2 DEF Built
<1>6. CASE AddMissing
  <2>0. UNCHANGED <<stale, devices>> /\ Missed
    BY <1>6, MissedFacts DEF AddMissing
  <2>1. CASE pc' \in {"free", "parse"} /\ SameDb /\ UNCHANGED faults
    <3>1. KnownAs'
      BY <1>k, <1>u, <2>0, <2>1, KnownAsNext
    <3> QED
      BY <1>q, <2>1, <3>1
  <2>2. CASE pc' = "missing" /\ \E irq \in tmp_irqs : Tried(0, irq)
    <3>1. PICK irq \in tmp_irqs : Tried(0, irq)
      BY <2>2
    <3>2. SameDb \/ Entered(0, irq)
      BY <3>1 DEF Tried
    <3>3. \A e \in devices : \A i \in DeviceIrqs(e) \ (stale \cup faults) : Known(i)
      BY <2>0 DEF Missed, SourceInv
    <3>4. ASSUME Entered(0, irq), ~SameDb, irq \notin stale' \cup faults'
          PROVE  0 = Provider(irq)
      <4>1. faults' = faults /\ ~Known(irq)
        BY <3>1, <3>4 DEF Tried, Entered
      <4> QED
        BY <2>0, <3>3, <3>4, <4>1, ProviderFacts DEF DbType
    <3>5. faults \subseteq faults' /\ (SameDb /\ irq \in Numbers \cup banned_irqs => faults' = faults)
      <4>1. SameDb /\ irq \in Numbers \cup banned_irqs => Known(irq)
        BY DEF Known
      <4> QED
        BY <3>1, <4>1 DEF Tried, Entered
    <3>6. KnownAs'
      <4>1. CASE SameDb
        BY <1>k, <1>u, <2>0, <3>5, <4>1, KnownAsNext
      <4>2. CASE ~SameDb
        BY <1>k, <1>u, <2>0, <3>2, <3>4, <3>5, <4>2, KnownAsNext
      <4> QED
        BY <4>1, <4>2
    <3>7. \A i : Known(i) => Known(i)'
      BY <3>2, Remembered DEF Known
    <3> QED
      BY <1>m, <2>0, <2>2, <3>3, <3>5, <3>6, <3>7 DEF SourceInv, KnownAs
  <2> QED
    BY <2>0, <2>1, <2>2 DEF Missed
<1>7. CASE ParseLine
  <2>0. UNCHANGED devices /\ Parsed
    BY <1>7, ParsedFacts DEF ParseLine
  <2>1. PICK irq \in queue : \/ Known(irq) /\ SameDb /\ UNCHANGED <<faults, stale>>
                             \/ ~Known(irq) /\ Plugged(irq)
    BY <2>0 DEF Parsed
  <2>2. KnownAs'
    <3>1. CASE Known(irq) /\ SameDb /\ UNCHANGED <<faults, stale>>
      BY <1>k, <1>u, <2>0, <3>1, KnownAsNext
    <3>2. CASE ~Known(irq) /\ Plugged(irq)
      <4>0. irq \notin Numbers \cup banned_irqs
        BY <3>2 DEF Known
      <4>1. CASE SameDb /\ irq \in faults'
        BY <1>k, <1>u, <2>0, <3>2, <4>0, <4>1, KnownAsNext DEF Plugged
      <4>2. CASE \E d : Entered(d, irq) /\ (irq \notin faults' => d = Provider(irq))
        <5>1. PICK d : Entered(d, irq) /\ (irq \notin faults' => d = Provider(irq))
          BY <4>2
        <5> QED
          BY <1>k, <1>u, <2>0, <3>2, <4>0, <5>1, KnownAsNext DEF Plugged
      <4> QED
        BY <3>2, <4>1, <4>2 DEF Plugged
    <3> QED
      BY <2>1, <3>1, <3>2
  <2> QED
    BY <1>q, <2>0, <2>2 DEF Parsed
<1>8. CASE EndParse
  <2>0. UNCHANGED devices /\ Read
    BY <1>8, ReadFacts DEF EndParse
  <2>1. CASE need_rescan
    <3>1. KnownAs'
      BY <1>k, <1>u, <2>0, <2>1, KnownAsNext DEF Read
    <3> QED
      BY <1>q, <2>0, <3>1 DEF Read
  <2>2. CASE ~need_rescan
    <3>1. /\ Infos' = { info \in Infos : info.irq \in existing }
          /\ banned_irqs' = banned_irqs \cap existing
          /\ stale' = stale \cap existing /\ faults' = faults \cap existing
          /\ Numbers' = Numbers \cap existing
      BY <2>0, <2>2 DEF Read, Numbers
    <3>2. ASSUME NEW i \in (Numbers' \cup banned_irqs') \ (stale' \cup faults')
          PROVE  AsProvided(i)'
      <4>1. AsProvided(i) /\ i \in existing
        BY <1>k, <3>1, <3>2 DEF KnownAs
      <4>2. PICK d : d = Provider(i)
        OBVIOUS
      <4>3. Entry(d, i)' = Entry(d, i) /\ Banned(d, i)' = Banned(d, i)
            /\ Provider(i)' = d /\ Entry(d, i).irq = i
        BY <1>u, <2>0, <4>2, SameEntry, SameBan, ProviderStays, EntryIrq
      <4> QED
        BY <3>1, <4>1, <4>2, <4>3 DEF AsProvided
    <3> QED
      BY <1>q, <2>0, <3>2 DEF Read, KnownAs
  <2> QED
    BY <2>1, <2>2
<1> QED
  BY <1>2, <1>3, <1>4, <1>5, <1>6, <1>7, <1>8, Steps DEF Aside

-----------------------------------------------------------------------------
(* The database: the invariant as a whole                                  *)

\* The tree is changed by the steps of its build and by nothing else.
LEMMA TreeInvKept ==
    ASSUME TreeInv, Next
    PROVE  TreeInv'
<1> USE DEF kernelVars, treeVars, localVars
<1>1. CASE Tree \/ CpuHotplug
  BY <1>1, TreeInvNext DEF Tree, CpuHotplug, TreeStep
<1>2. CASE GiveUp
  <2>1. machine \in Machines /\ CpuIds' = CpuIds
    BY <1>2, SameMachine DEF GiveUp, TreeInv, TreeType
  <2>2. Bare'
    BY <1>2, <2>1 DEF GiveUp, TreeInv, TreeType, LocalTypes, Bare, BuildPcs, CpuPcs
  <2> QED
    BY <2>2, NoTree, PTL
<1>3. CASE ~(Tree \/ CpuHotplug \/ GiveUp)
  <2>1. /\ pc \notin BuildPcs \cup {"free"} /\ pc' \notin BuildPcs
        /\ UNCHANGED <<kernelVars, need_rebuild, treeVars, localVars, disturbed, late>>
    BY <1>3 DEF Next, Daemon, DbStep, Collect, BuildDevIrqs, AddMissing, ParseLine,
       LineNoMemory, ReadFails, EndParse, Scan, Decide, Pci, OpenProcInterrupts, BuildPcs, CpuPcs
  <2> QED
    BY <2>1, TreeStays
<1> QED
  BY <1>1, <1>2, <1>3

\* The same for the undisturbed build; the tree that is thrown away after the third try
\* had failed.
LEMMA ExactInvKept ==
    ASSUME TreeInv, ExactInv, NodeInv, Next
    PROVE  ExactInv'
<1> USE DEF kernelVars, treeVars, localVars
<1>1. CASE Tree \/ CpuHotplug
  BY <1>1, ExactInvNext DEF Tree, CpuHotplug, TreeStep
<1>2. CASE GiveUp
  BY <1>2 DEF GiveUp, NodeInv, ExactInv, RebuildTries
<1>3. CASE ~(Tree \/ CpuHotplug \/ GiveUp)
  <2>1. /\ pc \notin BuildPcs \cup {"free"} /\ pc' \notin BuildPcs
        /\ UNCHANGED <<kernelVars, need_rebuild, treeVars, disturbed>>
    BY <1>3 DEF Next, Daemon, DbStep, Collect, BuildDevIrqs, AddMissing, ParseLine,
       LineNoMemory, ReadFails, EndParse, Scan, Decide, Pci, OpenProcInterrupts, BuildPcs, CpuPcs
  <2> QED
    BY <2>1, ExactStays
<1> QED
  BY <1>1, <1>2, <1>3

\* It holds when scan() decides to rebuild.
LEMMA RebuildInit ==
    ASSUME Init
    PROVE  RebuildInv
<1>1. machine \in Machines /\ online = machine.online
  BY DEF Init, TreeInit
<1>2. TreeInv
  <2>1. Bare
    BY <1>1, MachineFacts DEF Init, TreeInit, Bare, BuildPcs, CpuPcs
  <2> QED
    BY <2>1, NoTree
<1>e. ExactInv
  BY DEF Init, TreeInit, ExactInv, TreeRight, TreeBuilt, BuildPcs, CpuPcs
<1>3. Infos = {} /\ Numbers = {} /\ Listlike /\ banned_irqs = {} /\ interrupts_db = <<>>
  BY NoLists DEF Init, DbInit
<1>4. pc = "free" /\ try_times = 0
  BY DEF Init, TreeInit
<1>5. DbType
  BY <1>3, <1>4 DEF Init, DbInit, DbType, Listlike, DevicePlaces
<1>6. Emptied /\ Described /\ NodeInv /\ FlagInv /\ SourceInv
  BY <1>3, <1>4 DEF Emptied, Described, NodeInv, FlagInv, SourceInv, BuildPcs, CpuPcs
<1> QED
  BY <1>2, <1>e, <1>3, <1>5, <1>6 DEF RebuildInv, DbInv, Listlike

\* Every step keeps it.
LEMMA RebuildStep ==
    ASSUME RebuildInv, [Next]_vars
    PROVE  RebuildInv'
<1>1. CASE Next
  <2>1. machine \in Machines
    BY DEF RebuildInv, TreeInv, TreeType
  <2> QED
    BY <1>1, <2>1, TreeInvKept, ExactInvKept, ListsNext, DbTypeNext, EmptiedNext, DescribedNext, NodeInvNext,
       FlagInvNext, SourceInvNext DEF RebuildInv, DbInv
<1>2. CASE UNCHANGED vars
  <2>1. UNCHANGED <<machine, online, pc, try_times, need_rebuild, numa_nodes, packages,
                    cache_domains, cpus, cpu_online_map, todo, cpu, package_mask, cache_mask,
                    disturbed, late, devices, active, queue, tmp_irqs, interrupts_db, banned_irqs,
                    existing, need_rescan, stale, unsure, faults>>
    BY <1>2 DEF vars, cpuTreeVars, irqDbVars, kernelVars, treeVars, localVars, pciVars, dbVars,
       ghostVars
  <2>2. TreeInv'
    <3>1. TreeType' /\ Linked' /\ Masked' /\ HasCpu'
      BY <2>1
         DEF RebuildInv, TreeInv, TreeType, TreeTypes, LocalTypes, MaskInv, Linked, Masked,
         HasCpu, CpuIds, banned_cpus, NodeNumbers, Object, Node
    <3>2. Early'
      BY <2>1 DEF RebuildInv, TreeInv, MaskInv, Early, InNode, Inside, Siblings, numa_avail
    <3>3. FailInv'
      BY <2>1 DEF RebuildInv, TreeInv, FailInv, AllListed, WaysUp, Counted, NodeOfCpu,
         FailureNoticed, CpusBelow, CachesBelow, TreeBuilt, banned_cpus, numa_avail
    <3> QED
      BY <3>1, <3>2, <3>3 DEF TreeInv, MaskInv
  <2>e. ExactInv'
    <3>1. ASSUME ~disturbed, ~need_rebuild, pc \in BuildPcs PROVE Exact'
      <4>1. Exact
        BY <3>1 DEF RebuildInv, ExactInv
      <4>2. \A c : CacheMask(c)' = CacheMask(c) /\ WholeMask(c)' = WholeMask(c)
        BY <2>1 DEF CacheMask, WholeMask, Siblings, NodeMask, unbanned_cpus, CpuIds, banned_cpus,
           numa_avail
      <4>3. ExactReads' /\ ExactCpus' /\ ExactNodes'
        BY <2>1, <4>1 DEF Exact, ExactReads, ExactCpus, ExactNodes, Siblings, NodeMask, CpuIds,
           banned_cpus, numa_avail
      <4>4. ExactMasks' /\ ExactLinks'
        BY <2>1, <4>1, <4>2 DEF Exact, ExactMasks, ExactLinks
      <4> QED
        BY <4>3, <4>4 DEF Exact
    <3>2. ASSUME ~disturbed, ~need_rebuild PROVE TreeRight'
      BY <2>1, <3>2, RightStays DEF RebuildInv, ExactInv, TreeBuilt, kernelVars, treeVars
    <3> QED
      BY <2>1, <3>1, <3>2 DEF ExactInv
  <2>3. /\ Infos' = Infos /\ Numbers' = Numbers /\ KnownOnce' /\ Emptied' /\ NodeInv' /\ FlagInv'
        /\ DevicePlaces' = DevicePlaces /\ AllIrqs' = AllIrqs
        /\ \A d : DeviceIrqs(d)' = DeviceIrqs(d)
    <3>1. Infos' = Infos /\ Numbers' = Numbers /\ UNCHANGED machine
      BY <2>1 DEF Infos, Numbers
    <3>2. KnownOnce' /\ Emptied' /\ NodeInv' /\ FlagInv'
      BY <2>1, <3>1 DEF RebuildInv, DbInv, KnownOnce, Emptied, NodeInv, Rooted, FlagInv
    <3> QED
      BY <3>1, <3>2, SamePlaces
  <2>4. DbType'
    BY <2>1, <2>3 DEF RebuildInv, DbInv, DbType
  <2>5. Described'
    <3>1. \A info, d : DescribedBy(info, d) => DescribedBy(info, d)'
      BY <2>1, DescribedStays
    <3> QED
      BY <2>3, <3>1 DEF RebuildInv, DbInv, Described, DescribedBy
  <2>6. SourceInv'
    <3>1. \A irq : AsProvided(irq) => AsProvided(irq)'
      BY <2>1, <2>3, ProviderStays, AsStays
    <3>2. \A irq : Known(irq)' = Known(irq)
      BY <2>1, <2>3 DEF Known
    <3> QED
      BY <2>1, <2>3, <3>1, <3>2 DEF RebuildInv, DbInv, SourceInv
  <2> QED
    BY <2>2, <2>e, <2>3, <2>4, <2>5, <2>6 DEF RebuildInv, DbInv
<1> QED
  BY <1>1, <1>2

-----------------------------------------------------------------------------
(* What follows                                                            *)

\* A node is found for every entry once the unspecified node is listed.
LEMMA EntryNode ==
    ASSUME machine \in Machines, NUMA_NO_NODE \in DOMAIN numa_nodes, NEW d, NEW irq
    PROVE  Entry(d, irq).numa_node \in DOMAIN numa_nodes
<1>1. \A n : NodeFor(n) \in DOMAIN numa_nodes
  BY DEF NodeFor, Listed, NodeNumber
<1>2. \E n : Entry(d, irq).numa_node = NodeFor(n)
  BY DEF Entry, add_one_irq_to_db
<1> QED
  BY <1>1, <1>2

\* No irq is placed by a null node.
LEMMA NodesListed ==
    ASSUME RebuildInv
    PROVE  NodeListed
<1> SUFFICES ASSUME pc = "idle", NEW info \in Infos
             PROVE  info.numa_node \in DOMAIN numa_nodes
  BY DEF NodeListed
<1>1. machine \in Machines /\ NUMA_NO_NODE \in DOMAIN numa_nodes
  BY DEF RebuildInv, TreeInv, TreeType, DbInv, NodeInv, Rooted
<1>2. PICK d : info = Entry(d, info.irq)
  BY DEF RebuildInv, DbInv, Described
<1> QED
  BY <1>1, <1>2, EntryNode

\* What is known is what a rebuild would find.
LEMMA SameAs ==
    ASSUME RebuildInv
    PROVE  SameAsRebuilt
<1>1. KnowsAll
  BY DEF RebuildInv, DbInv, FlagInv, KnowsAll, Settled
<1>2. KnownAlike
  <2>1. ASSUME Settled, NEW irq \in active \ (stale \cup unsure \cup faults)
        PROVE  AsProvided(irq)
    BY <1>1, <2>1 DEF KnowsAll, RebuildInv, DbInv, SourceInv
  <2> QED
    BY <2>1 DEF KnownAlike, AsProvided, Entry
<1> QED
  BY <1>1, <1>2 DEF SameAsRebuilt, RebuildInv, DbInv

\* The script that accepts an irq first is the one whose policy counts.
LEMMA FirstScript ==
    ASSUME machine \in Machines, NEW irq, NEW k \in Accepting(irq), k = First(Accepting(irq))
    PROVE  /\ get_irq_user_policy(irq) = Policy(Scripts[k].says[irq].lines)
           /\ k \in 1 .. Len(Scripts)
<1>1. k \in 1 .. Len(Scripts) /\ k # 0
  BY DEF Accepting, Runnable
<1>2. LastRun(irq) = k /\ Accepting(irq) # {}
  BY DEF LastRun
<1> QED
  BY <1>1, <1>2 DEF get_irq_user_policy

\* An entry of a banned irq has no maker.
LEMMA BansAreHeld ==
    ASSUME RebuildInv
    PROVE  BansHold
<1>m. machine \in Machines
  BY DEF RebuildInv, TreeInv, TreeType
<1> SUFFICES ASSUME NEW irq \in Numbers
             PROVE  /\ irq \notin machine.cl_banned_irqs
                    /\ \A k \in Accepting(irq) :
                        k = First(Accepting(irq)) => Says(Scripts[k].says[irq].lines, "ban") # 1
                    /\ \E d \in {0} \cup { e \in DevicePlaces : irq \in DeviceIrqs(e) } :
                        ModuleName(d, irq) \cap machine.cl_banned_modules = {}
                    /\ Settled /\ irq \notin stale \cup unsure \cup faults =>
                        ModuleName(Provider(irq), irq) \cap machine.cl_banned_modules = {}
  BY DEF BansHold, DevicePlaces
<1>1. PICK d \in {0} \cup { e \in DevicePlaces : irq \in DeviceIrqs(e) } : ~Banned(d, irq)
  BY DEF RebuildInv, DbInv, Described, Numbers
<1>2. irq \notin machine.cl_banned_irqs
  BY <1>1 DEF Banned, check_for_irq_ban
<1>3. ASSUME NEW k \in Accepting(irq), k = First(Accepting(irq))
      PROVE  Says(Scripts[k].says[irq].lines, "ban") # 1
  <2>1. get_irq_user_policy(irq) = Policy(Scripts[k].says[irq].lines)
    BY <1>m, <1>3, FirstScript
  <2> QED
    BY <1>1, <2>1 DEF Banned, Policy
<1>4. ASSUME Settled, irq \notin stale \cup unsure \cup faults
      PROVE  ~check_for_irq_ban(Provider(irq), irq)
  <2>1. AsProvided(irq) /\ irq \notin banned_irqs
    BY <1>4 DEF RebuildInv, DbInv, SourceInv, KnownOnce
  <2> QED
    BY <2>1 DEF AsProvided, Banned
<1>5. \A e : ~check_for_irq_ban(e, irq) =>
            ModuleName(e, irq) \cap machine.cl_banned_modules = {}
  BY DEF check_for_irq_ban, ModuleName
<1> QED
  BY <1>1, <1>2, <1>3, <1>4, <1>5 DEF Banned

\* A set of numbers that is bounded from above has a greatest one.
LEMMA GreatestNumber ==
    ASSUME NEW n \in Nat, NEW S, S \subseteq 1 .. n, S # {}
    PROVE  Max(S) \in S
<1> DEFINE T == { n - x : x \in S }
<1>0. \A x \in S : n - x \in Int /\ 0 <= n - x
  OBVIOUS
<1>1. T \subseteq Int /\ T # {} /\ 0 \in Int /\ \A x \in T : 0 <= x
  <2>1. T # {}
    OBVIOUS
  <2>2. \A t \in T : t \in Int /\ 0 <= t
    BY <1>0, Zenon
  <2> QED
    BY <2>1, <2>2
<1>2. PICK m \in T : \A k \in T : m <= k
  <2> HIDE DEF T
  <2> QED
    BY <1>1, LeastNumber
<1>3. PICK g \in S : m = n - g
  BY <1>2
<1>4. \A y \in S : g >= y
  <2> SUFFICES ASSUME NEW y \in S PROVE g >= y
    OBVIOUS
  <2>1. n - y \in T
    OBVIOUS
  <2>2. n - g <= n - y
    BY <1>2, <1>3, <2>1
  <2> QED
    BY <2>2
<1> QED
  BY <1>3, <1>4, Zenon DEF Max

\* What a script says for a key is the value of a line that says something, if it has one.
LEMMA SaysFacts ==
    ASSUME NEW S, NEW lines \in Seq(S), NEW key
    PROVE  IF \E l \in Range(lines) : l.key = key /\ Meant(l)
           THEN \E l \in Range(lines) : l.key = key /\ Meant(l) /\ Says(lines, key) = l.value
           ELSE Says(lines, key) = -1
<1> DEFINE said == { k \in 1 .. Len(lines) : lines[k].key = key /\ Meant(lines[k]) }
<1>1. Says(lines, key) = IF said = {} THEN -1 ELSE lines[Max(said)].value
  BY Zenon DEF Says
<1>2. DOMAIN lines = 1 .. Len(lines) /\ Len(lines) \in Nat
  OBVIOUS
<1>3. (\E l \in Range(lines) : l.key = key /\ Meant(l)) <=> said # {}
  BY <1>2, Zenon DEF Range
<1>4. said \subseteq 1 .. Len(lines)
  OBVIOUS
<1>5. \A k \in said : lines[k] \in Range(lines) /\ lines[k].key = key /\ Meant(lines[k])
  BY <1>2, Zenon DEF Range
<1> HIDE DEF said
<1>6. said # {} => Max(said) \in said
  BY <1>2, <1>4, GreatestNumber
<1> QED
  BY <1>1, <1>3, <1>5, <1>6

\* The script of an irq and nothing else decides over its level and its node.
LEMMA PolicyIsHonoured ==
    ASSUME RebuildInv
    PROVE  PolicyHonoured
<1>m. machine \in Machines
  BY DEF RebuildInv, TreeInv, TreeType
<1> SUFFICES ASSUME NEW info \in Infos, NEW k \in Accepting(info.irq),
                    k = First(Accepting(info.irq))
             PROVE  LET lines == Scripts[k].says[info.irq].lines
                        given(key) == \E l \in Range(lines) : l.key = key /\ Meant(l)
                        unknown == \E d \in 1 .. Len(machine.devices) :
                                      /\ info.irq \in Range(machine.devices[d].irqs)
                                      /\ get_irq_class(machine.devices[d].pci) = NODEF
                    IN  /\ \/ info.level = IF given("balance_level")
                                           THEN Says(lines, "balance_level")
                                           ELSE DefaultLevel(info.class)
                           \/ unknown /\ info.level = BALANCE_NONE
                        /\ TreeBuilt /\ ~need_rebuild /\ given("numa_node") =>
                           info.numa_node = NodeNumber(Says(lines, "numa_node"))
  BY DEF PolicyHonoured
<1>1. PICK d \in {0} \cup DevicePlaces : DescribedBy(info, d)
  BY DEF RebuildInv, DbInv, Described, DescribedBy
<1>2. PICK lines : lines = Scripts[k].says[info.irq].lines
  OBVIOUS
<1>3. lines \in Seq(Range(lines)) /\ get_irq_user_policy(info.irq) = Policy(lines)
  <2>1. k \in 1 .. Len(Scripts) /\ get_irq_user_policy(info.irq) = Policy(lines)
    BY <1>m, <1>2, FirstScript
  <2>2. Scripts[k] \in Range(Scripts)
    <3>1. Scripts \in Seq(Range(Scripts))
      BY <1>m, DeviceAssumption DEF Scripts
    <3> QED
      BY <2>1, <3>1
  <2>3. info.irq \in AllIrqs
    BY <1>1 DEF DescribedBy
  <2> QED
    BY <1>m, <1>2, <2>1, <2>2, <2>3, DeviceAssumption DEF Scripts, AllIrqs
<1> DEFINE given(key) == \E l \in Range(lines) : l.key = key /\ Meant(l)
           level == Says(lines, "balance_level")
           class == IF d = 0 THEN Hint(d, info.irq).class
                    ELSE get_irq_class(machine.devices[d].pci)
           read == IF d = 0 THEN machine.lines[info.irq].node ELSE machine.devices[d].node
<1>4. IF given("balance_level") THEN level \in 0 .. 3 ELSE level = -1
  <2>1. \A l : l.key = "balance_level" /\ Meant(l) => l.value \in 0 .. 3
    BY DEF Meant
  <2> QED
    BY <1>3, <2>1, SaysFacts
<1>5. given("numa_node") => Listed(Says(lines, "numa_node"))
  <2>1. \A l : l.key = "numa_node" /\ Meant(l) => Listed(l.value)
    BY DEF Meant
  <2> QED
    BY <1>3, <2>1, SaysFacts
<1>6. /\ info.class = IF class = NODEF THEN Hint(d, info.irq).class ELSE class
      /\ info.level = IF class = NODEF THEN BALANCE_NONE
                      ELSE IF level >= 0 THEN level ELSE DefaultLevel(class)
      /\ info.numa_node = NodeFor(IF given("numa_node") THEN Says(lines, "numa_node") ELSE read)
  BY <1>1, <1>3 DEF DescribedBy, Entry, add_one_irq_to_db, Policy
<1>7. d = 0 => class # NODEF
  BY DEF Hint, NODEF, OTHER_IRQ, VIRT_EVENT
<1>8. d # 0 => /\ d \in 1 .. Len(machine.devices)
               /\ info.irq \in Range(machine.devices[d].irqs)
               /\ class = get_irq_class(machine.devices[d].pci)
  BY <1>1, <1>m, DeviceFacts DEF DescribedBy, DevicePlaces
<1>9. given("numa_node") => info.numa_node = NodeNumber(Says(lines, "numa_node"))
  BY <1>5, <1>6 DEF NodeFor
<1> HIDE DEF class, level
<1>10. class # NODEF =>
         info.level = IF given("balance_level") THEN level ELSE DefaultLevel(info.class)
  BY <1>4, <1>6
<1>11. class = NODEF => info.level = BALANCE_NONE /\ d # 0
  BY <1>6, <1>7
<1> QED
  BY <1>2, <1>8, <1>9, <1>10, <1>11 DEF level

-----------------------------------------------------------------------------
(* The theorems                                                            *)

\* The invariant of the rebuilds holds for ever.
THEOREM RebuildInductive == Spec => []RebuildInv
<1>1. Init => RebuildInv
  BY RebuildInit
<1>2. RebuildInv /\ [Next]_vars => RebuildInv'
  BY RebuildStep
<1> QED
  BY <1>1, <1>2, PTL DEF Spec

\* The masks of packages and cache domains never offer a banned cpu, and have the cpus
\* below them: do_one_cpu and what it calls, on any machine, with cpus that come and go
\* between any two reads of sysfs.
THEOREM TreeMasksHold == Spec => []MasksHold
<1>1. RebuildInv => MasksHold
  BY TreeInvImplies DEF RebuildInv
<1> QED
  BY <1>1, RebuildInductive, PTL

\* An allocation that fails anywhere in the build is noticed: need_rebuild is set, or
\* every listed cpu can be reached from a node.
THEOREM TreeFailureNoticed == Spec => []FailureNoticed
<1>1. RebuildInv => FailureNoticed
  BY TreeInvImplies DEF RebuildInv, FailureNoticed
<1> QED
  BY <1>1, RebuildInductive, PTL

\* Where no cpu came or went during the build and no allocation failed, the tree is the
\* machine: parse_cpu_tree, do_one_cpu and connect_cpu_mem_topo, for any number of cpus,
\* caches, packages and nodes, with and without libnuma, and any bans.
THEOREM TreeIsTheMachine == Spec => []TreeRight
<1>1. RebuildInv => TreeRight
  BY DEF RebuildInv, ExactInv, TreeRight
<1> QED
  BY <1>1, RebuildInductive, PTL

\* No irq is balanced with a null node: a scan after a failed rebuild rebuilds again.
THEOREM IrqNodeListed == Spec => []NodeListed
<1>1. RebuildInv => NodeListed
  BY NodesListed
<1> QED
  BY <1>1, RebuildInductive, PTL

\* The database is the one that a rebuild would give now, for any devices, lines and
\* order in which they come and go; but for irqs that have come or gone since the last
\* read, whose device directory has since they were read, or that an allocation or a
\* read has failed for.  The next read that is whole is held to the irqs again.
THEOREM DbSameAsRebuilt == Spec => []SameAsRebuilt
<1>1. RebuildInv => SameAsRebuilt
  BY SameAs
<1> QED
  BY <1>1, RebuildInductive, PTL

\* No irq is in the database that is banned by number, by its script, or by every module
\* name it can be found by; and none of a banned module is there when the daemon is at
\* rest, but for an irq whose device has come or gone, or that an allocation or a read
\* has failed for.
THEOREM DbBansHold == Spec => []BansHold
<1>1. RebuildInv => BansHold
  BY BansAreHeld
<1> QED
  BY <1>1, RebuildInductive, PTL

\* The first script that accepts an irq, and no other, decides its level and node: the
\* level is the one it gives or that of the class, except where the device has none.
THEOREM DbPolicyHonoured == Spec => []PolicyHonoured
<1>1. RebuildInv => PolicyHonoured
  BY PolicyIsHonoured
<1> QED
  BY <1>1, RebuildInductive, PTL
=============================================================================
