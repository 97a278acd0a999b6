------------------------------ MODULE CpuTree -------------------------------
(***************************************************************************)
(* Building the object tree from sysfs (numa.c, cputree.c): the list of    *)
(* NUMA nodes, then for every cpu directory its cache domain and package.  *)
(* Every file is a read of its own, and cpus come and go in between.       *)
(*                                                                         *)
(* A layout says which package, cache and node a cpu is part of; sysfs     *)
(* shows the online part of it.  Objects of a GList are numbered in the    *)
(* order in which they were added, 0 is the null pointer.                  *)
(***************************************************************************)
EXTENDS Integers, Sequences, FiniteSets, SequencesExt

CONSTANTS
    Machines         \* the machines: layout, libnuma, cpus online at first and bans,
                     \* what may happen to it ("offline", "online", "nomem" or
                     \* "device") and, a bound, how often it may: `events'

ASSUME MachineAssumption ==
    \A m \in Machines :
        LET CpuIds == DOMAIN m.node
        IN  /\ IsFiniteSet(CpuIds) /\ CpuIds \subseteq Nat
            /\ m.online \subseteq CpuIds /\ m.banned \subseteq CpuIds
            /\ m.numa_avail \in BOOLEAN
            /\ m.troubles \subseteq {"offline", "online", "nomem", "device"}
            /\ m.events \in Nat
            /\ m.package \in [CpuIds -> Nat] /\ m.cache \in [CpuIds -> Nat]
            /\ m.node \in [CpuIds -> Nat]

\* A cache domain lies within one package and one node.
ASSUME NestedAssumption ==
    \A m \in Machines : \A c, d \in DOMAIN m.node :
        m.cache[c] = m.cache[d] => m.package[c] = m.package[d] /\ m.node[c] = m.node[d]

NUMA_NO_NODE == -1

VARIABLES
    machine,             \* which one it is; never changes
    online,              \* the kernel's online cpus
    pc,                  \* where the build is
    try_times,
    need_rebuild,
    numa_nodes,          \* the listed nodes, by number
    packages, cache_domains, cpus,
    cpu_online_map,
    todo,                \* nodes, then cpu directories, not yet visited
    cpu,                 \* the cpu of do_one_cpu
    package_mask, cache_mask,
    disturbed,           \* ghost: a cpu has come or gone since the build began
    late,                \* ghost: cpus that have come since
    events               \* how often something may still happen

treeVars == <<numa_nodes, packages, cache_domains, cpus, cpu_online_map>>
localVars == <<todo, cpu, package_mask, cache_mask>>
kernelVars == <<machine, online>>
cpuTreeVars == <<kernelVars, pc, try_times, need_rebuild, treeVars, localVars, disturbed,
                 late, events>>

Event == events > 0 /\ events' = events - 1

CpuIds == DOMAIN machine.node      \* the cpus that have a directory
numa_avail == machine.numa_avail
banned_cpus == machine.banned
unbanned_cpus == CpuIds \ banned_cpus
Troubles == machine.troubles

TreeInit ==
    /\ machine \in Machines /\ online = machine.online
    /\ pc = "free" /\ try_times = 0 /\ need_rebuild = FALSE
    /\ numa_nodes = <<>> /\ packages = <<>> /\ cache_domains = <<>> /\ cpus = <<>>
    /\ cpu_online_map = {}
    /\ todo = {} /\ cpu = 0 /\ package_mask = {} /\ cache_mask = {}
    /\ disturbed = FALSE /\ late = {} /\ events = machine.events

-----------------------------------------------------------------------------
(* The kernel.  The files of an offline cpu are gone, the link to its node *)
(* is not.                                                                 *)

Siblings(part, c) == { d \in online : part[d] = part[c] }

\* Cpu hotplug, while the tree is built.
Hotplug ==
    /\ pc \in {"nodes", "visit", "package", "cache", "add"}
    /\ Event
    /\ \/ "offline" \in Troubles /\ \E c \in online : online' = online \ {c}
       \/ "online" \in Troubles /\ \E c \in CpuIds \ online : online' = online \cup {c}
    /\ online' # {}
    /\ disturbed' = TRUE
    /\ late' = late \cup (online' \ online)
    /\ UNCHANGED <<machine, pc, try_times, need_rebuild, treeVars, localVars>>

-----------------------------------------------------------------------------
(* The NUMA nodes                                                          *)

\* free_object_tree; build_numa_node_list begins with the unspecified node.
StartBuild ==
    /\ pc = "free"
    /\ numa_nodes' = <<>> /\ packages' = <<>> /\ cache_domains' = <<>> /\ cpus' = <<>>
    /\ cpu_online_map' = {}
    /\ try_times' = try_times + 1 /\ need_rebuild' = FALSE
    /\ todo' = {NUMA_NO_NODE} \cup IF numa_avail THEN Range(machine.node) ELSE {}
    /\ disturbed' = FALSE /\ late' = {}
    /\ pc' = "nodes"
    /\ UNCHANGED <<kernelVars, cpu, package_mask, cache_mask, events>>

NodeMask(n) == IF n = NUMA_NO_NODE THEN CpuIds
               ELSE { c \in online : machine.node[c] = n }

\* Faulty variant: the failure is passed over.
NoMemory_Silent == "nomem" \in Troubles /\ Event /\ UNCHANGED need_rebuild

\* An allocation fails.
NoMemory == "nomem" \in Troubles /\ Event /\ need_rebuild' = TRUE

\* A list of objects that are found by their number, with one more.
With(list, number, object) ==
    [n \in DOMAIN list \cup {number} |-> IF n = number THEN object ELSE list[n]]

\* add_one_node reads the node's cpumap.
add_one_node ==
    /\ pc = "nodes" /\ todo # {}
    /\ LET n == CHOOSE m \in todo : \A k \in todo : m <= k
       IN  /\ todo' = todo \ {n}
           /\ \/ /\ numa_nodes' = With(numa_nodes, n, [mask |-> NodeMask(n), children |-> {}])
                 /\ UNCHANGED <<need_rebuild, events>>
              \/ NoMemory /\ UNCHANGED numa_nodes
    /\ UNCHANGED <<kernelVars, pc, try_times, packages, cache_domains, cpus, cpu_online_map,
                   cpu, package_mask, cache_mask, disturbed, late>>

\* The number get_numa_node looks for; it may not be listed.
NodeNumber(n) == IF numa_avail THEN n ELSE NUMA_NO_NODE
Listed(n) == NodeNumber(n) \in DOMAIN numa_nodes

-----------------------------------------------------------------------------
(* The cpus                                                                *)

\* parse_cpu_tree opens the directory of the cpus.
StartCpus ==
    /\ pc = "nodes" /\ todo = {}
    /\ todo' = CpuIds /\ pc' = "visit"
    /\ UNCHANGED <<kernelVars, try_times, need_rebuild, treeVars, cpu, package_mask,
                   cache_mask, disturbed, late, events>>

\* do_one_cpu: a cpu that is offline or banned goes no further, and neither does one
\* there is no memory for.
Visit ==
    /\ pc = "visit"
    /\ \E c \in todo :
        /\ todo' = todo \ {c} /\ cpu' = c
        /\ \/ /\ c \notin online
              /\ UNCHANGED <<pc, cpu_online_map, need_rebuild, events>>
           \/ /\ c \in online
              /\ cpu_online_map' = cpu_online_map \cup {c}
              /\ pc' = IF c \in banned_cpus THEN "visit" ELSE "package"
              /\ UNCHANGED <<need_rebuild, events>>
           \/ /\ c \in online /\ NoMemory
              /\ UNCHANGED <<pc, cpu_online_map>>
    /\ UNCHANGED <<kernelVars, try_times, numa_nodes, packages, cache_domains, cpus,
                   package_mask, cache_mask, disturbed, late>>

\* core_siblings; without the file the cpu is taken to be alone
ReadPackage ==
    /\ pc = "package"
    /\ package_mask' = IF cpu \in online THEN Siblings(machine.package, cpu) ELSE {cpu}
    /\ pc' = "cache"
    /\ UNCHANGED <<kernelVars, try_times, need_rebuild, treeVars, todo, cpu, cache_mask,
                   disturbed, late, events>>

\* shared_cpu_map of the deepest cache, likewise
ReadCache ==
    /\ pc = "cache"
    /\ cache_mask' = IF cpu \in online THEN Siblings(machine.cache, cpu) ELSE {cpu}
    /\ pc' = "add"
    /\ UNCHANGED <<kernelVars, try_times, need_rebuild, treeVars, todo, cpu, package_mask,
                   disturbed, late, events>>

\* Faulty variant: the banned cpus stay in the mask.
PackageMask_Whole(n) ==
    LET cut == Listed(n) /\ Cardinality(package_mask) > Cardinality(numa_nodes[n].mask)
    IN  IF numa_avail /\ cut THEN package_mask \cap numa_nodes[n].mask ELSE package_mask

\* With several nodes in a package, the mask of the node replaces that of the
\* package; then the banned cpus are taken out.
PackageMask(n) ==
    LET cut == Listed(n) /\ Cardinality(package_mask) > Cardinality(numa_nodes[n].mask)
    IN  unbanned_cpus \cap
            IF numa_avail /\ cut THEN package_mask \cap numa_nodes[n].mask ELSE package_mask

\* The object of a list with this mask, or the place of a new one.
Place(list, mask) ==
    IF \E k \in 1 .. Len(list) : list[k].mask = mask
    THEN CHOOSE k \in 1 .. Len(list) :
            list[k].mask = mask /\ \A j \in 1 .. k - 1 : list[j].mask # mask
    ELSE Len(list) + 1

\* The list with `child' and `nodes' in the object at place k.
Put(list, k, mask, child, nodes) ==
    LET old == IF k <= Len(list) THEN list[k]
               ELSE [mask |-> mask, children |-> {}, numa_nodes |-> {}, parent |-> 0]
        new == [old EXCEPT !.children = @ \cup {child}, !.numa_nodes = @ \cup nodes]
    IN  IF k <= Len(list) THEN [list EXCEPT ![k] = new] ELSE Append(list, new)

\* add_numa_node_to_topo_obj: the node an object is given
NodesOf(n) == IF ~Listed(n) \/ (numa_avail /\ n = NUMA_NO_NODE) THEN {} ELSE {NodeNumber(n)}

\* add_cpu_to_cache_domain and add_cache_domain_to_package; either may find no memory
\* for a new object, and the cpu is listed all the same.  Without libnuma the package
\* is hung under the unspecified node at once.
AddCpu ==
    /\ pc = "add"
    /\ LET n == IF numa_avail THEN machine.node[cpu] ELSE NUMA_NO_NODE
           cmask == cache_mask \cap unbanned_cpus
           pmask == PackageMask(n)
           ck == Place(cache_domains, cmask)
           pk == Place(packages, pmask)
           caches == Put(cache_domains, ck, cmask, cpu, NodesOf(n))
           pkgs == Put(packages, pk, pmask, ck, NodesOf(n))
           moves == pk > Len(packages) \/ ck \notin packages[pk].children
           hang == ~numa_avail /\ NodesOf(n) # {}
       IN  \/ /\ cache_domains' =
                    IF moves THEN [caches EXCEPT ![ck].parent = pk] ELSE caches
              /\ packages' =
                    IF hang THEN [pkgs EXCEPT ![pk].parent = NUMA_NO_NODE] ELSE pkgs
              /\ numa_nodes' =
                    IF hang THEN [numa_nodes EXCEPT ![NUMA_NO_NODE].children =
                                                        @ \cup {<<"package", pk>>}]
                    ELSE numa_nodes
              /\ cpus' = With(cpus, cpu, ck)
              /\ UNCHANGED <<need_rebuild, events>>
           \/ /\ NoMemory
              /\ \/ /\ ck > Len(cache_domains)
                    /\ cpus' = With(cpus, cpu, 0)
                    /\ UNCHANGED cache_domains
                 \/ /\ pk > Len(packages)
                    /\ cpus' = With(cpus, cpu, ck)
                    /\ cache_domains' = caches
              /\ UNCHANGED <<packages, numa_nodes>>
    /\ pc' = "visit"
    /\ UNCHANGED <<kernelVars, try_times, cpu_online_map, localVars, disturbed, late>>

\* Faulty variant: a package with several nodes is left alone.
Connected_Skips(n) ==
    LET whole == { p \in 1 .. Len(packages) : packages[p].numa_nodes = {n} }
    IN  { <<"package", k>> : k \in whole }

\* connect_cpu_mem_topo: what is hung under node n, a package that is on no other or
\* a cache domain of a package that is on several.
Connected(n) ==
    LET whole == { p \in 1 .. Len(packages) : packages[p].numa_nodes = {n} }
        split == { p \in 1 .. Len(packages) : Cardinality(packages[p].numa_nodes) > 1 }
        below == UNION { packages[p].children : p \in split }
    IN  { <<"package", k>> : k \in whole }
        \cup { <<"cache", k>> : k \in { c \in below : cache_domains[c].numa_nodes = {n} } }

\* The tree is complete; rebuild_irq_db is next.
Connect ==
    /\ pc = "visit" /\ todo = {}
    /\ numa_nodes' = [n \in DOMAIN numa_nodes |->
                         [numa_nodes[n] EXCEPT !.children = @ \cup Connected(n)]]
    /\ packages' = [k \in 1 .. Len(packages) |->
                       LET nodes == packages[k].numa_nodes
                       IN  IF Cardinality(nodes) = 1 /\ packages[k].parent = 0
                           THEN [packages[k] EXCEPT !.parent = CHOOSE n \in nodes : TRUE]
                           ELSE packages[k]]
    /\ pc' = "collect"
    /\ UNCHANGED <<kernelVars, try_times, need_rebuild, cache_domains, cpus, cpu_online_map,
                   localVars, disturbed, late, events>>

BuildTree == \/ StartBuild \/ add_one_node \/ StartCpus \/ Visit \/ ReadPackage
             \/ ReadCache \/ AddCpu \/ Connect

-----------------------------------------------------------------------------
(* Properties                                                              *)

TreeBuilt == pc \notin {"free", "nodes", "visit", "package", "cache", "add"}

CacheHolds(k, c) == c \in cache_domains[k].children

\* The cpus below a node, and whether there is only one way down to each.
CachesBelow(n) ==
    LET under(type, list) ==
            { k \in 1 .. Len(list) : <<type, k>> \in numa_nodes[n].children }
    IN  (UNION { packages[p].children : p \in under("package", packages) })
        \cup under("cache", cache_domains)

CpusBelow(n) == UNION { cache_domains[k].children : k \in CachesBelow(n) }

\* A package is part of a node, or a node part of a package, or they are apart.
Nested ==
    \A c \in CpuIds :
        LET package == { d \in CpuIds : machine.package[d] = machine.package[c] }
            node == { d \in CpuIds : machine.node[d] = machine.node[c] }
        IN  package \subseteq node \/ node \subseteq package

\* Where nothing came in between, the tree is the machine: the online cpus that are
\* not banned, each in one cache domain, that in one package and that under one node,
\* which is the cpu's own, and every mask is exactly the cpus below (for a package only
\* if none lies across two nodes).
TreeRight ==
    TreeBuilt /\ ~disturbed /\ ~need_rebuild =>
        /\ DOMAIN cpus = online \ banned_cpus
        /\ \A c \in DOMAIN cpus :
            { k \in 1 .. Len(cache_domains) : CacheHolds(k, c) } = {cpus[c]}
        /\ \A k \in 1 .. Len(cache_domains) :
            /\ cache_domains[k].mask = cache_domains[k].children
            /\ { p \in 1 .. Len(packages) : k \in packages[p].children }
                  = {cache_domains[k].parent}
        /\ Nested => \A p \in 1 .. Len(packages) :
            packages[p].mask = UNION { cache_domains[k].mask : k \in packages[p].children }
        /\ \A n \in DOMAIN numa_nodes :
            CpusBelow(n) = { c \in DOMAIN cpus :
                               n = IF numa_avail THEN machine.node[c] ELSE NUMA_NO_NODE }

\* Whatever comes and goes during the build: no package or cache domain offers a banned
\* cpu; a cpu of the tree is in the mask of its cache domain, and in that of its
\* package, unless it, or a cpu beside it, has come after the mask of the node was read.
MasksHold ==
    /\ \A o \in Range(packages) \cup Range(cache_domains) : o.mask \cap banned_cpus = {}
    /\ \A c \in DOMAIN cpus :
        cpus[c] # 0 =>
            /\ c \in cache_domains[cpus[c]].mask
            /\ cache_domains[cpus[c]].parent # 0 /\ late = {} =>
                  c \in packages[cache_domains[cpus[c]].parent].mask

\* An allocation that fails is noticed: while no rebuild is asked for, every cpu that
\* is listed can be reached from a node, whatever came and went during the build.
FailureNoticed ==
    TreeBuilt /\ ~need_rebuild =>
        /\ DOMAIN cpus = UNION { CpusBelow(n) : n \in DOMAIN numa_nodes }
        /\ cpu_online_map = DOMAIN cpus \cup (cpu_online_map \cap banned_cpus)
=============================================================================
