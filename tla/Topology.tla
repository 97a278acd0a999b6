------------------------------ MODULE Topology ------------------------------
(***************************************************************************)
(* The object tree the balancer works on (struct topo_obj, types.h): NUMA  *)
(* nodes, packages, cache domains and cpus.  cputree.c and numa.c build it *)
(* from sysfs; between two rescans it does not change, so here it is a     *)
(* constant.  The lists the code keeps as GLists are sequences.  Banned    *)
(* cpus have a number but no object (do_one_cpu frees them).               *)
(***************************************************************************)
EXTENDS Naturals, Sequences, SequencesExt

CONSTANTS
    Objects,        \* the topo_obj structures
    NULL,           \* the null pointer
    CpuIds,         \* cpu numbers the kernel knows, banned ones included
    obj_type,       \* [Objects -> ObjTypes]
    numa_nodes, packages, cache_domains, cpus,   \* the four global GLists
    children,       \* [Objects -> Seq(Objects)]
    parent,         \* [Objects -> Objects \cup {NULL}]
    mask,           \* [Objects -> SUBSET CpuIds]
    NoNode,         \* the unspecified node, number NUMA_NO_NODE
    numa_avail,     \* BOOLEAN: libnuma found NUMA support
    cpu_online_map, \* cpus that were online when the tree was built
    banned_cpus     \* isolated, nohz_full, thermal or user-banned cpus

\* enum obj_type_e
ObjTypes == {"CPU", "CACHE", "PACKAGE", "NODE"}

ASSUME NullAssumption == NULL \notin Objects

ASSUME TreeAssumption ==
    /\ obj_type \in [Objects -> ObjTypes]
    /\ children \in [Objects -> Seq(Objects)]
    /\ parent \in [Objects -> Objects \cup {NULL}]
    /\ mask \in [Objects -> SUBSET CpuIds]
    /\ NoNode \in Objects

ASSUME ListAssumption ==
    /\ numa_nodes \in Seq(Objects)
    /\ packages \in Seq(Objects)
    /\ cache_domains \in Seq(Objects)
    /\ cpus \in Seq(Objects)
    /\ \A k \in DOMAIN cpus : obj_type[cpus[k]] = "CPU"
    /\ \A k \in DOMAIN numa_nodes : obj_type[numa_nodes[k]] = "NODE"

ASSUME MaskAssumption ==
    /\ cpu_online_map \subseteq CpuIds
    /\ banned_cpus \subseteq CpuIds
    /\ numa_avail \in BOOLEAN

\* How high up in the tree objects of a type are.
Rank(type) ==
    CASE type = "CPU" -> 0 [] type = "CACHE" -> 1
      [] type = "PACKAGE" -> 2 [] type = "NODE" -> 3

\* An object hangs under one of a higher type (add_cpu_to_cache_domain,
\* add_cache_domain_to_package, connect_cpu_mem_topo), and is listed when it is made; its
\* parent is set where it is added to the parent's children.
ASSUME LayerAssumption ==
    /\ \A o \in Objects : \A c \in Range(children[o]) :
          Rank(obj_type[c]) < Rank(obj_type[o])
    /\ \A o \in Objects : parent[o] # NULL => o \in Range(children[parent[o]])
    /\ Range(numa_nodes) = { o \in Objects : obj_type[o] = "NODE" }
    /\ obj_type[NoNode] = "NODE"
    /\ Range(packages) = { o \in Objects : obj_type[o] = "PACKAGE" }
    /\ Range(cache_domains) = { o \in Objects : obj_type[o] = "CACHE" }

unbanned_cpus == CpuIds \ banned_cpus

\* The object itself or nothing: what a struct topo_obj pointer may hold.
Holders == Objects \cup {NULL}

ChildSet(S) == UNION { Range(children[o]) : o \in S }

\* The objects a walk down from numa_nodes meets.  The tree is at most four
\* levels deep: node, package, cache domain, cpu.
Reachable ==
    LET n == Range(numa_nodes)
        p == ChildSet(n)
        c == ChildSet(p)
    IN  n \cup p \cup c \cup ChildSet(c)

\* The cpus below an object in the order of a depth-first walk
\* (find_best_cpu_under_obj).
CpusUnder[o \in Objects] ==
    IF obj_type[o] = "CPU" THEN <<o>>
    ELSE FlattenSeq([k \in DOMAIN children[o] |-> CpusUnder[children[o][k]]])

\* The closest ancestor of the given type, NULL if there is none: the parent
\* walk of try_fallback_cpu.
Ancestor(o, type) ==
    LET up[p \in Holders] ==
            IF p = NULL \/ obj_type[p] = type THEN p ELSE up[parent[p]]
    IN  up[parent[o]]

-----------------------------------------------------------------------------
(* Conditions that most machines meet and the code does not enforce.  The  *)
(* theorems that need one name it.                                         *)

\* The cpus of an object are cpus of the object it hangs under.  sysfs lists the cpus of
\* a cache within those of its package, and do_one_cpu cuts a package to its node.
MasksNest ==
    \A o \in Objects : \A c \in Range(children[o]) : mask[c] \subseteq mask[o]

\* An object hangs under its parent and under nothing else.  (When a package spans two
\* nodes connect_cpu_mem_topo may hang a cache under a node other than its package's.)
Mirrored ==
    \A o, c \in Objects : c \in Range(children[o]) <=> parent[c] = o

\* Every cpu can be reached from a node, if not always through its parent.  (Where sysfs
\* gives a package no node connect_cpu_mem_topo leaves the package, and its cpus, loose.)
CpusReached == \A c \in Objects : obj_type[c] = "CPU" => c \in Reachable

\* A node calculate_placement may choose.
Usable(n) == ~(numa_avail /\ n = NoNode) /\ mask[n] \cap unbanned_cpus # {}

\* No package, cache domain or cpu offers a banned cpu and each has one that is online
\* (MasksHold of CpuTree), and a node that can be used has more than cpus under it.
CleanTree ==
    /\ \A o \in Objects : obj_type[o] # "NODE" =>
          mask[o] \cap banned_cpus = {} /\ mask[o] \cap cpu_online_map # {}
    /\ \A n \in Range(numa_nodes) : Usable(n) =>
          \E c \in Range(children[n]) : obj_type[c] # "CPU"
=============================================================================
