------------------------------- MODULE IrqDb --------------------------------
(***************************************************************************)
(* The irq database (classify.c, procinterrupts.c): what is known of an    *)
(* irq and where that comes from, the PCI device it belongs to, the line   *)
(* of /proc/interrupts, the command line and the user's policy scripts.    *)
(* It is rebuilt with the tree; irqs that come and go later are added and  *)
(* removed one by one.                                                     *)
(*                                                                         *)
(* A machine of CpuTree also has devices, in the order of their directory, *)
(* lines of /proc/interrupts, bans and scripts.  The name of a driver or   *)
(* of a line is the set of module names that occur in it (strstr).         *)
(***************************************************************************)
EXTENDS CpuTree

NODEF == -1
OTHER_IRQ == 0
VIRT_EVENT == 7
BALANCE_NONE == 0

ASSUME DeviceAssumption ==
    \A m \in Machines :
        /\ IsFiniteSet(DOMAIN m.lines) /\ DOMAIN m.lines \subseteq Nat
        /\ m.devices \in Seq(Range(m.devices))
        /\ \A d \in Range(m.devices) : Range(d.irqs) \subseteq DOMAIN m.lines
        /\ m.cl_banned_irqs \subseteq DOMAIN m.lines
        /\ m.policy.scripts \in Seq(Range(m.policy.scripts))
        /\ \A s \in Range(m.policy.scripts) :
              /\ DOMAIN s.says = DOMAIN m.lines
              /\ \A i \in DOMAIN m.lines : s.says[i].lines \in Seq(Range(s.says[i].lines))

VARIABLES
    devices,         \* the devices that have a directory, by place
    active,          \* the irqs that have a line in /proc/interrupts
    queue,           \* what rebuild_irq_db or parse_proc_interrupts has yet to visit
    tmp_irqs,
    interrupts_db, banned_irqs,
    existing,        \* the irqs whose flag is set
    need_rescan,
    stale,           \* ghost: irqs whose device has come or gone since they were read
    unsure,          \* ghost: irqs that have come or gone since the last read began, or
                     \* that it did not come to for lack of memory
    faults           \* ghost: irqs an allocation has failed for since the rebuild

dbVars == <<tmp_irqs, interrupts_db, banned_irqs, existing>>
pciVars == <<devices, active>>
ghostVars == <<stale, unsure, faults>>
irqDbVars == <<pciVars, queue, dbVars, need_rescan, ghostVars>>

AllIrqs == DOMAIN machine.lines
First(S) == CHOOSE k \in S : \A j \in S : k <= j

DbInit ==
    /\ devices \in SUBSET (1 .. Len(machine.devices))
    /\ active = AllIrqs \ UNION { Range(machine.devices[d].irqs) :
                                    d \in (1 .. Len(machine.devices)) \ devices }
    /\ queue = {} /\ tmp_irqs = {} /\ interrupts_db = <<>> /\ banned_irqs = {}
    /\ existing = {} /\ need_rescan = FALSE /\ stale = {} /\ unsure = {}
    /\ faults = {}

-----------------------------------------------------------------------------
(* The class of a device                                                   *)

\* By the major class code; 12 goes by the sub-class.
major_class_codes == <<0, 2, 4, 3, 0, 0, 1, 0, 0, 1, 0, 0, NODEF, 4, 2, 0, 0, 0, 1, 1>>

serial_sub_codes(sub) ==
    CASE sub \in {4, 6} -> 2
      [] sub \in 10 .. 127 -> NODEF
      [] OTHER -> 1

map_pci_irq_class(pci) ==
    CASE pci.major >= Len(major_class_codes) -> NODEF
      [] pci.major = 12 /\ pci.sub > 128 -> NODEF
      [] pci.major = 12 /\ pci.sub <= 128 -> serial_sub_codes(pci.sub)
      [] OTHER -> major_class_codes[pci.major + 1]

\* get_irq_class with get_pci_info and apply_pci_quirks: three boards are storage
\* whatever they say, if what they say is a class at all.
get_irq_class(pci) ==
    IF ~pci.readable \/ map_pci_irq_class(pci) = NODEF THEN NODEF
    ELSE IF pci.emc_board THEN 2
    ELSE map_pci_irq_class(pci)

\* map_class_to_level
DefaultLevel(class) == IF class = 0 THEN 1 ELSE IF class = 1 THEN 2 ELSE 3

-----------------------------------------------------------------------------
(* The user's policy                                                       *)

\* parse_user_policy_key: the lines that say something
Meant(line) ==
    CASE line.key = "ban" -> line.value \in {0, 1}
      [] line.key = "balance_level" -> line.value \in 0 .. 3
      [] line.key = "numa_node" -> Listed(line.value)
      [] OTHER -> FALSE

\* The last line for a key, -1 where there is none.
Says(lines, key) ==
    LET said == { k \in 1 .. Len(lines) : lines[k].key = key /\ Meant(lines[k]) }
    IN  IF said = {} THEN -1 ELSE lines[Max(said)].value

\* run_script_for_policy: struct user_irq_policy from what a script prints
Policy(lines) ==
    [ban |-> Says(lines, "ban"), level |-> Says(lines, "balance_level"),
     numa_node_set |-> \E l \in Range(lines) : l.key = "numa_node" /\ Meant(l),
     numa_node |-> Says(lines, "numa_node")]

Scripts == machine.policy.scripts
Runnable == { k \in 1 .. Len(Scripts) : Scripts[k].executable }
Accepting(irq) == { k \in Runnable : Scripts[k].says[irq].code = 0 }

\* The script that is run last for the irq, the first one that accepts it; 0 for none.
LastRun(irq) ==
    IF Accepting(irq) # {} THEN First(Accepting(irq))
    ELSE IF Runnable # {} THEN Max(Runnable)
    ELSE 0

\* Faulty variant: what one script has said stays for the next.
get_irq_user_policy_Mixes(irq) ==
    LET says(k) == IF k \in Runnable THEN Scripts[k].says[irq].lines ELSE <<>>
    IN  IF ~machine.policy.is_dir /\ Accepting(irq) = {} THEN Policy(<<>>)
        ELSE Policy(FlattenSeq([k \in 1 .. LastRun(irq) |-> says(k)]))

\* A single script counts when it exits with 0.  Of a directory the first one that
\* does so is the last that is run; if none does, what the last one said is kept.
get_irq_user_policy(irq) ==
    IF LastRun(irq) = 0 \/ (~machine.policy.is_dir /\ Accepting(irq) = {})
    THEN Policy(<<>>)
    ELSE Policy(Scripts[LastRun(irq)].says[irq].lines)

-----------------------------------------------------------------------------
(* Adding an irq.  A device is given by its place, 0 is the null path of an *)
(* irq that no device directory knows of.                                   *)

\* build_one_dev_entry: irq 0 is no device's, and 255 in the configuration space
\* means none.
DeviceIrqs(d) ==
    LET dev == machine.devices[d]
    IN  { i \in Range(dev.irqs) : i # 0 /\ (dev.msi \/ i # 255) }

Provides(d, irq) == d \in devices /\ irq \in DeviceIrqs(d)

\* The hint of add_new_irq: type and class before the device is looked at.
Hint(d, irq) ==
    IF d # 0
    THEN [type |-> IF machine.devices[d].msi THEN "msix" ELSE "legacy", class |-> OTHER_IRQ]
    ELSE IF machine.lines[irq].xen_event
    THEN [type |-> "virt_event", class |-> VIRT_EVENT]
    ELSE [type |-> "legacy", class |-> OTHER_IRQ]

\* Faulty variant: an irq that no device knows is not looked up by its name.
check_for_irq_ban_Driver(d, irq) ==
    LET mod == IF d = 0 THEN {} ELSE machine.devices[d].driver
    IN  irq \in machine.cl_banned_irqs \/ mod \cap machine.cl_banned_modules # {}

\* check_for_irq_ban: by number, or by the driver of the device, or, for an irq of no
\* device, by the name of its line.
check_for_irq_ban(d, irq) ==
    LET mod == IF d = 0 THEN machine.lines[irq].name ELSE machine.devices[d].driver
    IN  irq \in machine.cl_banned_irqs \/ mod \cap machine.cl_banned_modules # {}

\* get_numa_node, and the unspecified node for one that is not listed; "null" when
\* not even that one is.
NodeFor(n) ==
    IF Listed(n) THEN NodeNumber(n)
    ELSE IF Listed(NUMA_NO_NODE) THEN NUMA_NO_NODE
    ELSE "null"

\* add_one_irq_to_db.  Where the class of a device is unknown the level is never set.
add_one_irq_to_db(d, irq, pol) ==
    LET class == IF d = 0 THEN Hint(d, irq).class ELSE get_irq_class(machine.devices[d].pci)
        read == IF d = 0 THEN machine.lines[irq].node ELSE machine.devices[d].node
    IN  [irq |-> irq, type |-> Hint(d, irq).type,
         class |-> IF class = NODEF THEN Hint(d, irq).class ELSE class,
         level |-> IF class = NODEF THEN BALANCE_NONE
                   ELSE IF pol.level >= 0 THEN pol.level
                   ELSE DefaultLevel(class),
         numa_node |-> NodeFor(IF pol.numa_node_set THEN pol.numa_node ELSE read)]

Infos == Range(interrupts_db)
Numbers == { i.irq : i \in Infos }

\* get_irq_info
Known(irq) == irq \in Numbers \cup banned_irqs

Banned(d, irq) == get_irq_user_policy(irq).ban = 1 \/ check_for_irq_ban(d, irq)

\* add_new_irq, where there is memory
add_new_irq(d, irq) ==
    \/ Known(irq) /\ UNCHANGED <<interrupts_db, banned_irqs>>
    \/ /\ ~Known(irq) /\ Banned(d, irq)
       /\ banned_irqs' = banned_irqs \cup {irq}
       /\ UNCHANGED interrupts_db
    \/ /\ ~Known(irq) /\ ~Banned(d, irq)
       /\ interrupts_db' = Append(interrupts_db,
                                  add_one_irq_to_db(d, irq, get_irq_user_policy(irq)))
       /\ UNCHANGED banned_irqs

\* parse_proc_interrupts opens its file.
OpenProcInterrupts == pc' = "parse" /\ queue' = active /\ unsure' = {}

\* A step of rebuild_irq_db adds this irq, or fails to.
AddOrFail(d, irq) ==
    \/ add_new_irq(d, irq) /\ UNCHANGED <<faults, events>>
    \/ /\ ~Known(irq) /\ "nomem" \in Troubles /\ Event
       /\ faults' = faults \cup {irq}
       /\ UNCHANGED <<interrupts_db, banned_irqs>>

-----------------------------------------------------------------------------
(* rebuild_irq_db                                                          *)

\* free_irq_db and collect_full_irq_list, which leaves out a line there is no memory
\* for, alone (calloc) or with all that follow (strdup); then the directory of the
\* devices is opened.
Collect ==
    /\ pc = "collect"
    /\ interrupts_db' = <<>> /\ banned_irqs' = {} /\ existing' = {}
    /\ \/ tmp_irqs' = active /\ faults' = {} /\ UNCHANGED events
       \/ \E i \in active :
            /\ "nomem" \in Troubles /\ Event
            /\ tmp_irqs' \in { active \ {i}, { j \in active : j < i } }
            /\ faults' = active \ tmp_irqs'
    /\ queue' = { next \in (1 .. Len(machine.devices)) \X AllIrqs :
                     next[2] \in DeviceIrqs(next[1]) }
    /\ stale' = {}
    /\ pc' = "devices"
    /\ UNCHANGED <<unsure, kernelVars, pciVars, try_times, need_rebuild, need_rescan,
                   treeVars, localVars, disturbed, late>>

\* build_dev_irqs(-1), one irq of one device at a time, in the order of the directory
\* of the devices; the order within a device is any.
BuildDevIrqs ==
    /\ pc = "devices"
    /\ \/ /\ \E next \in queue :
                LET d == next[1]  irq == next[2]
                IN  /\ \A other \in queue : d <= other[1]
                    /\ IF d \in devices THEN AddOrFail(d, irq)
                       ELSE UNCHANGED <<interrupts_db, banned_irqs, faults, events>>
                    /\ queue' = queue \ {next}
          /\ UNCHANGED pc
       \/ /\ queue = {}
          /\ pc' = "missing"
          /\ UNCHANGED <<queue, interrupts_db, banned_irqs, faults, events>>
    /\ UNCHANGED <<kernelVars, pciVars, try_times, need_rebuild, need_rescan, treeVars,
                   localVars, tmp_irqs, existing, stale, unsure, disturbed, late>>

\* add_missing_irq; in the end scan() tries the whole tree again, or reads
\* /proc/interrupts.
AddMissing ==
    /\ pc = "missing"
    /\ \/ /\ tmp_irqs # {}
          /\ AddOrFail(0, First(tmp_irqs))
          /\ tmp_irqs' = tmp_irqs \ {First(tmp_irqs)}
          /\ UNCHANGED <<pc, queue, unsure>>
       \/ /\ tmp_irqs = {}
          /\ \/ need_rebuild /\ pc' = "free" /\ UNCHANGED <<queue, unsure>>
             \/ ~need_rebuild /\ OpenProcInterrupts
          /\ UNCHANGED <<tmp_irqs, interrupts_db, banned_irqs, faults, events>>
    /\ UNCHANGED <<kernelVars, pciVars, try_times, need_rebuild, need_rescan, treeVars,
                   localVars, existing, stale, disturbed, late>>

-----------------------------------------------------------------------------
(* parse_proc_interrupts, as far as the database goes                      *)

\* Faulty variant: only the line is looked at.
ProcIrqHotplug_Line(irq, tried) ==
    /\ tried = 0 /\ add_new_irq(0, irq)
    /\ faults' = faults \ {irq} /\ stale' = stale \ {irq}
    /\ UNCHANGED events

\* proc_irq_hotplug: a device that has the irq, the first there is memory for, or the
\* line itself.  `tried' of them failed.
ProcIrqHotplug(irq, tried) ==
    LET has == { d \in devices : Provides(d, irq) }
    IN  /\ tried > 0 => "nomem" \in Troubles
        /\ events' = events - tried
        /\ faults' = IF tried > 0 THEN faults \cup {irq} ELSE faults \ {irq}
        /\ stale' = stale \ {irq}
        /\ \/ \E d \in has : /\ Cardinality({ e \in has : e < d }) = tried
                             /\ add_new_irq(d, irq)
           \/ tried = Cardinality(has) /\ add_new_irq(0, irq)
           \/ tried = Cardinality(has) + 1 /\ UNCHANGED <<interrupts_db, banned_irqs>>

Columns == Cardinality(online)
num_online_cpus == Cardinality(cpu_online_map)

\* A line: an irq that is not known is added; if that fails, or the number of cpus
\* has changed, the rest is not read.
ParseLine ==
    /\ pc = "parse" /\ queue # {}
    /\ LET irq == First(queue)
           failed == irq \notin { i.irq : i \in Range(interrupts_db') } \cup banned_irqs'
       IN  /\ \/ /\ Known(irq)
                 /\ UNCHANGED <<interrupts_db, banned_irqs, faults, stale, events>>
              \/ ~Known(irq) /\ \E tried \in 0 .. events : ProcIrqHotplug(irq, tried)
           /\ existing' = IF failed THEN existing ELSE existing \cup {irq}
           /\ need_rescan' = (need_rescan \/ failed \/ Columns # num_online_cpus)
           /\ queue' = IF failed \/ Columns # num_online_cpus THEN {} ELSE queue \ {irq}
    /\ UNCHANGED <<kernelVars, pciVars, pc, try_times, need_rebuild, treeVars, localVars,
                   tmp_irqs, unsure, disturbed, late>>

\* There is no memory for a line, to read or to copy it: the rest is not read either,
\* and nothing says so.
LineNoMemory ==
    /\ pc = "parse" /\ queue # {}
    /\ "nomem" \in Troubles /\ Event
    /\ queue' = {}
    /\ unsure' = unsure \cup queue
    /\ UNCHANGED <<kernelVars, pciVars, pc, try_times, need_rebuild, need_rescan, treeVars,
                   localVars, dbVars, stale, faults, disturbed, late>>

\* /proc/interrupts, or its first line, cannot be read.
ReadFails ==
    /\ pc = "idle" \/ (pc = "missing" /\ tmp_irqs = {} /\ ~need_rebuild)
    /\ "nomem" \in Troubles /\ Event
    /\ pc' = "parsed"
    /\ unsure' = Numbers \cup banned_irqs \cup active
    /\ UNCHANGED <<kernelVars, pciVars, queue, try_times, need_rebuild, need_rescan,
                   treeVars, localVars, dbVars, stale, faults, disturbed, late>>

\* clear_no_existing_irqs, with the flags.  What stays keeps its order.
clear_no_existing_irqs ==
    /\ LET kept == { k \in 1 .. Len(interrupts_db) : interrupts_db[k].irq \in existing }
           n == Cardinality(kept)
       IN  \E place \in Bijection(1 .. n, kept) :
              /\ \A j, k \in 1 .. n : j < k => place[j] < place[k]
              /\ interrupts_db' = [k \in 1 .. n |-> interrupts_db[place[k]]]
    /\ banned_irqs' = banned_irqs \cap existing
    /\ existing' = {}
    /\ stale' = stale \cap existing /\ faults' = faults \cap existing

\* The end of the read.
EndParse ==
    /\ pc = "parse" /\ queue = {}
    /\ IF need_rescan THEN UNCHANGED <<interrupts_db, banned_irqs, existing, stale, faults>>
       ELSE clear_no_existing_irqs
    /\ pc' = "parsed"
    /\ UNCHANGED <<kernelVars, pciVars, queue, try_times, need_rebuild, need_rescan,
                   treeVars, localVars, tmp_irqs, unsure, disturbed, late, events>>

-----------------------------------------------------------------------------
(* The kernel.  A driver requests and frees the irqs of its device, and    *)
(* the directory of a device comes and goes.                               *)

Shared(d) ==
    UNION { Range(machine.devices[e].irqs) : e \in devices \ {d} }

Pci ==
    /\ "device" \in Troubles
    /\ pc \in {"devices", "missing", "parse", "idle"}
    /\ Event
    /\ \E d \in 1 .. Len(machine.devices) :
        LET irqs == Range(machine.devices[d].irqs)
        IN  /\ \/ d \notin devices /\ devices' = devices \cup {d}
                  /\ active' \in {active, active \cup irqs}
               \/ d \in devices /\ devices' \in {devices, devices \ {d}}
                  /\ active' = active \ (irqs \ Shared(d))
               \/ d \in devices /\ ~(irqs \subseteq active)
                  /\ devices' = devices /\ active' = active \cup irqs
            /\ stale' = stale \cup IF devices' # devices THEN irqs ELSE {}
    /\ unsure' = unsure \cup (active \ active') \cup (active' \ active)
    /\ UNCHANGED <<kernelVars, pc, try_times, need_rebuild, need_rescan, treeVars,
                   localVars, queue, dbVars, faults, disturbed, late>>

DbStep ==
    \/ Collect \/ BuildDevIrqs \/ AddMissing
    \/ ParseLine \/ LineNoMemory \/ ReadFails \/ EndParse

-----------------------------------------------------------------------------
(* Properties                                                              *)

\* No irq is in the lists twice, whichever of two devices and of the two ways to find
\* it came first: one that is free()d twice, or is both balanced and banned.
KnownOnce ==
    /\ \A j, k \in 1 .. Len(interrupts_db) :
          interrupts_db[j].irq = interrupts_db[k].irq => j = k
    /\ Numbers \cap banned_irqs = {}

\* The device directory that answers for an irq today.
Provider(irq) ==
    LET has == { d \in devices : Provides(d, irq) }
    IN  IF has = {} THEN 0 ELSE First(has)

Settled == pc = "idle" /\ ~need_rescan /\ ~need_rebuild

\* After a read that asks for no rescan the database holds the irqs of /proc/interrupts,
\* all of them and no other.  Exempt are the irqs that have come or gone since it began,
\* and those it did not come to because memory ran out, which it drops: the next read
\* that is whole must have put them right.
KnowsAll == Settled => (Numbers \cup banned_irqs) \ unsure = active \ unsure

\* An irq that came later is known as if it had been there at the last rebuild,
\* and one that was there as if it had come later; unless its device directory has
\* come or gone since it was read, there was no memory for it, or the last read did not
\* come to it.
KnownAlike ==
    Settled =>
        \A irq \in active \ (stale \cup unsure \cup faults) :
            LET d == Provider(irq)
            IN  IF Banned(d, irq) THEN irq \in banned_irqs
                ELSE add_one_irq_to_db(d, irq, get_irq_user_policy(irq)) \in Infos

\* However irqs, devices and reads came in between, the database is the one that a
\* rebuild would give now: every irq of /proc/interrupts once, as its device or its
\* line describes it; but for the irqs that KnowsAll and KnownAlike exempt.
SameAsRebuilt == KnownOnce /\ KnowsAll /\ KnownAlike

\* The name an irq is banned by when it is found by this device, or by its line.
ModuleName(d, irq) == IF d = 0 THEN machine.lines[irq].name ELSE machine.devices[d].driver

\* A banned irq is not in the database.  By number, and by the script that answers for
\* it, it never is.  By module it is not when every name it can be found by, its line's
\* and the driver's of each device that has it, is banned; when only some are, it is
\* judged by its first device (or by its line, if it has none) as soon as the daemon is
\* at rest, unless its device directory has come or gone since it was read, an
\* allocation has failed for it, or the last read did not come to it.
BansHold ==
    \A irq \in Numbers :
        /\ irq \notin machine.cl_banned_irqs
        /\ \A k \in Accepting(irq) :
            k = First(Accepting(irq)) => Says(Scripts[k].says[irq].lines, "ban") # 1
        /\ \E d \in {0} \cup { e \in 1 .. Len(machine.devices) : irq \in DeviceIrqs(e) } :
            ModuleName(d, irq) \cap machine.cl_banned_modules = {}
        /\ Settled /\ irq \notin stale \cup unsure \cup faults =>
            ModuleName(Provider(irq), irq) \cap machine.cl_banned_modules = {}

\* What the first script that accepts an irq says of it, and nothing that another
\* script says, decides its level and node: the level it gives, or else that of the
\* irq's class; only an irq of a device of unknown class has none instead; and the
\* node it gives, where that is listed.
PolicyHonoured ==
    \A info \in Infos : \A k \in Accepting(info.irq) :
        k = First(Accepting(info.irq)) =>
            LET lines == Scripts[k].says[info.irq].lines
                given(key) == \E l \in Range(lines) : l.key = key /\ Meant(l)
                unknown == \E d \in 1 .. Len(machine.devices) :
                              /\ info.irq \in Range(machine.devices[d].irqs)
                              /\ get_irq_class(machine.devices[d].pci) = NODEF
            IN  /\ \/ info.level = IF given("balance_level")
                                   THEN Says(lines, "balance_level")
                                   ELSE DefaultLevel(info.class)
                   \/ unknown /\ info.level = BALANCE_NONE
                /\ TreeBuilt /\ ~need_rebuild /\ given("numa_node") =>
                   info.numa_node = NodeNumber(Says(lines, "numa_node"))

\* When a scan may balance, the node of every irq is one of the list: the pointer that
\* placement follows without a check is not null.
NodeListed == pc = "idle" => \A info \in Infos : info.numa_node \in DOMAIN numa_nodes
=============================================================================
