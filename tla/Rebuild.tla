------------------------------- MODULE Rebuild ------------------------------
(***************************************************************************)
(* scan() where it rebuilds the tree and the irq database: up to three     *)
(* tries when memory is short, then /proc/interrupts is read; later scans  *)
(* read it again and may ask for the next rebuild.  MainLoop has what else *)
(* the daemon does meanwhile.                                              *)
(***************************************************************************)
EXTENDS IrqDb

RebuildTries == 3

vars == <<cpuTreeVars, irqDbVars>>

\* scan() has decided to rebuild.
Init == TreeInit /\ DbInit

\* The cpu part of a build leaves the database alone, but for free_irq_db.
Tree ==
    /\ BuildTree
    /\ pc = "free" => try_times < RebuildTries
    /\ IF pc = "free" THEN interrupts_db' = <<>> /\ banned_irqs' = {} /\ existing' = {}
       ELSE UNCHANGED <<interrupts_db, banned_irqs, existing>>
    /\ UNCHANGED <<pciVars, queue, tmp_irqs, need_rescan, ghostVars>>

CpuHotplug == Hotplug /\ UNCHANGED irqDbVars

\* After the third try there is no tree at all, and need_rebuild is still set.
GiveUp ==
    /\ pc = "free" /\ try_times = RebuildTries
    /\ numa_nodes' = <<>> /\ packages' = <<>> /\ cache_domains' = <<>> /\ cpus' = <<>>
    /\ cpu_online_map' = {}
    /\ interrupts_db' = <<>> /\ banned_irqs' = {} /\ existing' = {}
    /\ try_times' = 0 /\ pc' = "idle"
    /\ UNCHANGED <<kernelVars, need_rebuild, localVars, disturbed, late, events, pciVars,
                   queue, tmp_irqs, need_rescan, ghostVars>>

\* The next scan.
Scan ==
    /\ pc = "idle"
    /\ OpenProcInterrupts
    /\ UNCHANGED <<kernelVars, try_times, need_rebuild, treeVars, localVars, disturbed,
                   late, events, pciVars, dbVars, need_rescan, stale, faults>>

\* Faulty variant: the request outlives the rebuild.
Decide_KeepsFlag ==
    /\ pc = "parsed"
    /\ pc' = IF try_times = 0 /\ (need_rescan \/ need_rebuild) THEN "free" ELSE "idle"
    /\ try_times' = 0
    /\ UNCHANGED <<kernelVars, need_rebuild, need_rescan, treeVars, localVars, disturbed,
                   late, events, pciVars, queue, dbVars, ghostVars>>

\* What scan() does after a read: nothing more after a rebuild (try_times > 0), and
\* otherwise a rebuild where one is asked for.
Decide ==
    /\ pc = "parsed"
    /\ LET rescan == try_times = 0 /\ (need_rescan \/ need_rebuild)
       IN  /\ pc' = IF rescan THEN "free" ELSE "idle"
           /\ need_rescan' = (need_rescan /\ ~rescan)
    /\ try_times' = 0
    /\ UNCHANGED <<kernelVars, need_rebuild, treeVars, localVars, disturbed, late, events,
                   pciVars, queue, dbVars, ghostVars>>

Daemon == Tree \/ DbStep \/ GiveUp \/ Scan \/ Decide

Next == Daemon \/ CpuHotplug \/ Pci
Spec == Init /\ [][Next]_vars /\ WF_vars(Daemon)

-----------------------------------------------------------------------------
(* Properties                                                              *)

\* When cpus, devices and memory have calmed down the daemon gets there, after however
\* many rebuilds: no rebuild is asked for, the tree has as many cpus as there are, and
\* the database has the irqs of /proc/interrupts.
Settles ==
    <>[](pc = "idle" => /\ ~need_rescan /\ ~need_rebuild
                        /\ num_online_cpus = Columns
                        /\ Numbers \cup banned_irqs = active)
=============================================================================
