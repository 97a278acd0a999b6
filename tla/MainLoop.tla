------------------------------ MODULE MainLoop ------------------------------
(***************************************************************************)
(* The life of the daemon (irqbalance.c): main(), the GLib main loop, its  *)
(* sources (the scan timer, signals, the control socket, thermal events)   *)
(* and the part of scan() that decides between a balancing pass and a      *)
(* rescan of the topology.  What a pass does to the irqs is the subject of *)
(* Balancer; here it is one step.                                          *)
(*                                                                         *)
(* The daemon is one thread, but the kernel is not: cpus come and go       *)
(* between any two reads of sysfs and /proc, so the tree is built one cpu  *)
(* directory at a time.                                                    *)
(***************************************************************************)
EXTENDS Naturals, Sequences, FiniteSets, SequencesExt

CONSTANTS
    CpuIds,          \* cpus that have a directory in sysfs
    BootCpus,        \* the ones that are online at first
    IsolatedCpus,    \* isolated and nohz_full, or IRQBALANCE_BANNED_CPULIST
    CpuRequests,     \* lists of cpulists clients may send with "settings cpus"
    IrqRequests,     \* sets of irqs a "settings ban irqs" may leave banned: those it
                     \* names, or fewer where there is no memory for all of them
    Intervals,       \* sleep intervals clients may send with "settings sleep"
    ThermalMasks,    \* masks a window of thermal events may end with
    Sources,         \* the sources that may wake the loop up, beside the timer
    Commands,        \* the settings commands clients may send
    Troubles,        \* what else the environment may do
    OneShotModes,    \* whether --oneshot was given: a set of BOOLEANs
    MaxEvents        \* bound: the environment acts at most this many times

\* "offline", "online": a cpu goes or comes; "irq": an irq is removed and inserted
\* again, or cannot be added; "noproc": /proc/interrupts cannot be read, or not to its
\* end; "nomem": an allocation of the tree builder or of sock_handle fails.
AllTroubles == {"offline", "online", "irq", "noproc", "nomem"}

\* A rebuild is tried this often.
RebuildTries == 3

ASSUME CpuAssumption ==
    /\ IsFiniteSet(CpuIds)
    /\ BootCpus \subseteq CpuIds
    /\ IsolatedCpus \subseteq CpuIds

ASSUME RequestAssumption ==
    /\ CpuRequests \subseteq Seq(SUBSET CpuIds)
    /\ Intervals \subseteq Nat \ {0}
    /\ ThermalMasks \subseteq SUBSET CpuIds
    /\ Sources \subseteq {"term", "hup", "socket", "thermal"}
    /\ Commands \subseteq {"sleep", "cpus", "irqs"}
    /\ "socket" \in Sources => Commands # {}
    /\ Troubles \subseteq AllTroubles
    /\ OneShotModes \subseteq BOOLEAN
    /\ MaxEvents \in Nat

DefaultInterval == 10

VARIABLES
    pc,                  \* where main(), the loop or scan() is
    starting,            \* main() has not entered the loop yet
    ready,               \* sources the loop has found ready and not yet dispatched
    running,             \* the main loop has not been told to quit
    timers,              \* the scan timers, by interval
    one_shot_mode,       \* a command line option
    keep_going, need_rescan, need_rebuild,
    cycled,              \* cycle_count # 0
    try_times,
    todo,                \* cpu directories parse_cpu_tree has not visited yet
    online,              \* the kernel's online cpus
    cpu_online_map, banned_cpus, cpus,   \* the tree
    db_banned,           \* cl_banned_irqs when the irq database was built
    cpu_ban_string, cl_banned_irqs, thermal_banned_cpus,
    sleep_interval, last_interval,
    hup,                 \* a SIGHUP came after a pass and no rescan has started since
    in_force,            \* the list of cpus last sent, up to the rescan that finds it lost
    steady,              \* the cpus that have been online since the last build began
    events               \* what is left of MaxEvents

loopVars == <<pc, starting, ready, running, timers>>
flagVars == <<keep_going, need_rescan, need_rebuild, cycled, try_times>>
treeVars == <<todo, cpu_online_map, banned_cpus, cpus, db_banned>>
requestVars == <<cpu_ban_string, cl_banned_irqs, thermal_banned_cpus,
                 sleep_interval, last_interval>>
ghostVars == <<hup, in_force, steady>>
vars == <<loopVars, flagVars, treeVars, requestVars, ghostVars, online, events,
          one_shot_mode>>

\* The environment does something.
Event == events > 0 /\ events' = events - 1

\* main() is about to build the tree for the first time.
Init ==
    /\ pc = "free" /\ starting = TRUE /\ ready = {} /\ running = TRUE
    /\ timers = <<>> /\ one_shot_mode \in OneShotModes
    /\ keep_going = TRUE /\ need_rescan = FALSE /\ need_rebuild = FALSE
    /\ cycled = FALSE /\ try_times = 0
    /\ todo = {} /\ online = BootCpus
    /\ cpu_online_map = {} /\ banned_cpus = {} /\ cpus = {} /\ db_banned = {}
    /\ cpu_ban_string = <<>> /\ cl_banned_irqs = {} /\ thermal_banned_cpus = {}
    /\ sleep_interval = DefaultInterval /\ last_interval = DefaultInterval
    /\ hup = FALSE /\ in_force = <<>> /\ steady = {} /\ events = MaxEvents

-----------------------------------------------------------------------------
(* The kernel                                                              *)

Offline ==
    /\ "offline" \in Troubles
    /\ pc # "exit"
    /\ Event
    /\ \E c \in online : online' = online \ {c}
    /\ online' # {}
    /\ steady' = steady \cap online'
    /\ UNCHANGED <<loopVars, flagVars, treeVars, requestVars, hup, in_force>>

Online ==
    /\ "online" \in Troubles
    /\ pc # "exit"
    /\ Event
    /\ \E c \in CpuIds \ online : online' = online \cup {c}
    /\ UNCHANGED <<loopVars, flagVars, treeVars, requestVars, ghostVars>>

-----------------------------------------------------------------------------
(* Building the tree                                                       *)

\* A list from the socket, of which strtok leaves the first word, overrides the default;
\* thermal bans always add to it.
Bans(list) == thermal_banned_cpus \cup IF list # <<>> THEN Head(list) ELSE IsolatedCpus

\* setup_banned_cpus
WantedBans == Bans(cpu_ban_string)

\* The cpus part of free_object_tree, with the irq database that hangs on it.
clear_cpu_tree == cpu_online_map' = {} /\ cpus' = {} /\ db_banned' = {}

\* The fourth free_object_tree: the tree stays empty and need_rebuild set.
GivesUp ==
    /\ pc = "free"
    /\ try_times = RebuildTries
    /\ clear_cpu_tree
    /\ pc' = "out"
    /\ UNCHANGED <<starting, ready, running, timers, flagVars, todo, banned_cpus,
                   requestVars, ghostVars, online, events>>

\* free_object_tree, then build_object_tree up to the directory of /sys that lists
\* the cpus.  build_numa_node_list may run out of memory.
StartBuild ==
    /\ pc = "free"
    /\ try_times < RebuildTries
    /\ try_times' = try_times + 1
    /\ clear_cpu_tree
    /\ banned_cpus' = WantedBans
    /\ todo' = CpuIds
    /\ steady' = online
    /\ \/ need_rebuild' = FALSE /\ UNCHANGED events
       \/ "nomem" \in Troubles /\ Event /\ need_rebuild' = TRUE
    /\ pc' = "build"
    /\ UNCHANGED <<starting, ready, running, timers, keep_going, need_rescan, cycled,
                   requestVars, hup, in_force, online>>

\* do_one_cpu.  It looks for the cpu among those that are online now.
DoOneCpu ==
    /\ pc = "build"
    /\ \E c \in todo :
          /\ todo' = todo \ {c}
          /\ cpu_online_map' = cpu_online_map \cup ({c} \cap online)
          /\ cpus' = cpus \cup (({c} \cap online) \ banned_cpus)
    /\ UNCHANGED <<loopVars, flagVars, banned_cpus, db_banned, requestVars, ghostVars,
                   online, events>>

\* do_one_cpu runs out of memory, for the cpu or for a domain above it.
CpuNoMemory ==
    /\ pc = "build"
    /\ "nomem" \in Troubles
    /\ Event
    /\ \E c \in todo \cap online :
          /\ todo' = todo \ {c}
          /\ \/ UNCHANGED <<cpu_online_map, cpus>>
             \/ /\ c \notin banned_cpus
                /\ cpu_online_map' = cpu_online_map \cup {c}
                /\ cpus' = cpus \cup {c}
    /\ need_rebuild' = TRUE
    /\ UNCHANGED <<loopVars, keep_going, need_rescan, cycled, try_times, banned_cpus,
                   db_banned, requestVars, ghostVars, online>>

\* rebuild_irq_db; then main() stops on a machine with a single cpu, and scan()
\* tries again if anything was missing.
EndBuild ==
    /\ pc = "build"
    /\ todo = {}
    /\ db_banned' = cl_banned_irqs
    /\ pc' = IF starting /\ Cardinality(cpu_online_map) <= 1 THEN "exit"
             ELSE IF ~starting /\ need_rebuild THEN "free"
             ELSE "reparse"
    /\ UNCHANGED <<starting, ready, running, timers, flagVars, todo, cpu_online_map,
                   banned_cpus, cpus, requestVars, ghostVars, online, events>>

-----------------------------------------------------------------------------
(* Reading /proc/interrupts                                                *)

\* Faulty variant: more columns than expected are no reason to rescan.
Mismatch_Fewer == Cardinality(online) < Cardinality(cpu_online_map)

\* A line has another number of columns than there are cpus in the tree.
Mismatch == Cardinality(online) # Cardinality(cpu_online_map)

\* parse_proc_interrupts, as far as it decides about a rescan.
ParseProcInterrupts ==
    \/ need_rescan' = (need_rescan \/ Mismatch) /\ UNCHANGED events
    \/ "irq" \in Troubles /\ Event /\ need_rescan' = TRUE
    \/ "noproc" \in Troubles /\ Event /\ UNCHANGED need_rescan

\* The first read of scan().
Parse ==
    /\ pc = "parse"
    /\ ParseProcInterrupts
    /\ pc' = "check"
    /\ UNCHANGED <<starting, ready, running, timers, keep_going, need_rebuild, cycled,
                   try_times, treeVars, requestVars, ghostVars, online>>

\* The read after a build: main() arms the timer and enters the loop; the rescan
\* branch of scan() returns and its timer stays.
Reparse ==
    /\ pc = "reparse"
    /\ ParseProcInterrupts
    /\ pc' = IF starting THEN "poll" ELSE "dispatch"
    /\ timers' = IF starting THEN <<sleep_interval>> ELSE timers
    /\ last_interval' = IF starting THEN sleep_interval ELSE last_interval
    /\ starting' = FALSE
    /\ UNCHANGED <<ready, running, keep_going, need_rebuild, cycled, try_times,
                   treeVars, cpu_ban_string, cl_banned_irqs, thermal_banned_cpus,
                   sleep_interval, ghostVars, online>>

-----------------------------------------------------------------------------
(* scan()                                                                  *)

\* Faulty variant: an incomplete tree is no reason to rescan.
MustRescan_Requested == keep_going /\ need_rescan

\* The condition of the rescan loop.
MustRescan == keep_going /\ (need_rescan \/ need_rebuild)

\* Faulty variant: the request is not cleared.
Rescan_KeepsFlag ==
    /\ pc = "check"
    /\ MustRescan
    /\ cycled' = FALSE
    /\ try_times' = 0
    /\ hup' = FALSE
    /\ in_force' = cpu_ban_string
    /\ pc' = "free"
    /\ UNCHANGED <<starting, ready, running, timers, keep_going, need_rescan,
                   need_rebuild, treeVars, requestVars, steady, online, events>>

\* The rescan branch is taken.
Rescan ==
    /\ pc = "check"
    /\ MustRescan
    /\ need_rescan' = FALSE
    /\ cycled' = FALSE
    /\ try_times' = 0
    /\ hup' = FALSE
    /\ in_force' = cpu_ban_string
    /\ pc' = "free"
    /\ UNCHANGED <<starting, ready, running, timers, keep_going, need_rebuild, treeVars,
                   requestVars, steady, online, events>>

\* parse_proc_stat, update_migration_status, calculate_placement and
\* activate_mappings.
Balance ==
    /\ pc = "check"
    /\ ~MustRescan
    /\ pc' = "out"
    /\ UNCHANGED <<starting, ready, running, timers, flagVars, treeVars, requestVars,
                   ghostVars, online, events>>

\* Faulty variant: the old timer is kept beside the new one.
Timers_KeepsBoth ==
    IF last_interval # sleep_interval THEN Append(timers, sleep_interval)
    ELSE IF keep_going /\ ~one_shot_mode THEN timers
    ELSE Tail(timers)

\* The timers after scan(): a new interval takes a new timer, and returning FALSE
\* removes the one that fired.
Timers ==
    IF last_interval # sleep_interval THEN Append(Tail(timers), sleep_interval)
    ELSE IF keep_going /\ ~one_shot_mode THEN timers
    ELSE Tail(timers)

\* Faulty variant: a new interval is not remembered.
Out_ForgetsInterval ==
    /\ pc = "out"
    /\ keep_going' = (keep_going /\ ~one_shot_mode)
    /\ cycled' = TRUE
    /\ timers' = Timers
    /\ running' = (running /\ (keep_going' \/ last_interval # sleep_interval))
    /\ pc' = "dispatch"
    /\ UNCHANGED <<starting, ready, need_rescan, need_rebuild, try_times, treeVars,
                   requestVars, ghostVars, online, events>>

\* Faulty variant: scan() always asks to be called again.
Out_NeverQuits ==
    /\ pc = "out"
    /\ keep_going' = (keep_going /\ ~one_shot_mode)
    /\ cycled' = TRUE
    /\ last_interval' = sleep_interval
    /\ pc' = "dispatch"
    /\ UNCHANGED <<starting, ready, running, timers, need_rescan, need_rebuild,
                   try_times, treeVars, cpu_ban_string, cl_banned_irqs,
                   thermal_banned_cpus, sleep_interval, ghostVars, online, events>>

\* The end of scan(): the loop goes on, with the same timer or a new one, or quits.
Out ==
    /\ pc = "out"
    /\ keep_going' = (keep_going /\ ~one_shot_mode)
    /\ cycled' = TRUE
    /\ timers' = Timers
    /\ last_interval' = sleep_interval
    /\ running' = (running /\ (keep_going' \/ last_interval # sleep_interval))
    /\ pc' = "dispatch"
    /\ UNCHANGED <<starting, ready, need_rescan, need_rebuild, try_times, treeVars,
                   cpu_ban_string, cl_banned_irqs, thermal_banned_cpus,
                   sleep_interval, ghostVars, online, events>>

-----------------------------------------------------------------------------
(* The main loop (GLib, external).  An iteration finds some sources ready  *)
(* and dispatches each of them, even when one of them quits the loop.      *)

Poll ==
    /\ pc = "poll"
    /\ running
    /\ \E S \in SUBSET (Sources \cup {"timer"}) :
          /\ S # {}
          /\ "timer" \in S => timers # <<>>
          /\ Cardinality(S \ {"timer"}) <= events
          /\ events' = events - Cardinality(S \ {"timer"})
          /\ ready' = S
    /\ pc' = "dispatch"
    /\ UNCHANGED <<starting, running, timers, flagVars, treeVars, requestVars,
                   ghostVars, online>>

Quit ==
    /\ pc = "poll"
    /\ ~running
    /\ pc' = "exit"
    /\ UNCHANGED <<starting, ready, running, timers, flagVars, treeVars, requestVars,
                   ghostVars, online, events>>

EndIteration ==
    /\ pc = "dispatch"
    /\ ready = {}
    /\ pc' = "poll"
    /\ UNCHANGED <<starting, ready, running, timers, flagVars, treeVars, requestVars,
                   ghostVars, online, events>>

\* The source is dispatched.
Takes(source) == pc = "dispatch" /\ source \in ready /\ ready' = ready \ {source}

\* The timer fires: scan() starts.
Timer ==
    /\ Takes("timer")
    /\ pc' = "parse"
    /\ UNCHANGED <<starting, running, timers, flagVars, treeVars, requestVars,
                   ghostVars, online, events>>

\* handler: SIGINT, SIGTERM, SIGUSR1, SIGUSR2
Term ==
    /\ Takes("term")
    /\ keep_going' = FALSE
    /\ running' = FALSE
    /\ UNCHANGED <<pc, starting, timers, need_rescan, need_rebuild, cycled, try_times,
                   treeVars, requestVars, ghostVars, online, events>>

\* Faulty variant: the signal counts only where nothing was balanced yet.
Hup_Early ==
    /\ Takes("hup")
    /\ need_rescan' = (need_rescan \/ ~cycled)
    /\ hup' = (hup \/ cycled)
    /\ UNCHANGED <<pc, starting, running, timers, keep_going, need_rebuild, cycled,
                   try_times, treeVars, requestVars, in_force, steady, online, events>>

\* force_rescan: SIGHUP.  It is dropped where no pass has ended since the last rescan.
Hup ==
    /\ Takes("hup")
    /\ need_rescan' = (need_rescan \/ cycled)
    /\ hup' = (hup \/ cycled)
    /\ UNCHANGED <<pc, starting, running, timers, keep_going, need_rebuild, cycled,
                   try_times, treeVars, requestVars, in_force, steady, online, events>>

\* sock_handle, "settings sleep"
SettingsSleep ==
    /\ Takes("socket")
    /\ "sleep" \in Commands
    /\ sleep_interval' \in Intervals
    /\ UNCHANGED <<pc, starting, running, timers, flagVars, treeVars, cpu_ban_string,
                   cl_banned_irqs, thermal_banned_cpus, last_interval, ghostVars,
                   online, events>>

\* Faulty variant: no rescan is asked for.
SettingsCpus_NoRescan ==
    /\ Takes("socket")
    /\ "cpus" \in Commands
    /\ cpu_ban_string' \in CpuRequests \cup {<<>>}
    /\ in_force' = cpu_ban_string'
    /\ UNCHANGED <<pc, starting, running, timers, flagVars, treeVars, cl_banned_irqs,
                   thermal_banned_cpus, sleep_interval, last_interval, hup, steady,
                   online, events>>

\* sock_handle, "settings cpus"; NULL forgets the mask.
SettingsCpus ==
    /\ Takes("socket")
    /\ "cpus" \in Commands
    /\ cpu_ban_string' \in CpuRequests \cup {<<>>}
    /\ need_rescan' = TRUE
    /\ in_force' = cpu_ban_string'
    /\ UNCHANGED <<pc, starting, running, timers, keep_going, need_rebuild, cycled,
                   try_times, treeVars, cl_banned_irqs, thermal_banned_cpus,
                   sleep_interval, last_interval, hup, steady, online, events>>

\* sock_handle, when there is no memory for the text of a request.  It is dropped; if it
\* was "settings cpus" the list before it is gone too, and no rescan is asked for.
SettingsNoMemory ==
    /\ Takes("socket")
    /\ "nomem" \in Troubles
    /\ Event
    /\ \/ UNCHANGED cpu_ban_string
       \/ "cpus" \in Commands /\ cpu_ban_string' = <<>>
    /\ UNCHANGED <<pc, starting, running, timers, flagVars, treeVars, cl_banned_irqs,
                   thermal_banned_cpus, sleep_interval, last_interval, ghostVars, online>>

\* sock_handle, "settings ban irqs"; NONE forgets the list.
SettingsIrqs ==
    /\ Takes("socket")
    /\ "irqs" \in Commands
    /\ cl_banned_irqs' \in IrqRequests \cup {{}}
    /\ need_rescan' = TRUE
    /\ UNCHANGED <<pc, starting, running, timers, keep_going, need_rebuild, cycled,
                   try_times, treeVars, cpu_ban_string, thermal_banned_cpus,
                   sleep_interval, last_interval, ghostVars, online, events>>

\* update_banned_cpus, when the last cpu of a window has been reported.
ThermalWindow ==
    /\ Takes("thermal")
    /\ thermal_banned_cpus' \in ThermalMasks
    /\ need_rescan' = (need_rescan \/ thermal_banned_cpus' # thermal_banned_cpus)
    /\ UNCHANGED <<pc, starting, running, timers, keep_going, need_rebuild, cycled,
                   try_times, treeVars, cpu_ban_string, cl_banned_irqs,
                   sleep_interval, last_interval, ghostVars, online, events>>

\* The daemon has stopped.
Done == pc = "exit" /\ UNCHANGED vars

Building == GivesUp \/ StartBuild \/ DoOneCpu \/ CpuNoMemory \/ EndBuild

Scanning == Parse \/ Reparse \/ Rescan \/ Balance \/ Out

Looping == \/ Poll \/ Quit \/ EndIteration \/ Timer \/ Term \/ Hup
           \/ SettingsSleep \/ SettingsCpus \/ SettingsNoMemory \/ SettingsIrqs
           \/ ThermalWindow

\* No step changes an option of the command line.
Daemon == (Building \/ Scanning \/ Looping) /\ UNCHANGED one_shot_mode

Hotplug == (Offline \/ Online) /\ UNCHANGED one_shot_mode

Next == Daemon \/ Hotplug \/ Done

\* The thread runs; the timer, the only source that never dries up, wakes it.
Spec == Init /\ [][Next]_vars /\ WF_vars(Daemon)

-----------------------------------------------------------------------------
(* Properties                                                              *)

\* Every variable has the type of what it stands for.
TypeOK ==
    /\ pc \in {"free", "build", "reparse", "poll", "dispatch", "parse", "check",
               "out", "exit"}
    /\ starting \in BOOLEAN /\ running \in BOOLEAN
    /\ ready \subseteq Sources \cup {"timer"}
    /\ timers \in Seq(Intervals \cup {DefaultInterval})
    /\ keep_going \in BOOLEAN /\ need_rescan \in BOOLEAN /\ need_rebuild \in BOOLEAN
    /\ cycled \in BOOLEAN /\ try_times \in 0 .. RebuildTries
    /\ todo \subseteq CpuIds /\ online \subseteq CpuIds
    /\ cpu_online_map \subseteq CpuIds /\ banned_cpus \subseteq CpuIds
    /\ cpus \subseteq cpu_online_map \ banned_cpus
    /\ db_banned \in IrqRequests \cup {{}}
    /\ cpu_ban_string \in CpuRequests \cup {<<>>}
    /\ cl_banned_irqs \in IrqRequests \cup {{}}
    /\ thermal_banned_cpus \subseteq CpuIds
    /\ sleep_interval \in Intervals \cup {DefaultInterval}
    /\ last_interval \in Intervals \cup {DefaultInterval}
    /\ hup \in BOOLEAN /\ in_force \in CpuRequests \cup {<<>>} /\ steady \subseteq online
    /\ one_shot_mode \in BOOLEAN
    /\ events \in 0 .. MaxEvents

\* scan() is never left without a timer nor given two: while the loop runs there is
\* exactly one, and it has the interval scan() compares a new one with.
OneTimer ==
    ~starting /\ running => timers = <<last_interval>>

\* scan() goes on to a balancing pass.
Passes == pc = "check" /\ pc' = "out"

\* An incomplete tree, of main() or of a rescan that failed or gave up, is never
\* balanced on: while the daemon keeps going, a pass finds every cpu in the tree that
\* has been online since the build of that tree began, whatever came and went beside it.
CompleteTree ==
    [][Passes /\ keep_going => steady \subseteq cpu_online_map]_vars

\* While the daemon keeps going, a pass only starts when the bans of irqs in the database
\* are those the daemon has been told, and the bans in the tree those of the last list of
\* cpus that got through and of the last thermal window.  A request there was no memory for
\* does not get through; but the next rescan, whatever it is for, finds no list at all, and
\* from then on the default is in force.
BansCurrent ==
    [][Passes /\ keep_going =>
          banned_cpus = Bans(in_force) /\ db_banned = cl_banned_irqs]_vars

Stops == pc = "exit"

\* A hotplug that changes the number of cpus is noticed: the tree is rebuilt until
\* it has as many as the kernel.
CountsSettle ==
    Cardinality(cpu_online_map) # Cardinality(online)
        ~> (Cardinality(cpu_online_map) = Cardinality(online) \/ Stops)

\* Whatever disturbs the daemon, it gets to balance again once it is left alone.
EventuallyBalances ==
    pc = "poll" ~> ((pc = "check" /\ ~MustRescan) \/ Stops)

\* A new sleep interval is adopted.
IntervalAdopted ==
    sleep_interval # last_interval ~> (sleep_interval = last_interval \/ Stops)

\* Once keep_going is cleared, by a signal or by one-shot mode, the daemon stops.
EventuallyStops == ~keep_going ~> Stops

\* "SIGHUP Forces a rescan of the available IRQs and system topology" (irqbalance.1):
\* so it does, once the daemon has ended a pass since the last rescan, and whatever
\* else arrives in the same turn of the loop.
HupRescans == hup ~> (~hup \/ Stops)

=============================================================================
