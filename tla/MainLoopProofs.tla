--------------------------- MODULE MainLoopProofs ---------------------------
(***************************************************************************)
(* Proofs about MainLoop, for every set of cpus, every request and any     *)
(* number of disturbances.                                                 *)
(***************************************************************************)
EXTENDS MainLoop, FiniteSetTheorems, TLAPS

-----------------------------------------------------------------------------
(* The inductive invariant                                                 *)

\* The states of scan(), and of main() before the loop.
InScan == {"free", "build", "reparse", "parse", "check", "out"}

\* The states in which the tree is complete as far as it will be.
HasTree == pc \notin {"free", "build", "exit"}

\* Where main(), the loop and scan() can be, and which sources are then pending: the
\* timer is dispatched at most once in an iteration.
LoopInv ==
    /\ starting => /\ pc \in {"free", "build", "reparse", "exit"}
                   /\ ready = {} /\ running
                   /\ pc = "free" => try_times = 0
    /\ pc = "poll" => ready = {}
    /\ pc \in InScan => "timer" \notin ready

\* While scan() runs or is about to, the timer that calls it is there, alone.
TimerInv ==
    /\ OneTimer
    /\ ~starting /\ (pc \in InScan \/ "timer" \in ready) => timers = <<last_interval>>

\* scan() builds again only after a failure, and what it then leaves behind, the last
\* failure included, is marked by need_rebuild.
RetryInv == pc = "free" /\ try_times > 0 => need_rebuild

\* The bans are those in force, or need_rescan or need_rebuild is set.  What a build goes by
\* is in force: a list that was lost is forgotten when the rescan starts.
BanInv ==
    /\ pc \in {"free", "build"} => in_force = cpu_ban_string
    /\ pc = "build" => banned_cpus = Bans(in_force)
    /\ HasTree =>
          \/ need_rescan \/ need_rebuild
          \/ banned_cpus = Bans(in_force) /\ db_banned = cl_banned_irqs

\* A cpu that stays online is in the tree once its directory has been visited.
SteadyInv ==
    /\ pc = "build" => need_rebuild \/ steady \ todo \subseteq cpu_online_map
    /\ HasTree =>
          need_rebuild \/ steady \subseteq cpu_online_map

IInv == TypeOK /\ LoopInv /\ TimerInv /\ RetryInv /\ BanInv /\ SteadyInv

-----------------------------------------------------------------------------
(* Types                                                                   *)

\* The environment acts at most MaxEvents times.
LEMMA EventTypes ==
    ASSUME events \in 0 .. MaxEvents, Event
    PROVE  events' \in 0 .. MaxEvents
  BY RequestAssumption DEF Event

\* However many sources an iteration finds ready, the events suffice for them.
LEMMA PollTypes ==
    ASSUME TypeOK, Poll
    PROVE  ready' \subseteq Sources \cup {"timer"} /\ events' \in 0 .. MaxEvents
<1>1. PICK S \in SUBSET (Sources \cup {"timer"}) :
          /\ Cardinality(S \ {"timer"}) <= events
          /\ events' = events - Cardinality(S \ {"timer"})
          /\ ready' = S
  BY DEF Poll
<1>2. IsFiniteSet({"term", "hup", "socket", "thermal"})
  <2>1. \A T, x : IsFiniteSet(T) => IsFiniteSet(T \cup {x})
    BY FS_AddElement
  <2>2. IsFiniteSet(((({} \cup {"term"}) \cup {"hup"}) \cup {"socket"})
                    \cup {"thermal"})
    BY <2>1, FS_EmptySet
  <2>3. {"term", "hup", "socket", "thermal"} \subseteq
            ((({} \cup {"term"}) \cup {"hup"}) \cup {"socket"}) \cup {"thermal"}
    BY Zenon
  <2> QED
    BY <2>2, <2>3, FS_Subset
<1>3. IsFiniteSet(S \ {"timer"})
  <2>1. S \ {"timer"} \subseteq Sources
    OBVIOUS
  <2>2. Sources \subseteq {"term", "hup", "socket", "thermal"}
    BY RequestAssumption
  <2>3. IsFiniteSet(Sources)
    BY <1>2, <2>2, FS_Subset
  <2> QED
    BY <2>1, <2>3, FS_Subset
<1>4. Cardinality(S \ {"timer"}) \in Nat
  BY <1>3, FS_CardinalityType
<1> QED
  BY <1>1, <1>4, RequestAssumption DEF TypeOK

\* The bans of a build are cpus.
LEMMA WantedBansType == TypeOK => WantedBans \subseteq CpuIds
<1> SUFFICES ASSUME TypeOK PROVE WantedBans \subseteq CpuIds
  OBVIOUS
<1>1. cpu_ban_string # <<>> => Head(cpu_ban_string) \in SUBSET CpuIds
  BY RequestAssumption DEF TypeOK
<1> QED
  BY <1>1, CpuAssumption DEF TypeOK, WantedBans, Bans

\* The timers scan() leaves are sequences of intervals.
LEMMA TimersType ==
    ASSUME TypeOK, timers # <<>>
    PROVE  Timers \in Seq(Intervals \cup {DefaultInterval})
<1>1. Tail(timers) \in Seq(Intervals \cup {DefaultInterval})
  BY DEF TypeOK
<1> QED
  BY <1>1 DEF TypeOK, Timers

\* Every step keeps the types.
LEMMA TypeNext ==
    ASSUME TypeOK, LoopInv, TimerInv, [Next]_vars
    PROVE  TypeOK'
<1>0. UNCHANGED one_shot_mode
  BY DEF Next, Daemon, Hotplug, Done, vars
<1> USE DEF loopVars, flagVars, treeVars, requestVars, ghostVars
<1>1. CASE GivesUp
  BY <1>1, <1>0 DEF GivesUp, clear_cpu_tree, TypeOK
<1>2. CASE StartBuild
  <2>1. banned_cpus' \subseteq CpuIds
    BY <1>2, WantedBansType DEF StartBuild
  <2>2. events' \in 0 .. MaxEvents
    BY <1>2, EventTypes DEF StartBuild, TypeOK
  <2>3. try_times' \in 0 .. RebuildTries
    BY <1>2 DEF StartBuild, TypeOK, RebuildTries
  <2>4. need_rebuild' \in BOOLEAN
    BY <1>2 DEF StartBuild
  <2> QED
    BY <1>2, <1>0, <2>1, <2>2, <2>3, <2>4 DEF StartBuild, clear_cpu_tree, TypeOK
<1>3. CASE DoOneCpu
  BY <1>3, <1>0 DEF DoOneCpu, TypeOK
<1>4. CASE CpuNoMemory
  BY <1>4, <1>0, EventTypes DEF CpuNoMemory, TypeOK
<1>5. CASE EndBuild
  BY <1>5, <1>0 DEF EndBuild, TypeOK
<1>6. CASE Parse
  <2>1. events' \in 0 .. MaxEvents
    BY <1>6, EventTypes DEF Parse, ParseProcInterrupts, TypeOK
  <2>2. need_rescan' \in BOOLEAN
    BY <1>6 DEF Parse, ParseProcInterrupts, TypeOK
  <2> QED
    BY <1>6, <1>0, <2>1, <2>2 DEF Parse, TypeOK
<1>7. CASE Reparse
  <2>1. events' \in 0 .. MaxEvents
    BY <1>7, EventTypes DEF Reparse, ParseProcInterrupts, TypeOK
  <2>2. need_rescan' \in BOOLEAN
    BY <1>7 DEF Reparse, ParseProcInterrupts, TypeOK
  <2>3. timers' \in Seq(Intervals \cup {DefaultInterval})
    <3>1. <<sleep_interval>> \in Seq(Intervals \cup {DefaultInterval})
      BY DEF TypeOK
    <3>2. timers' = <<sleep_interval>> \/ timers' = timers
      BY <1>7 DEF Reparse
    <3> QED
      BY <3>1, <3>2 DEF TypeOK
  <2>4. pc' \in {"poll", "dispatch"} /\ starting' = FALSE
    BY <1>7 DEF Reparse
  <2>5. last_interval' \in Intervals \cup {DefaultInterval}
    BY <1>7 DEF Reparse, TypeOK
  <2>6. UNCHANGED <<ready, running, keep_going, need_rebuild, cycled, try_times,
                    treeVars, cpu_ban_string, cl_banned_irqs, thermal_banned_cpus,
                    sleep_interval, ghostVars, online>>
    BY <1>7 DEF Reparse
  <2>7. /\ todo' \subseteq CpuIds /\ online' \subseteq CpuIds
        /\ cpu_online_map' \subseteq CpuIds /\ banned_cpus' \subseteq CpuIds
        /\ cpus' \subseteq cpu_online_map' \ banned_cpus'
        /\ thermal_banned_cpus' \subseteq CpuIds /\ steady' \subseteq online'
    BY <2>6 DEF TypeOK
  <2>8. /\ db_banned' \in IrqRequests \cup {{}} /\ cl_banned_irqs' \in IrqRequests \cup {{}}
        /\ cpu_ban_string' \in CpuRequests \cup {<<>>}
        /\ in_force' \in CpuRequests \cup {<<>>}
    BY <2>6 DEF TypeOK
  <2>9. /\ running' \in BOOLEAN /\ ready' \subseteq Sources \cup {"timer"}
        /\ keep_going' \in BOOLEAN /\ need_rebuild' \in BOOLEAN /\ cycled' \in BOOLEAN
        /\ try_times' \in 0 .. RebuildTries /\ hup' \in BOOLEAN
        /\ sleep_interval' \in Intervals \cup {DefaultInterval}
    BY <2>6 DEF TypeOK
  <2> QED
    BY <1>0, <2>1, <2>2, <2>3, <2>4, <2>5, <2>7, <2>8, <2>9, Zenon DEF TypeOK
<1>8. CASE Rescan
  <2>1. try_times' \in 0 .. RebuildTries
    BY <1>8 DEF Rescan, RebuildTries
  <2> QED
    BY <1>8, <1>0, <2>1 DEF Rescan, TypeOK
<1>9. CASE Balance
  BY <1>9, <1>0 DEF Balance, TypeOK
<1>10. CASE Out
  <2>1. timers # <<>>
    BY <1>10, <1>0 DEF Out, LoopInv, TimerInv, InScan
  <2> QED
    BY <1>10, <1>0, <2>1, TimersType DEF Out, TypeOK
<1>11. CASE Poll
  <2>1. ready' \subseteq Sources \cup {"timer"} /\ events' \in 0 .. MaxEvents
    BY <1>11, PollTypes
  <2> QED
    BY <1>11, <1>0, <2>1 DEF Poll, TypeOK
<1>12. CASE Quit
  BY <1>12, <1>0 DEF Quit, TypeOK
<1>13. CASE EndIteration
  BY <1>13, <1>0 DEF EndIteration, TypeOK
<1>14. CASE Timer
  BY <1>14, <1>0 DEF Timer, Takes, TypeOK
<1>15. CASE Term
  <2>1. ready' \subseteq Sources \cup {"timer"} /\ keep_going' \in BOOLEAN /\ running' \in BOOLEAN
    BY <1>15 DEF Term, Takes, TypeOK
  <2>2. UNCHANGED <<pc, starting, timers, need_rescan, need_rebuild, cycled, try_times,
                    treeVars, requestVars, ghostVars, online, events>>
    BY <1>15 DEF Term
  <2> QED
    BY <1>0, <2>1, <2>2 DEF TypeOK
<1>16. CASE Hup
  BY <1>16, <1>0 DEF Hup, Takes, TypeOK
<1>17. CASE SettingsSleep
  BY <1>17, <1>0 DEF SettingsSleep, Takes, TypeOK
<1>18. CASE SettingsCpus
  BY <1>18, <1>0 DEF SettingsCpus, Takes, TypeOK
<1>19. CASE SettingsIrqs
  BY <1>19, <1>0 DEF SettingsIrqs, Takes, TypeOK
<1>20. CASE ThermalWindow
  BY <1>20, <1>0, RequestAssumption DEF ThermalWindow, Takes, TypeOK
<1>21. CASE Offline
  BY <1>21, <1>0, EventTypes DEF Offline, TypeOK
<1>22. CASE Online
  BY <1>22, <1>0, EventTypes DEF Online, TypeOK
<1>23. CASE UNCHANGED vars
  BY <1>23 DEF vars, TypeOK
<1>24. CASE SettingsNoMemory
  BY <1>24, <1>0, EventTypes DEF SettingsNoMemory, Takes, TypeOK
<1>25. \/ Building \/ Scanning \/ Looping \/ Offline \/ Online \/ UNCHANGED vars
  BY DEF Next, Daemon, Hotplug, Done
<1>26. CASE Building
  BY <1>1, <1>2, <1>3, <1>4, <1>5, <1>26 DEF Building
<1>27. CASE Scanning
  BY <1>6, <1>7, <1>8, <1>9, <1>10, <1>27 DEF Scanning
<1>28. CASE Looping
  BY <1>11, <1>12, <1>13, <1>14, <1>15, <1>16, <1>17, <1>18, <1>19, <1>20, <1>24, <1>28
     DEF Looping
<1> QED
  BY <1>21, <1>22, <1>23, <1>25, <1>26, <1>27, <1>28

\* main() and the loop keep to their states, and the timer is dispatched once.
LEMMA LoopNext ==
    ASSUME TypeOK, LoopInv, RetryInv, [Next]_vars
    PROVE  LoopInv'
<1> USE DEF loopVars, flagVars, treeVars, requestVars, ghostVars
<1>1. CASE GivesUp
  BY <1>1 DEF GivesUp, RebuildTries, LoopInv, InScan
<1>2. CASE StartBuild
  BY <1>2 DEF StartBuild, LoopInv, InScan
<1>3. CASE DoOneCpu
  BY <1>3 DEF DoOneCpu, LoopInv, InScan
<1>4. CASE CpuNoMemory
  BY <1>4 DEF CpuNoMemory, LoopInv, InScan
<1>5. CASE EndBuild
  BY <1>5 DEF EndBuild, LoopInv, InScan
<1>6. CASE Parse
  BY <1>6 DEF Parse, LoopInv, InScan
<1>7. CASE Reparse
  BY <1>7 DEF Reparse, LoopInv, InScan
<1>8. CASE Rescan
  BY <1>8 DEF Rescan, LoopInv, InScan
<1>9. CASE Balance
  BY <1>9 DEF Balance, LoopInv, InScan
<1>10. CASE Out
  BY <1>10 DEF Out, LoopInv, InScan
<1>11. CASE Poll
  BY <1>11 DEF Poll, LoopInv, InScan
<1>12. CASE Quit
  BY <1>12 DEF Quit, LoopInv, InScan
<1>13. CASE EndIteration
  BY <1>13 DEF EndIteration, LoopInv, InScan
<1>14. CASE Timer
  BY <1>14 DEF Timer, Takes, LoopInv, InScan
<1>15. CASE Term
  BY <1>15 DEF Term, Takes, LoopInv, InScan
<1>16. CASE Hup
  BY <1>16 DEF Hup, Takes, LoopInv, InScan
<1>17. CASE SettingsSleep
  BY <1>17 DEF SettingsSleep, Takes, LoopInv, InScan
<1>18. CASE SettingsCpus
  BY <1>18 DEF SettingsCpus, Takes, LoopInv, InScan
<1>19. CASE SettingsIrqs
  BY <1>19 DEF SettingsIrqs, Takes, LoopInv, InScan
<1>20. CASE ThermalWindow
  BY <1>20 DEF ThermalWindow, Takes, LoopInv, InScan
<1>21. CASE Offline
  BY <1>21 DEF Offline, LoopInv, InScan
<1>22. CASE Online
  BY <1>22 DEF Online, LoopInv, InScan
<1>23. CASE UNCHANGED vars
  BY <1>23 DEF vars, LoopInv, InScan
<1>24. CASE SettingsNoMemory
  BY <1>24 DEF SettingsNoMemory, Takes, LoopInv, InScan
<1> QED
  BY <1>1, <1>2, <1>3, <1>4, <1>5, <1>6, <1>7, <1>8, <1>9, <1>10, <1>11, <1>12, <1>13,
     <1>14, <1>15, <1>16, <1>17, <1>18, <1>19, <1>20, <1>21, <1>22, <1>23, <1>24
     DEF Next, Daemon, Hotplug, Done, Building, Scanning, Looping

\* The timer of the loop is replaced, never lost nor doubled.
LEMMA TimerNext ==
    ASSUME TypeOK, LoopInv, TimerInv, [Next]_vars
    PROVE  TimerInv'
<1> USE DEF loopVars, flagVars, treeVars, requestVars, ghostVars
<1>1. CASE GivesUp
  BY <1>1 DEF GivesUp, clear_cpu_tree, LoopInv, TimerInv, OneTimer, InScan
<1>2. CASE StartBuild
  BY <1>2 DEF StartBuild, clear_cpu_tree, LoopInv, TimerInv, OneTimer, InScan
<1>3. CASE DoOneCpu
  BY <1>3 DEF DoOneCpu, LoopInv, TimerInv, OneTimer, InScan
<1>4. CASE CpuNoMemory
  BY <1>4 DEF CpuNoMemory, LoopInv, TimerInv, OneTimer, InScan
<1>5. CASE EndBuild
  BY <1>5 DEF EndBuild, LoopInv, TimerInv, OneTimer, InScan
<1>6. CASE Parse
  BY <1>6 DEF Parse, ParseProcInterrupts, LoopInv, TimerInv, OneTimer, InScan
<1>7. CASE Reparse
  BY <1>7 DEF Reparse, ParseProcInterrupts, LoopInv, TimerInv, OneTimer, InScan
<1>8. CASE Rescan
  BY <1>8 DEF Rescan, LoopInv, TimerInv, OneTimer, InScan
<1>9. CASE Balance
  BY <1>9 DEF Balance, LoopInv, TimerInv, OneTimer, InScan
<1>10. CASE Out
  <2>1. timers = <<last_interval>> /\ ~starting
    BY <1>10 DEF Out, LoopInv, TimerInv, InScan
  <2>2. Tail(timers) = <<>>
    BY <2>1
  <2>3. running' => timers' = <<sleep_interval>>
    <3>1. CASE last_interval # sleep_interval
      <4>1. timers' = Append(<<>>, sleep_interval)
        BY <1>10, <2>2, <3>1 DEF Out, Timers
      <4>2. sleep_interval \in Intervals \cup {DefaultInterval}
        BY DEF TypeOK
      <4> QED
        BY <4>1, <4>2
    <3>2. CASE last_interval = sleep_interval
      BY <1>10, <2>1, <3>2 DEF Out, Timers, TypeOK
    <3> QED
      BY <3>1, <3>2
  <2> QED
    BY <1>10, <2>3 DEF Out, LoopInv, TimerInv, OneTimer, InScan
<1>11. CASE Poll
  BY <1>11 DEF Poll, LoopInv, TimerInv, OneTimer, InScan
<1>12. CASE Quit
  BY <1>12 DEF Quit, LoopInv, TimerInv, OneTimer, InScan
<1>13. CASE EndIteration
  BY <1>13 DEF EndIteration, LoopInv, TimerInv, OneTimer, InScan
<1>14. CASE Timer
  BY <1>14 DEF Timer, Takes, LoopInv, TimerInv, OneTimer, InScan
<1>15. CASE Term
  BY <1>15 DEF Term, Takes, LoopInv, TimerInv, OneTimer, InScan
<1>16. CASE Hup
  BY <1>16 DEF Hup, Takes, LoopInv, TimerInv, OneTimer, InScan
<1>17. CASE SettingsSleep
  BY <1>17 DEF SettingsSleep, Takes, LoopInv, TimerInv, OneTimer, InScan
<1>18. CASE SettingsCpus
  BY <1>18 DEF SettingsCpus, Takes, LoopInv, TimerInv, OneTimer, InScan
<1>19. CASE SettingsIrqs
  BY <1>19 DEF SettingsIrqs, Takes, LoopInv, TimerInv, OneTimer, InScan
<1>20. CASE ThermalWindow
  BY <1>20 DEF ThermalWindow, Takes, LoopInv, TimerInv, OneTimer, InScan
<1>21. CASE Offline
  BY <1>21 DEF Offline, LoopInv, TimerInv, OneTimer, InScan
<1>22. CASE Online
  BY <1>22 DEF Online, LoopInv, TimerInv, OneTimer, InScan
<1>23. CASE UNCHANGED vars
  BY <1>23 DEF vars, LoopInv, TimerInv, OneTimer, InScan
<1>24. CASE SettingsNoMemory
  BY <1>24 DEF SettingsNoMemory, Takes, LoopInv, TimerInv, OneTimer, InScan
<1> QED
  BY <1>1, <1>2, <1>3, <1>4, <1>5, <1>6, <1>7, <1>8, <1>9, <1>10, <1>11, <1>12, <1>13,
     <1>14, <1>15, <1>16, <1>17, <1>18, <1>19, <1>20, <1>21, <1>22, <1>23, <1>24
     DEF Next, Daemon, Hotplug, Done, Building, Scanning, Looping

\* A second try follows a failure only.
LEMMA RetryNext ==
    ASSUME TypeOK, LoopInv, RetryInv, [Next]_vars
    PROVE  RetryInv'
<1> USE DEF loopVars, flagVars, treeVars, requestVars, ghostVars
<1>1. CASE GivesUp
  BY <1>1 DEF GivesUp, clear_cpu_tree, RetryInv, TypeOK, LoopInv
<1>2. CASE StartBuild
  BY <1>2 DEF StartBuild, clear_cpu_tree, RetryInv, TypeOK, LoopInv
<1>3. CASE DoOneCpu
  BY <1>3 DEF DoOneCpu, RetryInv, TypeOK, LoopInv
<1>4. CASE CpuNoMemory
  BY <1>4 DEF CpuNoMemory, RetryInv, TypeOK, LoopInv
<1>5. CASE EndBuild
  BY <1>5 DEF EndBuild, RetryInv, TypeOK, LoopInv
<1>6. CASE Parse
  BY <1>6 DEF Parse, ParseProcInterrupts, RetryInv, TypeOK, LoopInv
<1>7. CASE Reparse
  BY <1>7 DEF Reparse, ParseProcInterrupts, RetryInv, TypeOK, LoopInv
<1>8. CASE Rescan
  BY <1>8 DEF Rescan, RetryInv, TypeOK, LoopInv
<1>9. CASE Balance
  BY <1>9 DEF Balance, RetryInv, TypeOK, LoopInv
<1>10. CASE Out
  BY <1>10 DEF Out, RetryInv, TypeOK, LoopInv
<1>11. CASE Poll
  BY <1>11 DEF Poll, RetryInv, TypeOK, LoopInv
<1>12. CASE Quit
  BY <1>12 DEF Quit, RetryInv, TypeOK, LoopInv
<1>13. CASE EndIteration
  BY <1>13 DEF EndIteration, RetryInv, TypeOK, LoopInv
<1>14. CASE Timer
  BY <1>14 DEF Timer, Takes, RetryInv, TypeOK, LoopInv
<1>15. CASE Term
  BY <1>15 DEF Term, Takes, RetryInv, TypeOK, LoopInv
<1>16. CASE Hup
  BY <1>16 DEF Hup, Takes, RetryInv, TypeOK, LoopInv
<1>17. CASE SettingsSleep
  BY <1>17 DEF SettingsSleep, Takes, RetryInv, TypeOK, LoopInv
<1>18. CASE SettingsCpus
  BY <1>18 DEF SettingsCpus, Takes, RetryInv, TypeOK, LoopInv
<1>19. CASE SettingsIrqs
  BY <1>19 DEF SettingsIrqs, Takes, RetryInv, TypeOK, LoopInv
<1>20. CASE ThermalWindow
  BY <1>20 DEF ThermalWindow, Takes, RetryInv, TypeOK, LoopInv
<1>21. CASE Offline
  BY <1>21 DEF Offline, RetryInv, TypeOK, LoopInv
<1>22. CASE Online
  BY <1>22 DEF Online, RetryInv, TypeOK, LoopInv
<1>23. CASE UNCHANGED vars
  BY <1>23 DEF vars, RetryInv, TypeOK, LoopInv
<1>24. CASE SettingsNoMemory
  BY <1>24 DEF SettingsNoMemory, Takes, RetryInv, TypeOK, LoopInv
<1> QED
  BY <1>1, <1>2, <1>3, <1>4, <1>5, <1>6, <1>7, <1>8, <1>9, <1>10, <1>11, <1>12, <1>13,
     <1>14, <1>15, <1>16, <1>17, <1>18, <1>19, <1>20, <1>21, <1>22, <1>23, <1>24
     DEF Next, Daemon, Hotplug, Done, Building, Scanning, Looping

\* Bans asked for reach the tree, or a rescan is due.
LEMMA BanNext ==
    ASSUME TypeOK, LoopInv, RetryInv, BanInv, [Next]_vars
    PROVE  BanInv'
<1> USE DEF loopVars, flagVars, treeVars, requestVars, ghostVars
<1>1. CASE GivesUp
  BY <1>1 DEF GivesUp, RebuildTries, RetryInv, BanInv, HasTree, Bans
<1>2. CASE StartBuild
  BY <1>2 DEF StartBuild, clear_cpu_tree, BanInv, HasTree, Bans, WantedBans, TypeOK,
     LoopInv, RetryInv
<1>3. CASE DoOneCpu
  BY <1>3 DEF DoOneCpu, BanInv, HasTree, Bans, WantedBans, TypeOK, LoopInv, RetryInv
<1>4. CASE CpuNoMemory
  BY <1>4 DEF CpuNoMemory, BanInv, HasTree, Bans, WantedBans, TypeOK, LoopInv, RetryInv
<1>5. CASE EndBuild
  BY <1>5 DEF EndBuild, BanInv, HasTree, Bans, WantedBans, TypeOK, LoopInv, RetryInv
<1>6. CASE Parse
  BY <1>6 DEF Parse, ParseProcInterrupts, BanInv, HasTree, Bans, WantedBans, TypeOK,
     LoopInv, RetryInv
<1>7. CASE Reparse
  BY <1>7 DEF Reparse, ParseProcInterrupts, BanInv, HasTree, Bans, WantedBans, TypeOK,
     LoopInv, RetryInv
<1>8. CASE Rescan
  BY <1>8 DEF Rescan, BanInv, HasTree, Bans, WantedBans, TypeOK, LoopInv, RetryInv
<1>9. CASE Balance
  BY <1>9 DEF Balance, BanInv, HasTree, Bans, WantedBans, TypeOK, LoopInv, RetryInv
<1>10. CASE Out
  BY <1>10 DEF Out, BanInv, HasTree, Bans, WantedBans, TypeOK, LoopInv, RetryInv
<1>11. CASE Poll
  BY <1>11 DEF Poll, BanInv, HasTree, Bans, WantedBans, TypeOK, LoopInv, RetryInv
<1>12. CASE Quit
  BY <1>12 DEF Quit, BanInv, HasTree, Bans, WantedBans, TypeOK, LoopInv, RetryInv
<1>13. CASE EndIteration
  BY <1>13 DEF EndIteration, BanInv, HasTree, Bans, WantedBans, TypeOK, LoopInv, RetryInv
<1>14. CASE Timer
  BY <1>14 DEF Timer, Takes, BanInv, HasTree, Bans, WantedBans, TypeOK, LoopInv, RetryInv
<1>15. CASE Term
  BY <1>15 DEF Term, Takes, BanInv, HasTree, Bans, WantedBans, TypeOK, LoopInv, RetryInv
<1>16. CASE Hup
  BY <1>16 DEF Hup, Takes, BanInv, HasTree, Bans, WantedBans, TypeOK, LoopInv, RetryInv
<1>17. CASE SettingsSleep
  BY <1>17 DEF SettingsSleep, Takes, BanInv, HasTree, Bans, WantedBans, TypeOK, LoopInv,
     RetryInv
<1>18. CASE SettingsCpus
  BY <1>18 DEF SettingsCpus, Takes, BanInv, HasTree, Bans, WantedBans, TypeOK, LoopInv,
     RetryInv
<1>19. CASE SettingsIrqs
  BY <1>19 DEF SettingsIrqs, Takes, BanInv, HasTree, Bans, WantedBans, TypeOK, LoopInv,
     RetryInv
<1>20. CASE ThermalWindow
  BY <1>20 DEF ThermalWindow, Takes, BanInv, HasTree, Bans, WantedBans, TypeOK, LoopInv,
     RetryInv
<1>21. CASE Offline
  BY <1>21 DEF Offline, BanInv, HasTree, Bans, WantedBans, TypeOK, LoopInv, RetryInv
<1>22. CASE Online
  BY <1>22 DEF Online, BanInv, HasTree, Bans, WantedBans, TypeOK, LoopInv, RetryInv
<1>23. CASE UNCHANGED vars
  BY <1>23 DEF vars, BanInv, HasTree, Bans, WantedBans, TypeOK, LoopInv, RetryInv
<1>24. CASE SettingsNoMemory
  BY <1>24 DEF SettingsNoMemory, Takes, BanInv, HasTree, Bans, WantedBans, TypeOK,
     LoopInv, RetryInv
<1> QED
  BY <1>1, <1>2, <1>3, <1>4, <1>5, <1>6, <1>7, <1>8, <1>9, <1>10, <1>11, <1>12, <1>13,
     <1>14, <1>15, <1>16, <1>17, <1>18, <1>19, <1>20, <1>21, <1>22, <1>23, <1>24
     DEF Next, Daemon, Hotplug, Done, Building, Scanning, Looping

\* A cpu that stays online stays in the tree, or the tree is rebuilt.
LEMMA SteadyNext ==
    ASSUME TypeOK, LoopInv, RetryInv, SteadyInv, [Next]_vars
    PROVE  SteadyInv'
<1> USE DEF loopVars, flagVars, treeVars, requestVars, ghostVars
<1>1. CASE GivesUp
  BY <1>1 DEF GivesUp, RebuildTries, RetryInv, SteadyInv, HasTree
<1>2. CASE StartBuild
  BY <1>2 DEF StartBuild, clear_cpu_tree, SteadyInv, HasTree, TypeOK, LoopInv,
     RetryInv
<1>3. CASE DoOneCpu
  BY <1>3 DEF DoOneCpu, SteadyInv, HasTree, TypeOK, LoopInv, RetryInv
<1>4. CASE CpuNoMemory
  BY <1>4 DEF CpuNoMemory, SteadyInv, HasTree, TypeOK, LoopInv, RetryInv
<1>5. CASE EndBuild
  BY <1>5 DEF EndBuild, SteadyInv, HasTree, TypeOK, LoopInv, RetryInv
<1>6. CASE Parse
  BY <1>6 DEF Parse, ParseProcInterrupts, SteadyInv, HasTree, TypeOK, LoopInv,
     RetryInv
<1>7. CASE Reparse
  BY <1>7 DEF Reparse, ParseProcInterrupts, SteadyInv, HasTree, TypeOK, LoopInv,
     RetryInv
<1>8. CASE Rescan
  BY <1>8 DEF Rescan, SteadyInv, HasTree, TypeOK, LoopInv, RetryInv
<1>9. CASE Balance
  BY <1>9 DEF Balance, SteadyInv, HasTree, TypeOK, LoopInv, RetryInv
<1>10. CASE Out
  BY <1>10 DEF Out, SteadyInv, HasTree, TypeOK, LoopInv, RetryInv
<1>11. CASE Poll
  BY <1>11 DEF Poll, SteadyInv, HasTree, TypeOK, LoopInv, RetryInv
<1>12. CASE Quit
  BY <1>12 DEF Quit, SteadyInv, HasTree, TypeOK, LoopInv, RetryInv
<1>13. CASE EndIteration
  BY <1>13 DEF EndIteration, SteadyInv, HasTree, TypeOK, LoopInv, RetryInv
<1>14. CASE Timer
  BY <1>14 DEF Timer, Takes, SteadyInv, HasTree, TypeOK, LoopInv, RetryInv
<1>15. CASE Term
  BY <1>15 DEF Term, Takes, SteadyInv, HasTree, TypeOK, LoopInv, RetryInv
<1>16. CASE Hup
  BY <1>16 DEF Hup, Takes, SteadyInv, HasTree, TypeOK, LoopInv, RetryInv
<1>17. CASE SettingsSleep
  BY <1>17 DEF SettingsSleep, Takes, SteadyInv, HasTree, TypeOK, LoopInv, RetryInv
<1>18. CASE SettingsCpus
  BY <1>18 DEF SettingsCpus, Takes, SteadyInv, HasTree, TypeOK, LoopInv, RetryInv
<1>19. CASE SettingsIrqs
  BY <1>19 DEF SettingsIrqs, Takes, SteadyInv, HasTree, TypeOK, LoopInv, RetryInv
<1>20. CASE ThermalWindow
  BY <1>20 DEF ThermalWindow, Takes, SteadyInv, HasTree, TypeOK, LoopInv, RetryInv
<1>21. CASE Offline
  BY <1>21 DEF Offline, SteadyInv, HasTree, TypeOK, LoopInv, RetryInv
<1>22. CASE Online
  BY <1>22 DEF Online, SteadyInv, HasTree, TypeOK, LoopInv, RetryInv
<1>23. CASE UNCHANGED vars
  BY <1>23 DEF vars, SteadyInv, HasTree, TypeOK, LoopInv, RetryInv
<1>24. CASE SettingsNoMemory
  BY <1>24 DEF SettingsNoMemory, Takes, SteadyInv, HasTree, TypeOK, LoopInv,
     RetryInv
<1> QED
  BY <1>1, <1>2, <1>3, <1>4, <1>5, <1>6, <1>7, <1>8, <1>9, <1>10, <1>11, <1>12, <1>13,
     <1>14, <1>15, <1>16, <1>17, <1>18, <1>19, <1>20, <1>21, <1>22, <1>23, <1>24
     DEF Next, Daemon, Hotplug, Done, Building, Scanning, Looping

-----------------------------------------------------------------------------
(* Theorems                                                                *)

\* main() starts in a state of the invariant.
LEMMA LoopInit == Init => IInv
<1> SUFFICES ASSUME Init PROVE IInv
  OBVIOUS
<1>1. TypeOK
  <2>1. 0 \in 0 .. RebuildTries
    BY DEF RebuildTries
  <2>2. MaxEvents \in 0 .. MaxEvents
    BY RequestAssumption
  <2>3. <<>> \in Seq(Intervals \cup {DefaultInterval})
    OBVIOUS
  <2> QED
    BY <2>1, <2>2, <2>3, CpuAssumption, RequestAssumption DEF Init, TypeOK
<1>2. LoopInv /\ TimerInv /\ RetryInv /\ BanInv /\ SteadyInv
  BY DEF Init, LoopInv, InScan, TimerInv, OneTimer, RetryInv, BanInv, SteadyInv, HasTree
<1> QED
  BY <1>1, <1>2 DEF IInv

\* Only the balancing branch of scan() goes on from the check to the end.
LEMMA PassIsBalance ==
    ASSUME [Next]_vars, Passes
    PROVE  Balance
  BY DEF Passes, Next, Daemon, Hotplug, Done, Building, Scanning, Looping, GivesUp,
     StartBuild, DoOneCpu, CpuNoMemory, EndBuild, Parse, Reparse, Rescan, Out, Poll,
     Quit, EndIteration, Timer, Term, Hup, SettingsSleep, SettingsCpus, SettingsIrqs,
     SettingsNoMemory, ThermalWindow, Takes, Offline, Online, vars, loopVars

\* The invariant holds throughout the life of the daemon.
THEOREM LoopInductive == Spec => []IInv
<1>1. IInv /\ [Next]_vars => IInv'
  BY TypeNext, LoopNext, TimerNext, RetryNext, BanNext, SteadyNext DEF IInv
<1> QED
  BY LoopInit, <1>1, PTL DEF Spec

\* Every variable of the daemon keeps its type, however many events disturb it.
THEOREM DaemonTypeCorrect == Spec => []TypeOK
<1>1. IInv => TypeOK
  BY DEF IInv
<1> QED
  BY LoopInductive, <1>1, PTL

\* However the interval is changed, through the socket in any turn of the loop and as
\* often as one likes, scan() has exactly one timer, the one it compares with.
THEOREM DaemonOneTimer == Spec => []OneTimer
<1>1. IInv => OneTimer
  BY DEF IInv, TimerInv
<1> QED
  BY LoopInductive, <1>1, PTL

\* Whatever cpus come and go during a build, whatever allocations and reads of /proc
\* fail, and whatever rescans gave up before, a pass of a daemon that keeps going finds
\* in the tree every cpu that has been online since its build began.
THEOREM DaemonCompleteTree == Spec => CompleteTree
<1>1. IInv /\ [Next]_vars => [Passes /\ keep_going => steady \subseteq cpu_online_map]_vars
  <2> SUFFICES ASSUME IInv, [Next]_vars, Passes, keep_going
               PROVE  steady \subseteq cpu_online_map
    OBVIOUS
  <2>1. Balance
    BY PassIsBalance
  <2>2. ~need_rebuild
    BY <2>1 DEF Balance, MustRescan
  <2> QED
    BY <2>2 DEF IInv, SteadyInv, HasTree, Passes
<1> QED
  BY LoopInductive, <1>1, PTL DEF Spec, CompleteTree

\* However requests for bans, thermal windows, rescans and failures interleave, a pass
\* of a daemon that keeps going has the bans of cpus of the last list that got through, or
\* none but the default once a rescan has come upon a list lost for lack of memory, those
\* of the last thermal window, and the bans of irqs the daemon has been told.
THEOREM DaemonBansCurrent == Spec => BansCurrent
<1>1. IInv /\ [Next]_vars =>
          [Passes /\ keep_going =>
              banned_cpus = Bans(in_force) /\ db_banned = cl_banned_irqs]_vars
  <2> SUFFICES ASSUME IInv, [Next]_vars, Passes, keep_going
               PROVE  banned_cpus = Bans(in_force) /\ db_banned = cl_banned_irqs
    OBVIOUS
  <2>1. Balance
    BY PassIsBalance
  <2>2. ~need_rebuild /\ ~need_rescan
    BY <2>1 DEF Balance, MustRescan
  <2> QED
    BY <2>2 DEF IInv, BanInv, HasTree, Passes
<1> QED
  BY LoopInductive, <1>1, PTL DEF Spec, BansCurrent
=============================================================================
