--------------------------- MODULE BalancerProofs ---------------------------
(***************************************************************************)
(* Proofs about Balancer, for every topology, every set of irqs and every  *)
(* behaviour of the kernel.                                                *)
(***************************************************************************)
EXTENDS Balancer, SequenceFacts, FiniteSetTheorems, TLAPS

-----------------------------------------------------------------------------
(* The inductive invariant                                                 *)

\* The loops over objects: lb.list is the list being worked on, and a loop that
\* looks at the head of objs or of work has one.
LoopOK ==
    /\ DOMAIN lb = DOMAIN NoInfo
    /\ lb.list \in 0 .. 4
    /\ pc \notin {"gather", "objects", "candidates", "powersave"} => lb.list = 0
    /\ pc = "gather" => lb.list # 4
    /\ pc \in {"objects", "candidates"} => lb.list # 0
    /\ pc = "powersave" => lb.list = 1
    /\ pc = "push" => objs # <<>>
    /\ pc = "fallback" => work # <<>>

\* An irq that is not in the database has a structure that is yet to be created.
Absent ==
    \A i \in Irqs \ Range(interrupts_db) :
        assigned_obj[i] = NULL /\ ~moved[i] /\ level[i] = policy_level[i]

\* interrupts_db holds no irq twice and none that is banned.
DbOK ==
    /\ IsInjective(interrupts_db)
    /\ Range(interrupts_db) \cap BannedIrqs = {}

\* Every loop but the parser walks over irqs of the database, each of them once.
WorkOK ==
    pc # "parse" =>
        IsInjective(work) /\ Range(work) \subseteq Range(interrupts_db)

\* What each loop knows about the irqs it still has to visit.
PhaseOK ==
    /\ pc = "force" => \A i \in Range(work) :
                          assigned_obj[i] = NULL /\ i \notin Range(interrupts[NULL])
    /\ pc \in {"candidates", "powersave"} =>
          \A i \in Range(work) : assigned_obj[i] # NULL
    /\ pc = "place" => \A i \in Range(work) : level[i] # "NONE"
    /\ pc = "push" => Range(work) \subseteq Range(interrupts[Head(objs)])
    /\ pc = "fallback" => moved[Head(work)] /\ assigned_obj[Head(work)] # NULL

ListInv == ListsAgree /\ ListsLive /\ Absent /\ DbOK

IInv ==
    /\ TypeOK /\ LoopOK /\ WorkOK /\ PhaseOK
    /\ ListInv
    /\ NoIrqLost /\ NoneStays /\ SlotsBounded /\ AffinityApplied

-----------------------------------------------------------------------------
(* Types                                                                   *)

\* INT_MAX is a number that is not negative; no proof needs its value.
LEMMA IntMaxFacts == INT_MAX \in Nat /\ INT_MAX > SLOTS_SATURATED
  BY SMT DEF INT_MAX, SLOTS_SATURATED

\* The entries a loop takes next.
LEMMA LoopFacts ==
    ASSUME TypeOK
    PROVE  /\ work # <<>> => /\ Head(work) \in Irqs
                             /\ Head(work) \in Range(work)
                             /\ Tail(work) \in Seq(Irqs)
           /\ objs # <<>> => Head(objs) \in Objects /\ Tail(objs) \in Seq(Objects)
<1>1. work \in Seq(Irqs) /\ objs \in Seq(Objects)
  BY DEF TypeOK
<1> QED
  BY <1>1, TailFacts

\* The lists are sequences of irqs.
LEMMA ListTypes ==
    ASSUME TypeOK, NEW h \in Holders
    PROVE  /\ interrupts[h] \in Seq(Irqs)
           /\ Range(interrupts[h]) \subseteq Irqs
           /\ Range(interrupts_db) \subseteq Irqs
           /\ Range(work) \subseteq Irqs
<1>1. interrupts[h] \in Seq(Irqs) /\ interrupts_db \in Seq(Irqs) /\ work \in Seq(Irqs)
  BY DEF TypeOK
<1>2. \A s \in Seq(Irqs) : Range(s) \subseteq Irqs
  BY DEF Range
<1> QED
  BY <1>1, <1>2

\* migrate_irq_obj keeps the types.
LEMMA MigrateTypes ==
    ASSUME TypeOK, ListsAgree,
           NEW from \in Holders, NEW to \in Holders, NEW i \in Irqs
    PROVE  /\ ListsAfter(from, to, i) \in [Holders -> Seq(Irqs)]
           /\ SlotsAfter(from, to, i) \in [Objects -> Int]
           /\ AssignedAfter(from, to, i) \in [Irqs -> Holders]
           /\ MovedAfter(from, i) \in BOOLEAN
<1>1. ListsAfter(from, to, i) \in [Holders -> Seq(Irqs)]
  <2>1. interrupts \in [Holders -> Seq(Irqs)] /\ IsInjective(interrupts[from])
    BY DEF TypeOK, ListsAgree
  <2>2. RemoveFirst(interrupts[from], i) \in Seq(Irqs)
    BY <2>1, RemoveFirstFacts
  <2>3. \A s \in Seq(Irqs) : Append(s, i) \in Seq(Irqs)
    OBVIOUS
  <2> QED
    BY <2>1, <2>2, <2>3 DEF ListsAfter
<1>2. SlotsAfter(from, to, i) \in [Objects -> Int]
  BY IntMaxFacts DEF TypeOK, SlotsAfter
<1>3. AssignedAfter(from, to, i) \in [Irqs -> Holders]
  BY DEF TypeOK, AssignedAfter
<1>4. MovedAfter(from, i) \in BOOLEAN
  BY DEF TypeOK, MovedAfter, OnList
<1> QED
  BY <1>1, <1>2, <1>3, <1>4

\* sort_irq_list changes the order of a list and nothing else.
LEMMA SortedFacts ==
    ASSUME NEW s \in Seq(Irqs), NEW t \in SortedLists(s)
    PROVE  /\ t \in Seq(Irqs)
           /\ Range(t) = Range(s)
           /\ IsInjective(s) => IsInjective(t)
<1>1. PICK p \in Bijection(1 .. Len(s), 1 .. Len(s)) :
           t = [k \in 1 .. Len(s) |-> s[p[k]]]
  BY DEF SortedLists
<1> QED
  BY <1>1, PermutationFacts

\* rebuild_irq_db: the database and the work left are the same list, of irqs
\* that are not banned, none twice.
LEMMA BuildFacts ==
    ASSUME Build
    PROVE  /\ interrupts_db' \in Seq(Irqs) /\ work' = interrupts_db'
           /\ IsInjective(interrupts_db')
           /\ Range(interrupts_db') \subseteq Irqs \ BannedIrqs
           /\ banned_irqs' \in SUBSET BannedIrqs
<1>0. PICK K \in KernelIrqs : \E db \in SetToSeqs(K \ BannedIrqs) :
         interrupts_db' = db /\ banned_irqs' = K \cap BannedIrqs /\ work' = db
  BY DEF Build
<1>1. PICK db \in SetToSeqs(K \ BannedIrqs) :
         interrupts_db' = db /\ banned_irqs' = K \cap BannedIrqs /\ work' = db
  BY <1>0
<1>2. K \in SUBSET Irqs
  BY IrqAssumption
<1>3. Cardinality(K \ BannedIrqs) \in Nat
  BY <1>2, IrqAssumption, FS_Subset, FS_CardinalityType
<1>4. /\ db \in [1 .. Cardinality(K \ BannedIrqs) -> K \ BannedIrqs]
      /\ IsInjective(db)
  BY <1>1 DEF SetToSeqs, IsInjective
<1>5. db \in Seq(Irqs)
  <2>1. PICK n \in Nat : n = Cardinality(K \ BannedIrqs)
    BY <1>3
  <2>2. db \in [1 .. n -> Irqs]
    BY <1>2, <1>4, <2>1, Zenon
  <2> QED
    BY <2>2, FunctionIsSeq, Zenon
<1>6. Range(db) \subseteq Irqs \ BannedIrqs
  BY <1>2, <1>4, Zenon DEF Range
<1> QED
  BY <1>1, <1>4, <1>5, <1>6, Zenon

\* A file that lists irqs in increasing order lists none twice.
LEMMA LinesFacts ==
    ASSUME NEW S \in SUBSET Irqs, NEW s \in LinesOf(S)
    PROVE  s \in Seq(Irqs) /\ Range(s) \subseteq S /\ IsInjective(s)
<1>1. Cardinality(S) \in Nat
  BY IrqAssumption, FS_Subset, FS_CardinalityType
<1>2. PICK n \in 0 .. Cardinality(S) : s \in [1 .. n -> S]
  BY DEF LinesOf
<1>3. n \in Nat
  BY <1>1
<1>4. \A a, b \in 1 .. n : a < b => s[a] < s[b]
  BY <1>2 DEF LinesOf
<1>5. \A a \in 1 .. n : s[a] \in Nat
  BY <1>2, IrqAssumption
<1>6. ASSUME NEW a \in 1 .. n, NEW b \in 1 .. n, s[a] = s[b]
      PROVE  a = b
  <2>1. CASE a < b
    BY <1>3, <1>4, <1>5, <1>6, <2>1
  <2>2. CASE b < a
    BY <1>3, <1>4, <1>5, <1>6, <2>2
  <2> QED
    BY <1>3, <2>1, <2>2
<1>7. IsInjective(s)
  BY <1>2, <1>6 DEF IsInjective
<1>8. s \in Seq(Irqs)
  BY <1>2, <1>3
<1>9. Range(s) \subseteq S
  BY <1>2 DEF Range
<1> QED
  BY <1>7, <1>8, <1>9

\* What the steps of update_migration_status do to the part of
\* load_balance_info that the control depends on.
LEMMA InfoFacts ==
    ASSUME TypeOK, LoopOK
    PROVE  /\ \A o \in Objects : /\ DOMAIN Counted(o) = DOMAIN NoInfo
                                 /\ Counted(o).list = lb.list
                                 /\ Counted(o).powersave \in Holders
           /\ \A o \in Objects : LET c == [Counted(o) EXCEPT !.adj = load[o]]
                                 IN  /\ DOMAIN c = DOMAIN NoInfo
                                     /\ c.list = lb.list
                                     /\ c.powersave \in Holders
           /\ \A i \in Irqs : /\ DOMAIN Taken(i) = DOMAIN NoInfo
                              /\ Taken(i).list = lb.list
                              /\ Taken(i).powersave \in Holders
           /\ \A k \in 1 .. 4 : /\ DOMAIN LoadStats(k) = DOMAIN NoInfo
                                /\ LoadStats(k).list = k
                                /\ LoadStats(k).powersave \in Holders
           /\ NoInfo.list = 0 /\ NoInfo.powersave \in Holders
<1>1. lb.powersave \in Holders /\ lb.list \in 0 .. 4 /\ DOMAIN lb = DOMAIN NoInfo
  BY DEF TypeOK, LoopOK
<1>2. ASSUME NEW o \in Objects
      PROVE  /\ DOMAIN Counted(o) = DOMAIN NoInfo
             /\ Counted(o).list = lb.list
             /\ Counted(o).powersave \in Holders
  BY <1>1, SMT DEF Counted, Holders, NoInfo
<1>3. ASSUME NEW o \in Objects
      PROVE  LET c == [Counted(o) EXCEPT !.adj = load[o]]
             IN  /\ DOMAIN c = DOMAIN NoInfo
                 /\ c.list = lb.list
                 /\ c.powersave \in Holders
  BY <1>2, SMT DEF NoInfo
<1>4. ASSUME NEW i \in Irqs
      PROVE  /\ DOMAIN Taken(i) = DOMAIN NoInfo
             /\ Taken(i).list = lb.list
             /\ Taken(i).powersave \in Holders
  BY <1>1, SMT DEF Taken, NoInfo
<1>5. ASSUME NEW k \in 1 .. 4
      PROVE  /\ DOMAIN LoadStats(k) = DOMAIN NoInfo
             /\ LoadStats(k).list = k
             /\ LoadStats(k).powersave \in Holders
  BY SMT DEF LoadStats, NoInfo, Holders
<1>6. NoInfo.list = 0 /\ NoInfo.powersave \in Holders
  BY DEF NoInfo, Holders
<1> QED
  BY <1>2, <1>3, <1>4, <1>5, <1>6

\* The variables that moving an irq changes.
PlaceTypes ==
    /\ interrupts \in [Holders -> Seq(Irqs)]
    /\ assigned_obj \in [Irqs -> Holders]
    /\ moved \in [Irqs -> BOOLEAN]
    /\ slots_left \in [Objects -> Int]

\* migrate_irq_obj, as a step.
LEMMA MigrateStepTypes ==
    ASSUME TypeOK, ListsAgree,
           NEW from \in Holders, NEW to \in Holders, NEW i \in Irqs,
           migrate_irq_obj(from, to, i)
    PROVE  PlaceTypes'
  BY MigrateTypes DEF migrate_irq_obj, PlaceTypes, TypeOK

\* force_rebalance_irq keeps the types as well.
LEMMA ForceStepTypes ==
    ASSUME TypeOK, ListsAgree, NEW i \in Irqs, force_rebalance_irq(i)
    PROVE  PlaceTypes'
<1>1. NULL \in Holders /\ assigned_obj[i] \in Holders
  BY DEF TypeOK, Holders
<1>2. CASE /\ interrupts' = [interrupts EXCEPT ![NULL] = Append(@, i)]
           /\ UNCHANGED <<moved, slots_left, load, assigned_obj>>
  <2>1. \A s \in Seq(Irqs) : Append(s, i) \in Seq(Irqs)
    OBVIOUS
  <2> QED
    BY <1>1, <1>2, <2>1 DEF PlaceTypes, TypeOK
<1>3. CASE UNCHANGED <<interrupts, moved, slots_left, load, assigned_obj>>
  BY <1>3 DEF PlaceTypes, TypeOK
<1>4. CASE migrate_irq_obj(assigned_obj[i], NULL, i)
  BY <1>1, <1>4, MigrateStepTypes
<1> QED
  BY <1>2, <1>3, <1>4 DEF force_rebalance_irq

\* The other variables.
OtherTypes ==
    /\ pc \in PCs
    /\ objs \in Seq(Objects)
    /\ work \in Seq(Irqs)
    /\ rescanning \in BOOLEAN
    /\ interrupts_db \in Seq(Irqs)
    /\ banned_irqs \in SUBSET BannedIrqs
    /\ level \in [Irqs -> Levels]
    /\ existing \in [Irqs -> BOOLEAN]
    /\ powersave_mode \in [Objects -> BOOLEAN]
    /\ cycle_count \in Nat
    /\ need_rescan \in BOOLEAN
    /\ smp_affinity \in [Irqs -> SUBSET CpuIds]
    /\ lb.powersave \in Holders
    /\ fb.tried \subseteq CpuIds /\ fb.attempts \in Nat

\* The two parts make up the type invariant.
LEMMA TypesSplit == TypeOK <=> PlaceTypes /\ OtherTypes
  BY DEF TypeOK, PlaceTypes, OtherTypes

\* Looking up an irq of /proc/interrupts, or adding it, keeps the types.
LEMMA FindTypes ==
    ASSUME TypeOK, NEW i \in Irqs, FindOrAdd(i)
    PROVE  /\ interrupts_db' \in Seq(Irqs)
           /\ banned_irqs' \in SUBSET BannedIrqs
           /\ interrupts' \in [Holders -> Seq(Irqs)]
<1>1. NULL \in Holders /\ interrupts_db \in Seq(Irqs)
      /\ banned_irqs \in SUBSET BannedIrqs
      /\ interrupts \in [Holders -> Seq(Irqs)]
  BY DEF TypeOK, Holders
<1>2. \A s \in Seq(Irqs) : Append(s, i) \in Seq(Irqs)
  OBVIOUS
<1>3. CASE UNCHANGED <<interrupts_db, banned_irqs, interrupts>>
  BY <1>1, <1>3
<1>4. CASE proc_irq_hotplug(i)
  BY <1>1, <1>2, <1>4 DEF proc_irq_hotplug
<1> QED
  BY <1>3, <1>4 DEF FindOrAdd

\* Every action keeps the types of the variables that no move of an irq changes.
LEMMA OtherTypesNext ==
    ASSUME IInv, Next
    PROVE  OtherTypes'
<1> USE DEF loopVars, dbVars, irqVars, objVars, cycleVars, OtherTypes, PCs
<1>1. TypeOK /\ LoopOK /\ ListsAgree /\ DbOK /\ PlaceTypes /\ OtherTypes
  BY TypesSplit DEF IInv, ListInv
<1>2. NULL \in Holders
  BY DEF Holders
<1>3. CASE Build
  <2>1. level' = policy_level /\ level' \in [Irqs -> Levels]
    BY <1>3, PolicyAssumption DEF Build
  <2> QED
    BY <1>1, <1>3, <2>1, BuildFacts DEF Build
<1>4. CASE ForceAll
  BY <1>1, <1>4, LoopFacts, SMT DEF ForceAll
<1>5. CASE ClearSlots
  BY <1>1, <1>5, LoopFacts, LinesFacts, SMT DEF ClearSlots, ProcInterrupts
<1>6. CASE StartScan
  BY <1>1, <1>6, LoopFacts, LinesFacts, SMT DEF StartScan, ProcInterrupts
<1>7. CASE RequestRescan
  BY <1>1, <1>7, LoopFacts, SMT DEF RequestRescan
<1>8. CASE ParseLine
  <2>1. Head(work) \in Irqs /\ Tail(work) \in Seq(Irqs)
    BY <1>1, <1>8, LoopFacts DEF ParseLine
  <2>2. interrupts_db' \in Seq(Irqs) /\ banned_irqs' \in SUBSET BannedIrqs
    BY <1>1, <1>8, <2>1, FindTypes DEF ParseLine
  <2> QED
    BY <1>1, <1>8, <2>1, <2>2 DEF ParseLine
<1>9. CASE LineMismatch
  <2>1. Head(work) \in Irqs
    BY <1>1, <1>9, LoopFacts DEF LineMismatch
  <2>2. interrupts_db' \in Seq(Irqs) /\ banned_irqs' \in SUBSET BannedIrqs
    BY <1>1, <1>9, <2>1, FindTypes DEF LineMismatch
  <2> QED
    BY <1>1, <1>9, <2>1, <2>2 DEF LineMismatch
<1>10. CASE HotplugFails
  BY <1>1, <1>10, LoopFacts, SMT DEF HotplugFails
<1>11. CASE NoMemory
  BY <1>1, <1>11, LoopFacts, SMT DEF NoMemory
<1>12. CASE EndParse
  BY <1>1, <1>12 DEF EndParse
<1>13. CASE KeepExisting
  BY <1>1, <1>13, LoopFacts, SMT DEF KeepExisting
<1>14. CASE RemoveNoExisting
  <2>1. Head(work) \in Irqs /\ Tail(work) \in Seq(Irqs)
    BY <1>1, <1>14, LoopFacts DEF RemoveNoExisting
  <2>2. interrupts_db' \in Seq(Irqs)
    BY <1>1, <1>14, RemoveFirstFacts DEF RemoveNoExisting, DbOK
  <2>3. level' \in [Irqs -> Levels]
    BY <1>1, <1>14, <2>1, PolicyAssumption DEF RemoveNoExisting
  <2> QED
    BY <1>1, <1>14, <2>1, <2>2, <2>3 DEF RemoveNoExisting
<1>15. CASE ClearBanned
  BY <1>1, <1>15, LoopFacts, SMT DEF ClearBanned
<1>16. CASE ParseProcStat
  <2>1. pc' \in PCs /\ rescanning' \in BOOLEAN
    BY <1>16 DEF ParseProcStat, AfterStat
  <2> QED
    BY <1>1, <1>16, <2>1 DEF ParseProcStat
<1>17. CASE StatFails
  <2>1. pc' \in PCs /\ rescanning' \in BOOLEAN
    BY <1>17 DEF StatFails, AfterStat
  <2> QED
    BY <1>1, <1>17, <2>1 DEF StatFails
<1>18. CASE Gather
  <2>1. lb.list + 1 \in 1 .. 4
    BY <1>1, <1>18, SMT DEF Gather, LoopOK
  <2>2. lb'.powersave \in Holders
    BY <1>1, <1>18, <2>1, InfoFacts DEF Gather
  <2>3. \A k \in 1 .. 4 : ObjLists[k] \in Seq(Objects)
    BY ListAssumption, SMT DEF ObjLists
  <2>4. objs' \in Seq(Objects)
    BY <1>18, <2>1, <2>3 DEF Gather
  <2> QED
    BY <1>1, <1>18, <2>2, <2>4 DEF Gather
<1>19. CASE PassObject
  BY <1>1, <1>19, LoopFacts, InfoFacts, SMT DEF PassObject
<1>20. CASE OpenObject
  <2>1. Head(objs) \in Objects /\ Tail(objs) \in Seq(Objects)
    BY <1>1, <1>20, LoopFacts DEF OpenObject
  <2>2. lb'.powersave \in Holders
    BY <1>1, <1>20, <2>1, InfoFacts DEF OpenObject
  <2>3. interrupts[Head(objs)] \in Seq(Irqs)
    BY <1>1, <2>1 DEF PlaceTypes, Holders
  <2>4. work' \in Seq(Irqs)
    BY <1>20, <2>3, SortedFacts DEF OpenObject
  <2> QED
    BY <1>1, <1>20, <2>1, <2>2, <2>4 DEF OpenObject
<1>21. CASE MoveCandidate
  BY <1>1, <1>21, LoopFacts, InfoFacts, SMT DEF MoveCandidate
<1>22. CASE KeepCandidate
  BY <1>1, <1>22, LoopFacts, SMT DEF KeepCandidate
<1>23. CASE EndCandidates
  BY <1>1, <1>23, LoopFacts, SMT DEF EndCandidates
<1>24. CASE EnterPowersave
  <2>1. lb.powersave \in Objects
    BY <1>1, <1>24 DEF EnterPowersave, Enters, Holders
  <2>2. work' \in Seq(Irqs)
    BY <1>1, <1>24, <2>1 DEF EnterPowersave, PlaceTypes, Holders
  <2> QED
    BY <1>1, <1>24, <2>2 DEF EnterPowersave
<1>25. CASE EmptyPowersave
  BY <1>1, <1>25, LoopFacts, SMT DEF EmptyPowersave
<1>26. CASE EndPowersave
  BY <1>1, <1>26, LoopFacts, SMT DEF EndPowersave
<1>27. CASE EndObjects
  BY <1>1, <1>27, LoopFacts, InfoFacts, SMT DEF EndObjects
<1>28. CASE SortRebalance
  <2>1. interrupts[NULL] \in Seq(Irqs)
    BY <1>1, <1>2 DEF PlaceTypes
  <2>2. PICK s \in SortedLists(interrupts[NULL]) :
           \/ pc' = "place" /\ work' = s
           \/ pc' = "activate" /\ work' = interrupts_db
    BY <1>28 DEF SortRebalance, rebalance_irq_list
  <2>3. s \in Seq(Irqs)
    BY <2>1, <2>2, SortedFacts
  <2> QED
    BY <1>1, <1>28, <2>2, <2>3 DEF SortRebalance
<1>29. CASE PlaceInNode
  BY <1>1, <1>29, LoopFacts, SMT DEF PlaceInNode
<1>30. CASE NotPlaced
  BY <1>1, <1>30, LoopFacts, SMT DEF NotPlaced
<1>31. CASE EndPlace
  BY <1>1, <1>31, LoopFacts, ListAssumption, ConcatProperties, SMT DEF EndPlace
<1>32. CASE OpenDomain
  <2>1. work' \in Seq(Irqs)
    BY <1>1, <1>32, LoopFacts DEF OpenDomain, PlaceTypes, Holders
  <2> QED
    BY <1>1, <1>32, <2>1 DEF OpenDomain
<1>33. CASE PushDown
  BY <1>1, <1>33, LoopFacts, SMT DEF PushDown
<1>34. CASE StayHere
  BY <1>1, <1>34, LoopFacts, SMT DEF StayHere
<1>35. CASE CloseDomain
  BY <1>1, <1>35, LoopFacts, SMT DEF CloseDomain, LoopOK
<1>36. CASE EndDomains
  BY <1>1, <1>36, LoopFacts, SMT DEF EndDomains
<1>37. CASE SkipActivation
  BY <1>1, <1>37, LoopFacts, SMT DEF SkipActivation
<1>38. CASE AlreadyApplied
  BY <1>1, <1>38, LoopFacts, SMT DEF AlreadyApplied
<1>39. CASE WriteSucceeds
  BY <1>1, <1>39, LoopFacts, MaskAssumption, SMT DEF WriteSucceeds, AppliedMask
<1>40. CASE WriteFailsForNow
  BY <1>1, <1>40, LoopFacts, SMT DEF WriteFailsForNow
<1>41. CASE WriteFailsForGood
  BY <1>1, <1>41, LoopFacts, SMT DEF WriteFailsForGood, Levels
<1>42. CASE NoSpace
  BY <1>1, <1>42, LoopFacts, SMT DEF NoSpace, NoFallback
<1>43. CASE FallbackSucceeds
  <2>1. work # <<>> /\ Tail(work) \in Seq(Irqs)
    BY <1>1, <1>43, LoopFacts DEF FallbackSucceeds, MayTry, LoopOK
  <2>2. PICK c \in Objects :
           smp_affinity' = [smp_affinity EXCEPT ![Head(work)] = AppliedMask(c)]
    BY <1>43 DEF FallbackSucceeds
  <2>3. AppliedMask(c) \in SUBSET CpuIds
    BY MaskAssumption DEF AppliedMask
  <2>4. smp_affinity' \in [Irqs -> SUBSET CpuIds]
    BY <1>1, <2>2, <2>3 
  <2>5. fb' = NoFallback /\ work' = Tail(work) /\ pc' = "activate"
        /\ UNCHANGED <<objs, rescanning, lb, dbVars, level, irq_load, powersave_mode,
                       cycleVars>>
    BY <1>43 DEF FallbackSucceeds
  <2> QED
    BY <1>1, <2>1, <2>4, <2>5 DEF NoFallback
<1>44. CASE FallbackFull
  BY <1>1, <1>44, LoopFacts, TreeAssumption, SMT DEF FallbackFull, Tried
<1>45. CASE FallbackRefused
  BY <1>1, <1>45, LoopFacts, TreeAssumption, SMT DEF FallbackRefused, Tried
<1>46. CASE GiveUp
  BY <1>1, <1>46, LoopFacts, SMT DEF GiveUp, NoFallback, LoopOK
<1>47. CASE EndScan
  BY <1>1, <1>47, LoopFacts, SMT DEF EndScan
<1> QED
  BY <1>3, <1>4, <1>5, <1>6, <1>7, <1>8, <1>9, <1>10, <1>11, <1>12, <1>13,
     <1>14, <1>15, <1>16, <1>17, <1>18, <1>19, <1>20, <1>21, <1>22, <1>23,
     <1>24, <1>25, <1>26, <1>27, <1>28, <1>29, <1>30, <1>31, <1>32, <1>33,
     <1>34, <1>35, <1>36, <1>37, <1>38, <1>39, <1>40, <1>41, <1>42, <1>43,
     <1>44, <1>45, <1>46, <1>47
     DEF Next, Cycle, Rebuilding, Parsing, Selecting, Placing, Activating

\* Every action keeps the facts about the loops over objects.
LEMMA LoopNext ==
    ASSUME IInv, Next
    PROVE  LoopOK'
<1> USE DEF loopVars, dbVars, irqVars, objVars, cycleVars, LoopOK
<1>1. TypeOK /\ LoopOK /\ OtherTypes
  BY TypesSplit DEF IInv
<1>2. CASE Build
  BY <1>1, <1>2, LoopFacts, SMT DEF Build
<1>3. CASE ForceAll
  BY <1>1, <1>3, LoopFacts, SMT DEF ForceAll
<1>4. CASE ClearSlots
  BY <1>1, <1>4, LoopFacts, SMT DEF ClearSlots
<1>5. CASE StartScan
  BY <1>1, <1>5, LoopFacts, SMT DEF StartScan
<1>6. CASE RequestRescan
  BY <1>1, <1>6, LoopFacts, SMT DEF RequestRescan
<1>7. CASE ParseLine
  BY <1>1, <1>7, LoopFacts, SMT DEF ParseLine
<1>8. CASE LineMismatch
  BY <1>1, <1>8, LoopFacts, SMT DEF LineMismatch
<1>9. CASE HotplugFails
  BY <1>1, <1>9, LoopFacts, SMT DEF HotplugFails
<1>10. CASE NoMemory
  BY <1>1, <1>10, LoopFacts, SMT DEF NoMemory
<1>11. CASE EndParse
  BY <1>1, <1>11, LoopFacts, SMT DEF EndParse
<1>12. CASE KeepExisting
  BY <1>1, <1>12, LoopFacts, SMT DEF KeepExisting
<1>13. CASE RemoveNoExisting
  BY <1>1, <1>13, LoopFacts, SMT DEF RemoveNoExisting
<1>14. CASE ClearBanned
  BY <1>1, <1>14, LoopFacts, SMT DEF ClearBanned
<1>15. CASE ParseProcStat
  BY <1>1, <1>15, LoopFacts, SMT DEF ParseProcStat, AfterStat
<1>16. CASE StatFails
  BY <1>1, <1>16, LoopFacts, SMT DEF StatFails, AfterStat
<1>17. CASE Gather
  <2>1. lb.list + 1 \in 1 .. 4
    BY <1>1, <1>17, SMT DEF Gather
  <2>2. lb'.list \in 1 .. 4 /\ DOMAIN lb' = DOMAIN NoInfo
    BY <1>1, <1>17, <2>1, InfoFacts DEF Gather
  <2> QED
    BY <1>17, <2>2 DEF Gather
<1>18. CASE PassObject
  BY <1>1, <1>18, LoopFacts, InfoFacts, SMT DEF PassObject
<1>19. CASE OpenObject
  <2>1. lb'.list = lb.list /\ DOMAIN lb' = DOMAIN NoInfo
    BY <1>1, <1>19, LoopFacts, InfoFacts DEF OpenObject
  <2> QED
    BY <1>1, <1>19, <2>1 DEF OpenObject
<1>20. CASE MoveCandidate
  BY <1>1, <1>20, LoopFacts, InfoFacts, SMT DEF MoveCandidate
<1>21. CASE KeepCandidate
  BY <1>1, <1>21, LoopFacts, SMT DEF KeepCandidate
<1>22. CASE EndCandidates
  BY <1>1, <1>22, LoopFacts, SMT DEF EndCandidates
<1>23. CASE EnterPowersave
  BY <1>1, <1>23, LoopFacts, SMT DEF EnterPowersave, Enters, MayPowersave
<1>24. CASE EmptyPowersave
  BY <1>1, <1>24, LoopFacts, SMT DEF EmptyPowersave
<1>25. CASE EndPowersave
  BY <1>1, <1>25 DEF EndPowersave
<1>26. CASE EndObjects
  <2>1. Len(ObjLists) = 4
    BY DEF ObjLists
  <2> QED
    BY <1>1, <1>26, <2>1, InfoFacts DEF EndObjects
<1>27. CASE SortRebalance
  BY <1>1, <1>27, LoopFacts, SMT DEF SortRebalance
<1>28. CASE PlaceInNode
  BY <1>1, <1>28, LoopFacts, SMT DEF PlaceInNode
<1>29. CASE NotPlaced
  BY <1>1, <1>29, LoopFacts, SMT DEF NotPlaced
<1>30. CASE EndPlace
  BY <1>1, <1>30, LoopFacts, SMT DEF EndPlace
<1>31. CASE OpenDomain
  BY <1>1, <1>31, LoopFacts, SMT DEF OpenDomain
<1>32. CASE PushDown
  BY <1>1, <1>32, LoopFacts, SMT DEF PushDown
<1>33. CASE StayHere
  BY <1>1, <1>33, LoopFacts, SMT DEF StayHere
<1>34. CASE CloseDomain
  BY <1>1, <1>34, LoopFacts, SMT DEF CloseDomain
<1>35. CASE EndDomains
  BY <1>1, <1>35, LoopFacts, SMT DEF EndDomains
<1>36. CASE SkipActivation
  BY <1>1, <1>36, LoopFacts, SMT DEF SkipActivation
<1>37. CASE AlreadyApplied
  BY <1>1, <1>37, LoopFacts, SMT DEF AlreadyApplied
<1>38. CASE WriteSucceeds
  BY <1>1, <1>38, LoopFacts, SMT DEF WriteSucceeds
<1>39. CASE WriteFailsForNow
  BY <1>1, <1>39, LoopFacts, SMT DEF WriteFailsForNow
<1>40. CASE WriteFailsForGood
  BY <1>1, <1>40, LoopFacts, SMT DEF WriteFailsForGood
<1>41. CASE NoSpace
  BY <1>1, <1>41, LoopFacts, SMT DEF NoSpace
<1>42. CASE FallbackSucceeds
  <2>1. pc' = "activate" /\ lb' = lb /\ pc = "fallback"
    BY <1>42 DEF FallbackSucceeds, MayTry
  <2> QED
    BY <1>1, <2>1 
<1>43. CASE FallbackFull
  BY <1>1, <1>43, LoopFacts, SMT DEF FallbackFull, MayTry
<1>44. CASE FallbackRefused
  BY <1>1, <1>44, LoopFacts, SMT DEF FallbackRefused, MayTry
<1>45. CASE GiveUp
  BY <1>1, <1>45, LoopFacts, SMT DEF GiveUp
<1>46. CASE EndScan
  BY <1>1, <1>46, LoopFacts, SMT DEF EndScan
<1> QED
  BY <1>2, <1>3, <1>4, <1>5, <1>6, <1>7, <1>8, <1>9, <1>10, <1>11, <1>12, <1>13,
     <1>14, <1>15, <1>16, <1>17, <1>18, <1>19, <1>20, <1>21, <1>22, <1>23,
     <1>24, <1>25, <1>26, <1>27, <1>28, <1>29, <1>30, <1>31, <1>32, <1>33,
     <1>34, <1>35, <1>36, <1>37, <1>38, <1>39, <1>40, <1>41, <1>42, <1>43,
     <1>44, <1>45, <1>46
     DEF Next, Cycle, Rebuilding, Parsing, Selecting, Placing, Activating

-----------------------------------------------------------------------------
(* Most actions leave the lists, the irqs and the slots alone.             *)

Quiet == UNCHANGED <<interrupts_db, interrupts, assigned_obj, moved, level,
                     slots_left, smp_affinity>>

QuietStep ==
    \/ StartScan \/ RequestRescan \/ HotplugFails \/ NoMemory
    \/ EndParse \/ KeepExisting \/ ClearBanned \/ ParseProcStat
    \/ StatFails \/ Gather \/ PassObject \/ KeepCandidate
    \/ EndCandidates \/ EnterPowersave \/ EndPowersave \/ EndObjects
    \/ NotPlaced \/ EndPlace \/ OpenDomain \/ StayHere
    \/ CloseDomain \/ EndDomains \/ SkipActivation \/ WriteFailsForNow
    \/ FallbackRefused \/ EndScan

\* A quiet step does, and neither starts nor ends in the loop that fills
\* rebalance_irq_list.
LEMMA QuietFacts == QuietStep => Quiet /\ pc # "force" /\ pc' # "force"
<1> USE DEF loopVars, dbVars, irqVars, objVars, cycleVars, Quiet, AfterStat, MayTry
<1>1. StartScan => Quiet /\ pc # "force" /\ pc' # "force"
  BY DEF StartScan
<1>2. RequestRescan => Quiet /\ pc # "force" /\ pc' # "force"
  BY DEF RequestRescan
<1>3. HotplugFails => Quiet /\ pc # "force" /\ pc' # "force"
  BY DEF HotplugFails
<1>4. NoMemory => Quiet /\ pc # "force" /\ pc' # "force"
  BY DEF NoMemory
<1>5. EndParse => Quiet /\ pc # "force" /\ pc' # "force"
  BY DEF EndParse
<1>6. KeepExisting => Quiet /\ pc # "force" /\ pc' # "force"
  BY DEF KeepExisting
<1>7. ClearBanned => Quiet /\ pc # "force" /\ pc' # "force"
  BY DEF ClearBanned
<1>8. ParseProcStat => Quiet /\ pc # "force" /\ pc' # "force"
  BY DEF ParseProcStat
<1>9. StatFails => Quiet /\ pc # "force" /\ pc' # "force"
  BY DEF StatFails
<1>10. Gather => Quiet /\ pc # "force" /\ pc' # "force"
  BY DEF Gather
<1>11. PassObject => Quiet /\ pc # "force" /\ pc' # "force"
  BY DEF PassObject
<1>12. KeepCandidate => Quiet /\ pc # "force" /\ pc' # "force"
  BY DEF KeepCandidate
<1>13. EndCandidates => Quiet /\ pc # "force" /\ pc' # "force"
  BY DEF EndCandidates
<1>14. EnterPowersave => Quiet /\ pc # "force" /\ pc' # "force"
  BY DEF EnterPowersave
<1>15. EndPowersave => Quiet /\ pc # "force" /\ pc' # "force"
  BY DEF EndPowersave
<1>16. EndObjects => Quiet /\ pc # "force" /\ pc' # "force"
  BY DEF EndObjects
<1>17. NotPlaced => Quiet /\ pc # "force" /\ pc' # "force"
  BY DEF NotPlaced
<1>18. EndPlace => Quiet /\ pc # "force" /\ pc' # "force"
  BY DEF EndPlace
<1>19. OpenDomain => Quiet /\ pc # "force" /\ pc' # "force"
  BY DEF OpenDomain
<1>20. StayHere => Quiet /\ pc # "force" /\ pc' # "force"
  BY DEF StayHere
<1>21. CloseDomain => Quiet /\ pc # "force" /\ pc' # "force"
  BY DEF CloseDomain
<1>22. EndDomains => Quiet /\ pc # "force" /\ pc' # "force"
  BY DEF EndDomains
<1>23. SkipActivation => Quiet /\ pc # "force" /\ pc' # "force"
  BY DEF SkipActivation
<1>24. WriteFailsForNow => Quiet /\ pc # "force" /\ pc' # "force"
  BY DEF WriteFailsForNow
<1>25. FallbackRefused => Quiet /\ pc # "force" /\ pc' # "force"
  BY DEF FallbackRefused
<1>26. EndScan => Quiet /\ pc # "force" /\ pc' # "force"
  BY DEF EndScan
<1> QED
  BY <1>1, <1>2, <1>3, <1>4, <1>5, <1>6, <1>7, <1>8, <1>9, <1>10, <1>11, <1>12,
     <1>13, <1>14, <1>15, <1>16, <1>17, <1>18, <1>19, <1>20, <1>21, <1>22,
     <1>23, <1>24, <1>25, <1>26
     DEF QuietStep

\* Every action keeps the types of the variables that a move of an irq changes.
LEMMA PlaceTypesNext ==
    ASSUME IInv, Next
    PROVE  PlaceTypes'
<1>1. TypeOK /\ LoopOK /\ ListsAgree /\ DbOK /\ PlaceTypes /\ OtherTypes
  BY TypesSplit DEF IInv, ListInv
<1>2. NULL \in Holders /\ Objects \subseteq Holders
  BY DEF Holders
<1>3. CASE QuietStep
  BY <1>1, <1>3, QuietFacts DEF Quiet, PlaceTypes
<1>4. CASE Build
  <2>1. <<>> \in Seq(Irqs)
    OBVIOUS
  <2> QED
    BY <1>2, <1>4, <2>1 DEF Build, FreshLists, PlaceTypes
<1>5. CASE ForceAll
  <2>1. Head(work) \in Irqs /\ force_rebalance_irq(Head(work))
    BY <1>1, <1>5, LoopFacts DEF ForceAll
  <2> QED
    BY <1>1, <2>1, ForceStepTypes
<1>6. CASE ParseLine
  <2>1. interrupts' \in [Holders -> Seq(Irqs)]
    BY <1>1, <1>6, LoopFacts, FindTypes DEF ParseLine
  <2> QED
    BY <1>1, <1>6, <2>1 DEF ParseLine, PlaceTypes, objVars
<1>7. CASE LineMismatch
  <2>1. interrupts' \in [Holders -> Seq(Irqs)]
    BY <1>1, <1>7, LoopFacts, FindTypes DEF LineMismatch
  <2> QED
    BY <1>1, <1>7, <2>1 DEF LineMismatch, PlaceTypes, objVars
<1>8. CASE RemoveNoExisting
  <2>1. \A h \in Holders : RemoveFirst(interrupts[h], Head(work)) \in Seq(Irqs)
    BY <1>1, RemoveFirstFacts DEF PlaceTypes, ListsAgree
  <2>2. interrupts' \in [Holders -> Seq(Irqs)]
    BY <1>1, <1>8, <2>1 DEF RemoveNoExisting, RemovedFrom, PlaceTypes
  <2>3. slots_left' \in [Objects -> Int]
    BY <1>1, <1>8, IntMaxFacts DEF RemoveNoExisting, PlaceTypes
  <2> QED
    BY <1>1, <1>2, <1>8, <2>2, <2>3 DEF RemoveNoExisting, PlaceTypes
<1>9. CASE OpenObject
  <2>1. Head(objs) \in Holders
    BY <1>1, <1>2, <1>9, LoopFacts DEF OpenObject
  <2>2. \A s \in SortedLists(interrupts[Head(objs)]) : s \in Seq(Irqs)
    BY <1>1, <2>1, SortedFacts DEF PlaceTypes
  <2> QED
    BY <1>1, <1>9, <2>1, <2>2 DEF OpenObject, PlaceTypes, objVars
<1>10. CASE MoveCandidate
  <2>1. Head(work) \in Irqs /\ force_rebalance_irq(Head(work))
    BY <1>1, <1>10, LoopFacts DEF MoveCandidate
  <2> QED
    BY <1>1, <2>1, ForceStepTypes
<1>11. CASE EmptyPowersave
  <2>1. Head(work) \in Irqs /\ force_rebalance_irq(Head(work))
    BY <1>1, <1>11, LoopFacts DEF EmptyPowersave
  <2> QED
    BY <1>1, <2>1, ForceStepTypes
<1>12. CASE SortRebalance
  <2>1. \A s \in SortedLists(interrupts[NULL]) : s \in Seq(Irqs)
    BY <1>1, <1>2, SortedFacts DEF PlaceTypes
  <2> QED
    BY <1>1, <1>2, <1>12, <2>1
       DEF SortRebalance, rebalance_irq_list, PlaceTypes, objVars
<1>13. CASE PlaceInNode
  <2>1. Head(work) \in Irqs /\ assigned_obj[Head(work)] \in Holders
    BY <1>1, <1>13, LoopFacts DEF PlaceInNode, PlaceTypes
  <2>2. \A o \in Range(numa_nodes) : o \in Holders
    BY <1>2, ListAssumption DEF Range
  <2>3. numa_node[Head(work)] \in Holders
    BY <2>1, <2>2, PolicyAssumption
  <2>4. PICK o \in Holders :
            migrate_irq_obj(assigned_obj[Head(work)], o, Head(work))
    BY <1>13, <2>2, <2>3 DEF PlaceInNode, Range
  <2> QED
    BY <1>1, <2>1, <2>4, MigrateStepTypes
<1>14. CASE PushDown
  <2>1. Head(work) \in Irqs /\ Head(objs) \in Objects
    BY <1>1, <1>14, LoopFacts DEF PushDown, LoopOK
  <2>2. \A k \in DOMAIN children[Head(objs)] : children[Head(objs)][k] \in Objects
    BY <2>1, TreeAssumption
  <2>3. PICK o \in Objects : migrate_irq_obj(Head(objs), o, Head(work))
    BY <1>14, <2>2 DEF PushDown
  <2> QED
    BY <1>1, <1>2, <2>1, <2>3, MigrateStepTypes
<1>15. CASE AlreadyApplied
  <2>1. moved' \in [Irqs -> BOOLEAN]
    BY <1>1, <1>15 DEF AlreadyApplied, PlaceTypes
  <2> QED
    BY <1>1, <1>15, <2>1 DEF AlreadyApplied, PlaceTypes, objVars
<1>16. CASE WriteSucceeds
  <2>1. moved' \in [Irqs -> BOOLEAN]
    BY <1>1, <1>16 DEF WriteSucceeds, PlaceTypes
  <2> QED
    BY <1>1, <1>16, <2>1 DEF WriteSucceeds, PlaceTypes, objVars
<1>17. CASE WriteFailsForGood
  <2>1. moved' \in [Irqs -> BOOLEAN]
    BY <1>1, <1>17 DEF WriteFailsForGood, PlaceTypes
  <2> QED
    BY <1>1, <1>17, <2>1 DEF WriteFailsForGood, PlaceTypes, objVars
<1>18. CASE FallbackSucceeds
  <2>1. Head(work) \in Irqs /\ assigned_obj[Head(work)] \in Holders
    BY <1>1, <1>18, LoopFacts DEF FallbackSucceeds, MayTry, LoopOK, PlaceTypes
  <2> DEFINE i == Head(work)
             o == assigned_obj[Head(work)]
  <2>2. PICK c \in Objects :
            /\ interrupts' = ListsAfter(o, c, i)
            /\ assigned_obj' = AssignedAfter(o, c, i)
            /\ slots_left' = Saturated(SlotsAfter(o, c, i), o)
            /\ moved' = [moved EXCEPT ![i] = FALSE]
    BY <1>18 DEF FallbackSucceeds
  <2>3. /\ ListsAfter(o, c, i) \in [Holders -> Seq(Irqs)]
        /\ SlotsAfter(o, c, i) \in [Objects -> Int]
        /\ AssignedAfter(o, c, i) \in [Irqs -> Holders]
    BY <1>1, <1>2, <2>1, MigrateTypes
  <2>4. slots_left' \in [Objects -> Int]
    BY <2>2, <2>3 DEF Saturated, SLOTS_SATURATED
  <2> QED
    BY <1>1, <2>1, <2>2, <2>3, <2>4 DEF PlaceTypes
<1>19. CASE GiveUp
  <2>1. Head(work) \in Irqs /\ assigned_obj[Head(work)] \in Holders
    BY <1>1, <1>19, LoopFacts DEF GiveUp, LoopOK, PlaceTypes
  <2> DEFINE i == Head(work)
             o == assigned_obj[Head(work)]
  <2>2. /\ ListsAfter(o, NULL, i) \in [Holders -> Seq(Irqs)]
        /\ SlotsAfter(o, NULL, i) \in [Objects -> Int]
        /\ AssignedAfter(o, NULL, i) \in [Irqs -> Holders]
    BY <1>1, <1>2, <2>1, MigrateTypes
  <2>3. /\ interrupts' \in {interrupts, ListsAfter(o, NULL, i)}
        /\ assigned_obj' \in {assigned_obj, AssignedAfter(o, NULL, i)}
        /\ slots_left' \in {slots_left, SlotsAfter(o, NULL, i)}
        /\ moved' = [moved EXCEPT ![i] = FALSE]
    BY <1>19 DEF GiveUp
  <2> QED
    BY <1>1, <2>1, <2>2, <2>3 DEF PlaceTypes
<1>20. CASE ClearSlots
  BY <1>1, <1>20, IntMaxFacts DEF ClearSlots, PlaceTypes, irqVars
<1>21. CASE NoSpace
  BY <1>1, <1>21 DEF NoSpace, Saturated, SLOTS_SATURATED, PlaceTypes, irqVars
<1>22. CASE FallbackFull
  BY <1>1, <1>22 DEF FallbackFull, SLOTS_SATURATED, PlaceTypes, irqVars
<1> QED
  BY <1>3, <1>4, <1>5, <1>6, <1>7, <1>8, <1>9, <1>10, <1>11, <1>12, <1>13,
     <1>14, <1>15, <1>16, <1>17, <1>18, <1>19, <1>20, <1>21, <1>22
     DEF Next, Cycle, Rebuilding, Parsing, Selecting, Placing, Activating,
     QuietStep

-----------------------------------------------------------------------------
(* The lists                                                               *)

\* What migrate_irq_obj does to the lists when the irq is moved from the object
\* it is assigned to: the irq is on the new list instead of the old one, and
\* nothing else changes.
LEMMA MigrateLists ==
    ASSUME TypeOK, ListInv,
           NEW i \in Range(interrupts_db), NEW to \in Holders, NEW from,
           from = assigned_obj[i],
           interrupts' = ListsAfter(from, to, i),
           assigned_obj' = AssignedAfter(from, to, i),
           interrupts_db' = interrupts_db,
           level' = level,
           \A j \in Irqs : j # i => moved'[j] = moved[j]
    PROVE  /\ ListInv'
           /\ \A j \in Irqs : j # i =>
                 /\ assigned_obj'[j] = assigned_obj[j]
                 /\ \A h \in Holders : j \in Range(interrupts'[h])
                                       <=> j \in Range(interrupts[h])
           /\ OnList(from, i) => i \in Range(interrupts'[to])
           /\ MovedAfter(from, i) => assigned_obj'[i] = to
           /\ ~MovedAfter(from, i) => assigned_obj'[i] = from
           /\ ~OnList(from, i) => interrupts' = interrupts
<1>1. /\ interrupts \in [Holders -> Seq(Irqs)] /\ assigned_obj \in [Irqs -> Holders]
      /\ ListsAgree /\ ListsLive /\ Absent /\ DbOK
      /\ interrupts_db \in Seq(Irqs)
  BY DEF TypeOK, ListInv
<1>2. i \in Irqs /\ from \in Holders
  BY <1>1 DEF Range
<1>3. \A h \in Holders : h # from => i \notin Range(interrupts[h])
  BY <1>1 DEF ListsAgree
<1>4. /\ assigned_obj' \in [Irqs -> Holders]
      /\ MovedAfter(from, i) => assigned_obj'[i] = to
      /\ ~MovedAfter(from, i) => assigned_obj'[i] = from
      /\ \A j \in Irqs : j # i => assigned_obj'[j] = assigned_obj[j]
  BY <1>1, <1>2 DEF AssignedAfter
<1>5. DbOK' /\ Absent'
  BY <1>1, <1>2, <1>4 DEF DbOK, Absent
<1>6. CASE ~OnList(from, i)
  <2>1. interrupts' = interrupts
    BY <1>6 DEF ListsAfter
  <2>2. \A h \in Holders : i \notin Range(interrupts[h])
    BY <1>3, <1>6 DEF OnList
  <2>3. \A h \in Holders : Range(interrupts[h]) \subseteq Irqs
    BY <1>1 DEF Range
  <2>4. ListsAgree' /\ ListsLive'
    BY <1>1, <1>4, <2>1, <2>2, <2>3 DEF ListsAgree, ListsLive
  <2> QED
    BY <1>4, <1>5, <1>6, <2>1, <2>4 DEF ListInv
<1>7. CASE OnList(from, i)
  <2> DEFINE rest == [interrupts EXCEPT ![from] = RemoveFirst(@, i)]
  <2>1. ASSUME NEW h \in Holders
        PROVE  /\ rest[h] \in Seq(Irqs) /\ IsInjective(rest[h])
               /\ Range(rest[h]) = Range(interrupts[h]) \ {i}
    <3>1. interrupts[h] \in Seq(Irqs) /\ IsInjective(interrupts[h])
      BY <1>1 DEF ListsAgree
    <3>2. CASE h = from
      BY <1>1, <3>1, <3>2, RemoveFirstFacts
    <3>3. CASE h # from
      BY <1>1, <1>3, <3>1, <3>3
    <3> QED
      BY <3>2, <3>3
  <2>2. /\ interrupts' = [rest EXCEPT ![to] = Append(@, i)]
        /\ rest \in [Holders -> Seq(Irqs)]
    <3>1. interrupts' = [rest EXCEPT ![to] = Append(@, i)]
      BY <1>7 DEF ListsAfter
    <3>2. DOMAIN rest = Holders
      BY <1>1
    <3>3. rest = [h \in Holders |-> rest[h]]
      BY <1>1
    <3> HIDE DEF rest
    <3>4. rest \in [Holders -> Seq(Irqs)]
      BY <2>1, <3>2, <3>3
    <3> QED
      BY <3>1, <3>4
  <2> HIDE DEF rest
  <2>3. ASSUME NEW h \in Holders
        PROVE  /\ IsInjective(interrupts'[h])
               /\ Range(interrupts'[h]) = IF h = to THEN Range(interrupts[h]) \cup {i}
                                          ELSE Range(interrupts[h]) \ {i}
    <3>1. CASE h = to
      <4>1. interrupts'[h] = Append(rest[h], i) /\ i \notin Range(rest[h])
        BY <2>1, <2>2, <3>1
      <4>2. Range(interrupts'[h]) = Range(rest[h]) \cup {i}
            /\ IsInjective(interrupts'[h])
        BY <1>2, <2>1, <4>1, AppendFacts
      <4> QED
        BY <2>1, <3>1, <4>2
    <3>2. CASE h # to
      BY <2>1, <2>2, <3>2
    <3> QED
      BY <3>1, <3>2
  <2>4. assigned_obj'[i] = to
    BY <1>4, <1>7 DEF MovedAfter
  <2>5. \A h \in Holders : Range(interrupts[h]) \subseteq Irqs
    BY <1>1 DEF Range
  <2>6. ListsAgree'
    <3>1. ASSUME NEW h \in Holders, NEW j \in Range(interrupts'[h])
          PROVE  assigned_obj'[j] = h
      <4>1. CASE j = i
        BY <2>3, <2>4, <3>1, <4>1
      <4>2. CASE j # i
        <5>1. j \in Range(interrupts[h]) /\ j \in Irqs
          BY <2>3, <2>5, <3>1, <4>2
        <5>2. assigned_obj[j] = h
          BY <1>1, <5>1 DEF ListsAgree
        <5> QED
          BY <1>1, <1>4, <4>2, <5>1, <5>2
      <4> QED
        BY <4>1, <4>2
    <3> QED
      BY <2>3, <3>1 DEF ListsAgree
  <2>7. ListsLive'
    BY <1>1, <2>3 DEF ListsLive
  <2>8. ListInv'
    BY <1>5, <2>6, <2>7 DEF ListInv
  <2>9. ASSUME NEW j \in Irqs, j # i, NEW h \in Holders
        PROVE  j \in Range(interrupts'[h]) <=> j \in Range(interrupts[h])
    BY <2>3, <2>9
  <2>10. i \in Range(interrupts'[to])
    BY <2>3
  <2> QED
    BY <1>4, <1>7, <2>8, <2>9, <2>10
<1> QED
  BY <1>6, <1>7

\* Moving an irq that may be balanced from the object it is assigned to keeps
\* every fact about lists, whatever happens to its moved flag.
LEMMA MigrateSafe ==
    ASSUME IInv, pc # "force", pc' # "force",
           NEW i \in Range(interrupts_db), level[i] # "NONE", NEW to \in Holders,
           interrupts' = ListsAfter(assigned_obj[i], to, i),
           assigned_obj' = AssignedAfter(assigned_obj[i], to, i),
           NEW m \in BOOLEAN, moved' = [moved EXCEPT ![i] = m],
           UNCHANGED <<interrupts_db, level>>
    PROVE  /\ ListInv' /\ NoIrqLost' /\ NoneStays'
           /\ OnList(assigned_obj[i], i)
           /\ assigned_obj'[i] = to
           /\ i \in Range(interrupts'[to])
           /\ \A j \in Irqs : j # i =>
                 /\ assigned_obj'[j] = assigned_obj[j]
                 /\ moved'[j] = moved[j]
                 /\ \A h \in Holders : j \in Range(interrupts'[h])
                                       <=> j \in Range(interrupts[h])
<1>1. TypeOK /\ ListInv /\ NoIrqLost /\ NoneStays
  BY DEF IInv
<1>2. /\ moved \in [Irqs -> BOOLEAN] /\ assigned_obj \in [Irqs -> Holders]
      /\ Range(interrupts_db) \subseteq Irqs /\ NULL \in Holders
  BY <1>1, ListTypes DEF TypeOK, Holders
<1>3. OnList(assigned_obj[i], i) /\ MovedAfter(assigned_obj[i], i)
  BY <1>1 DEF NoIrqLost, Pending, OnList, MovedAfter
<1>4. \A j \in Irqs : j # i => moved'[j] = moved[j]
  BY <1>2
<1>5. /\ ListInv' /\ assigned_obj'[i] = to /\ i \in Range(interrupts'[to])
      /\ \A j \in Irqs : j # i =>
            /\ assigned_obj'[j] = assigned_obj[j]
            /\ \A h \in Holders : j \in Range(interrupts'[h])
                                  <=> j \in Range(interrupts[h])
  BY <1>1, <1>3, <1>4, MigrateLists
<1>6. NoIrqLost'
  <2>1. ASSUME NEW j \in Range(interrupts_db), level[j] # "NONE"
        PROVE  j \in Range(interrupts'[assigned_obj'[j]])
    <3>1. CASE j = i
      BY <1>5, <3>1
    <3>2. CASE j # i
      BY <1>1, <1>2, <1>5, <2>1, <3>2 DEF NoIrqLost, Pending
    <3> QED
      BY <3>1, <3>2
  <2> QED
    BY <2>1 DEF NoIrqLost, Pending
<1>7. NoneStays'
  <2>1. ASSUME NEW j \in Range(interrupts_db), level[j] = "NONE"
        PROVE  ~moved'[j] /\ j \notin Range(interrupts'[NULL])
    BY <1>1, <1>2, <1>4, <1>5, <2>1 DEF NoneStays, rebalance_irq_list
  <2> QED
    BY <2>1 DEF NoneStays, rebalance_irq_list
<1> QED
  BY <1>3, <1>4, <1>5, <1>6, <1>7

\* force_rebalance_irq on an irq that has an object sends it to
\* rebalance_irq_list, or leaves it alone.
LEMMA ForceSafe ==
    ASSUME IInv, pc # "force", pc' # "force",
           NEW i \in Range(interrupts_db), assigned_obj[i] # NULL,
           force_rebalance_irq(i),
           UNCHANGED <<interrupts_db, level, smp_affinity>>
    PROVE  /\ ListInv' /\ NoIrqLost' /\ NoneStays' /\ AffinityApplied'
           /\ \A j \in Irqs : j # i => assigned_obj'[j] = assigned_obj[j]
<1>1. TypeOK /\ ListInv /\ NoIrqLost /\ NoneStays /\ AffinityApplied
  BY DEF IInv
<1>2. /\ moved \in [Irqs -> BOOLEAN] /\ assigned_obj \in [Irqs -> Holders]
      /\ Range(interrupts_db) \subseteq Irqs /\ NULL \in Holders
  BY <1>1, ListTypes DEF TypeOK, Holders
<1>3. CASE level[i] = "NONE"
  <2>1. UNCHANGED <<interrupts, moved, assigned_obj>>
    BY <1>3 DEF force_rebalance_irq
  <2> QED
    BY <1>1, <2>1 DEF ListInv, ListsAgree, ListsLive, Absent, DbOK, NoIrqLost,
       Pending, NoneStays, rebalance_irq_list, AffinityApplied
<1>4. CASE level[i] # "NONE"
  <2>1. /\ interrupts' = ListsAfter(assigned_obj[i], NULL, i)
        /\ assigned_obj' = AssignedAfter(assigned_obj[i], NULL, i)
        /\ moved' = [moved EXCEPT ![i] = MovedAfter(assigned_obj[i], i)]
    BY <1>4 DEF force_rebalance_irq, migrate_irq_obj
  <2>2. MovedAfter(assigned_obj[i], i) \in BOOLEAN
    BY <1>2 DEF MovedAfter, OnList
  <2>3. /\ ListInv' /\ NoIrqLost' /\ NoneStays'
        /\ assigned_obj'[i] = NULL
        /\ \A j \in Irqs : j # i => /\ assigned_obj'[j] = assigned_obj[j]
                                    /\ moved'[j] = moved[j]
    BY <1>2, <1>4, <2>1, <2>2, MigrateSafe
  <2>4. AffinityApplied'
    BY <1>1, <1>2, <2>3 DEF AffinityApplied
  <2> QED
    BY <2>3, <2>4
<1> QED
  BY <1>3, <1>4

SafeInv == ListInv /\ NoIrqLost /\ NoneStays /\ AffinityApplied

\* Sorting one list keeps every fact about lists.
LEMMA ReorderSafe ==
    ASSUME IInv, pc # "force", pc' # "force",
           NEW h \in Holders, NEW s \in SortedLists(interrupts[h]),
           interrupts' = [interrupts EXCEPT ![h] = s],
           UNCHANGED <<interrupts_db, assigned_obj, moved, level, smp_affinity>>
    PROVE  SafeInv'
<1>1. TypeOK /\ ListInv /\ NoIrqLost /\ NoneStays /\ AffinityApplied
  BY DEF IInv
<1>2. interrupts \in [Holders -> Seq(Irqs)] /\ assigned_obj \in [Irqs -> Holders]
      /\ NULL \in Holders /\ Range(interrupts_db) \subseteq Irqs
  BY <1>1, ListTypes DEF TypeOK, Holders
<1>3. Range(s) = Range(interrupts[h]) /\ IsInjective(s)
  BY <1>1, <1>2, SortedFacts DEF ListInv, ListsAgree
<1>4. \A g \in Holders : /\ Range(interrupts'[g]) = Range(interrupts[g])
                         /\ IsInjective(interrupts'[g])
  BY <1>1, <1>2, <1>3 DEF ListInv, ListsAgree
<1>5. ListInv'
  BY <1>1, <1>4 DEF ListInv, ListsAgree, ListsLive, Absent, DbOK
<1>6. NoIrqLost'
  BY <1>1, <1>2, <1>4 DEF NoIrqLost, Pending
<1>7. NoneStays'
  BY <1>1, <1>2, <1>4 DEF NoneStays, rebalance_irq_list
<1>8. AffinityApplied'
  BY <1>1 DEF AffinityApplied
<1> QED
  BY <1>5, <1>6, <1>7, <1>8 DEF SafeInv

\* Clearing the moved flag of an irq, and changing its affinity or opting it out
\* of balancing, leaves the lists alone.
LEMMA FlagSafe ==
    ASSUME IInv, pc # "force", pc' # "force",
           NEW i \in Irqs, assigned_obj[i] # NULL, i \in Range(interrupts_db),
           moved' = [moved EXCEPT ![i] = FALSE],
           \/ level' = level
           \/ level' = [level EXCEPT ![i] = "NONE"],
           \A j \in Irqs : j # i => smp_affinity'[j] = smp_affinity[j],
           \/ i \in Unreadable
           \/ smp_affinity'[i] = AppliedMask(assigned_obj[i])
           \/ level'[i] = "NONE",
           UNCHANGED <<interrupts_db, interrupts, assigned_obj>>
    PROVE  SafeInv'
<1>1. TypeOK /\ ListInv /\ NoIrqLost /\ NoneStays /\ AffinityApplied
  BY DEF IInv
<1>2. /\ moved \in [Irqs -> BOOLEAN] /\ level \in [Irqs -> Levels]
      /\ Range(interrupts_db) \subseteq Irqs /\ NULL \in Holders
  BY <1>1, ListTypes DEF TypeOK, Holders
<1>3. i \notin Range(interrupts[NULL])
  BY <1>1, <1>2 DEF ListInv, ListsAgree
<1>4. /\ ~moved'[i]
      /\ \A j \in Irqs : j # i => moved'[j] = moved[j] /\ level'[j] = level[j]
      /\ level'[i] = "NONE" \/ level'[i] = level[i]
  BY <1>2
<1>5. ListInv'
  BY <1>1, <1>2, <1>4 DEF ListInv, ListsAgree, ListsLive, Absent, DbOK
<1>6. NoIrqLost'
  BY <1>1, <1>2, <1>4 DEF NoIrqLost, Pending
<1>7. NoneStays'
  BY <1>1, <1>2, <1>3, <1>4 DEF NoneStays, rebalance_irq_list
<1>8. AffinityApplied'
  BY <1>1, <1>2, <1>4 DEF AffinityApplied
<1> QED
  BY <1>5, <1>6, <1>7, <1>8 DEF SafeInv

\* Adding an irq that is on no list, and has no object, to rebalance_irq_list.
LEMMA AppendLists ==
    ASSUME TypeOK, ListsAgree, NEW i \in Irqs, assigned_obj[i] = NULL,
           i \notin Range(interrupts[NULL]),
           interrupts' = [interrupts EXCEPT ![NULL] = Append(@, i)],
           assigned_obj' = assigned_obj
    PROVE  /\ ListsAgree'
           /\ \A h \in Holders : Range(interrupts[h]) \subseteq Range(interrupts'[h])
           /\ Range(interrupts'[NULL]) = Range(interrupts[NULL]) \cup {i}
           /\ \A h \in Objects : Range(interrupts'[h]) = Range(interrupts[h])
<1>1. /\ interrupts \in [Holders -> Seq(Irqs)] /\ NULL \in Holders
      /\ Objects \subseteq Holders
  BY DEF TypeOK, Holders
<1>2. /\ Range(Append(interrupts[NULL], i)) = Range(interrupts[NULL]) \cup {i}
      /\ IsInjective(Append(interrupts[NULL], i))
  BY <1>1, AppendFacts DEF ListsAgree
<1>3. ASSUME NEW h \in Holders
      PROVE  /\ IsInjective(interrupts'[h])
             /\ Range(interrupts'[h]) = IF h = NULL THEN Range(interrupts[h]) \cup {i}
                                        ELSE Range(interrupts[h])
  <2>1. CASE h = NULL
    BY <1>1, <1>2, <2>1
  <2>2. CASE h # NULL
    BY <1>1, <2>2 DEF ListsAgree
  <2> QED
    BY <2>1, <2>2
<1>4. ASSUME NEW h \in Holders, NEW j \in Range(interrupts'[h])
      PROVE  assigned_obj[j] = h
  <2>1. CASE j \in Range(interrupts[h])
    BY <2>1 DEF ListsAgree
  <2>2. CASE j \notin Range(interrupts[h])
    <3>1. Range(interrupts'[h]) = IF h = NULL THEN Range(interrupts[h]) \cup {i}
                                  ELSE Range(interrupts[h])
      BY <1>3
    <3>2. h = NULL /\ j = i
      BY <1>4, <2>2, <3>1
    <3> QED
      BY <3>2
  <2> QED
    BY <2>1, <2>2
<1>5. ListsAgree'
  BY <1>3, <1>4 DEF ListsAgree
<1> QED
  BY <1>1, <1>3, <1>5, NullAssumption

\* Finding an irq of /proc/interrupts, or adding it, keeps every fact about lists.
LEMMA FindSafe ==
    ASSUME IInv, pc = "parse", pc' = "parse", NEW i \in Irqs, FindOrAdd(i),
           UNCHANGED <<assigned_obj, moved, level, smp_affinity>>
    PROVE  SafeInv'
<1>1. TypeOK /\ ListInv /\ NoIrqLost /\ NoneStays /\ AffinityApplied
  BY DEF IInv
<1>2. interrupts \in [Holders -> Seq(Irqs)] /\ assigned_obj \in [Irqs -> Holders]
      /\ NULL \in Holders /\ interrupts_db \in Seq(Irqs)
      /\ Range(interrupts_db) \subseteq Irqs
  BY <1>1, ListTypes DEF TypeOK, Holders
<1>3. CASE UNCHANGED <<interrupts_db, interrupts>>
  BY <1>1, <1>3 DEF SafeInv, ListInv, ListsAgree, ListsLive, Absent, DbOK,
     NoIrqLost, Pending, NoneStays, rebalance_irq_list, AffinityApplied
<1>4. CASE ~Known(i) /\ proc_irq_hotplug(i) /\ i \notin BannedIrqs
  <2>1. i \notin Range(interrupts_db)
    BY <1>4 DEF Known
  <2>2. assigned_obj[i] = NULL /\ ~moved[i] /\ level[i] = policy_level[i]
    BY <1>1, <2>1 DEF ListInv, Absent
  <2>3. \A h \in Holders : i \notin Range(interrupts[h])
    BY <1>1, <2>1 DEF ListInv, ListsLive
  <2>4. /\ interrupts_db' = Append(interrupts_db, i)
        /\ Range(interrupts_db') = Range(interrupts_db) \cup {i}
        /\ IsInjective(interrupts_db')
    BY <1>1, <1>2, <1>4, <2>1, AppendFacts DEF proc_irq_hotplug, ListInv, DbOK
  <2>5. CASE policy_level[i] = "NONE"
    <3>1. interrupts' = interrupts
      BY <1>4, <2>5 DEF proc_irq_hotplug
    <3> QED
      BY <1>1, <1>2, <1>4, <2>2, <2>3, <2>4, <2>5, <3>1 DEF SafeInv, ListInv,
         ListsAgree,
         ListsLive, Absent, DbOK, NoIrqLost, Pending, NoneStays,
         rebalance_irq_list, AffinityApplied
  <2>6. CASE policy_level[i] # "NONE"
    <3>1. interrupts' = [interrupts EXCEPT ![NULL] = Append(@, i)]
      BY <1>4, <2>6 DEF proc_irq_hotplug
    <3>2. ListsAgree
      BY <1>1 DEF ListInv
    <3>3. /\ ListsAgree'
          /\ \A h \in Holders : Range(interrupts[h]) \subseteq Range(interrupts'[h])
          /\ Range(interrupts'[NULL]) = Range(interrupts[NULL]) \cup {i}
          /\ \A h \in Objects : Range(interrupts'[h]) = Range(interrupts[h])
      BY <1>1, <1>2, <2>2, <2>3, <3>1, <3>2, AppendLists
    <3>4. ListInv'
      <4>2. ListsLive'
        BY <1>1, <2>4, <3>3 DEF ListInv, ListsLive, Holders
      <4>3. Absent' /\ DbOK'
        BY <1>1, <1>4, <2>4 DEF ListInv, Absent, DbOK
      <4> QED
        BY <3>3, <4>2, <4>3 DEF ListInv
    <3>5. NoIrqLost'
      BY <1>1, <1>2, <2>2, <2>4, <3>3 DEF NoIrqLost, Pending
    <3>6. NoneStays'
      BY <1>1, <1>2, <2>2, <2>4, <2>6, <3>3 DEF NoneStays, rebalance_irq_list
    <3>7. AffinityApplied'
      BY <1>1, <2>2, <2>4 DEF AffinityApplied
    <3> QED
      BY <3>4, <3>5, <3>6, <3>7 DEF SafeInv
  <2> QED
    BY <2>5, <2>6
<1>5. CASE proc_irq_hotplug(i) /\ i \in BannedIrqs
  BY <1>3, <1>5 DEF proc_irq_hotplug
<1> QED
  BY <1>3, <1>4, <1>5 DEF FindOrAdd

\* A freed irq leaves the database, its object's list and rebalance_irq_list.
LEMMA RemoveSafe ==
    ASSUME IInv, RemoveNoExisting
    PROVE  SafeInv'
<1>1. TypeOK /\ ListInv /\ NoIrqLost /\ NoneStays /\ AffinityApplied /\ WorkOK
  BY DEF IInv
<1> DEFINE i == Head(work)
<1>2. interrupts \in [Holders -> Seq(Irqs)] /\ assigned_obj \in [Irqs -> Holders]
      /\ moved \in [Irqs -> BOOLEAN] /\ level \in [Irqs -> Levels]
      /\ NULL \in Holders /\ interrupts_db \in Seq(Irqs)
      /\ Range(interrupts_db) \subseteq Irqs
  BY <1>1, ListTypes DEF TypeOK, Holders
<1>3. i \in Irqs /\ pc = "clear" /\ pc' = "clear"
  BY <1>1, LoopFacts DEF RemoveNoExisting
<1>4. /\ interrupts_db' = RemoveFirst(interrupts_db, i)
      /\ interrupts' = RemovedFrom(i)
      /\ assigned_obj' = [assigned_obj EXCEPT ![i] = NULL]
      /\ moved' = [moved EXCEPT ![i] = FALSE]
      /\ level' = [level EXCEPT ![i] = policy_level[i]]
      /\ smp_affinity' = smp_affinity
  BY DEF RemoveNoExisting
<1> HIDE DEF i
<1>5. /\ Range(interrupts_db') = Range(interrupts_db) \ {i}
      /\ IsInjective(interrupts_db')
  BY <1>1, <1>2, <1>4, RemoveFirstFacts DEF ListInv, DbOK
<1>6. ASSUME NEW h \in Holders
      PROVE  /\ IsInjective(interrupts'[h])
             /\ Range(interrupts'[h]) = Range(interrupts[h]) \ {i}
  <2>1. interrupts[h] \in Seq(Irqs) /\ IsInjective(interrupts[h])
    BY <1>1, <1>2 DEF ListInv, ListsAgree
  <2>2. CASE h \in {NULL, assigned_obj[i]}
    <3>1. interrupts'[h] = RemoveFirst(interrupts[h], i)
      BY <1>4, <2>2 DEF RemovedFrom
    <3> QED
      BY <2>1, <3>1, RemoveFirstFacts
  <2>3. CASE h \notin {NULL, assigned_obj[i]}
    <3>1. interrupts'[h] = interrupts[h] /\ i \notin Range(interrupts[h])
      BY <1>1, <1>4, <2>3 DEF RemovedFrom, ListInv, ListsAgree
    <3> QED
      BY <2>1, <3>1
  <2> QED
    BY <2>2, <2>3
<1>7. /\ assigned_obj'[i] = NULL /\ ~moved'[i] /\ level'[i] = policy_level[i]
      /\ \A j \in Irqs : j # i => /\ assigned_obj'[j] = assigned_obj[j]
                                  /\ moved'[j] = moved[j]
                                  /\ level'[j] = level[j]
  BY <1>2, <1>3, <1>4
<1>8. \A h \in Holders : Range(interrupts[h]) \subseteq Irqs
  BY <1>2 DEF Range
<1>9. ListInv'
  <2>1. ListsAgree'
    BY <1>1, <1>6, <1>7, <1>8 DEF ListInv, ListsAgree
  <2>2. ListsLive'
    BY <1>1, <1>5, <1>6 DEF ListInv, ListsLive
  <2>3. Absent'
    BY <1>1, <1>5, <1>7 DEF ListInv, Absent
  <2>4. DbOK'
    BY <1>1, <1>5 DEF ListInv, DbOK
  <2> QED
    BY <2>1, <2>2, <2>3, <2>4 DEF ListInv
<1>10. NoIrqLost'
  BY <1>1, <1>2, <1>3, <1>5, <1>6, <1>7 DEF NoIrqLost, Pending
<1>11. NoneStays'
  BY <1>1, <1>2, <1>5, <1>6, <1>7 DEF NoneStays, rebalance_irq_list
<1>12. AffinityApplied'
  BY <1>1, <1>2, <1>4, <1>5, <1>7 DEF AffinityApplied
<1> QED
  BY <1>9, <1>10, <1>11, <1>12 DEF SafeInv

\* Building the database anew, and filling rebalance_irq_list from it.
LEMMA RebuildSafe ==
    ASSUME IInv, Rebuilding
    PROVE  SafeInv'
<1>1. TypeOK /\ ListInv /\ NoIrqLost /\ NoneStays /\ AffinityApplied /\ WorkOK
      /\ PhaseOK
  BY DEF IInv
<1>2. interrupts \in [Holders -> Seq(Irqs)] /\ assigned_obj \in [Irqs -> Holders]
      /\ NULL \in Holders /\ Range(interrupts_db) \subseteq Irqs
      /\ work \in Seq(Irqs)
  BY <1>1, ListTypes DEF TypeOK, Holders
<1>3. CASE Build
  <2>1. work' = interrupts_db'
    BY <1>3, BuildFacts
  <2>2. IsInjective(interrupts_db') /\ Range(interrupts_db') \subseteq Irqs \ BannedIrqs
    BY <1>3, BuildFacts
  <2>3. /\ \A h \in Holders : interrupts'[h] = <<>>
        /\ \A j \in Irqs : assigned_obj'[j] = NULL /\ ~moved'[j]
        /\ level' = policy_level /\ pc' = "force"
    BY <1>3 DEF Build, FreshLists
  <2>4. Range(<<>>) = {} /\ IsInjective(<<>>)
    BY DEF Range, IsInjective
  <2>5. ListInv'
    BY <2>1, <2>2, <2>3, <2>4 DEF ListInv, ListsAgree, ListsLive, Absent, DbOK
  <2>6. NoIrqLost'
    BY <2>1, <2>3 DEF NoIrqLost, Pending
  <2>7. NoneStays' /\ AffinityApplied'
    BY <1>2, <2>1, <2>2, <2>3, <2>4 DEF NoneStays, AffinityApplied,
       rebalance_irq_list
  <2> QED
    BY <2>5, <2>6, <2>7 DEF SafeInv
<1>4. CASE ForceAll
  <2> DEFINE i == Head(work)
  <2>1. /\ i \in Irqs /\ i \in Range(work) /\ i \in Range(interrupts_db)
        /\ Range(work) = Range(Tail(work)) \cup {i}
    BY <1>1, <1>2, <1>4, TailFacts DEF ForceAll, WorkOK
  <2>2. assigned_obj[i] = NULL /\ i \notin Range(interrupts[NULL])
    BY <1>1, <1>4, <2>1 DEF PhaseOK, ForceAll
  <2>3. /\ pc = "force" /\ pc' = "force" /\ work' = Tail(work)
        /\ UNCHANGED <<interrupts_db, assigned_obj, moved, level, smp_affinity>>
        /\ \/ level[i] = "NONE" /\ interrupts' = interrupts
           \/ /\ level[i] # "NONE"
              /\ interrupts' = [interrupts EXCEPT ![NULL] = Append(@, i)]
    BY <1>4, <2>2 DEF ForceAll, force_rebalance_irq, dbVars
  <2> HIDE DEF i
  <2>4. CASE level[i] = "NONE"
    <3>1. interrupts' = interrupts
      BY <2>3, <2>4
    <3>2. ListInv' /\ NoneStays' /\ AffinityApplied'
      BY <1>1, <2>3, <3>1 DEF ListInv, ListsAgree, ListsLive, Absent, DbOK,
         NoneStays, rebalance_irq_list, AffinityApplied
    <3>3. NoIrqLost'
      BY <1>1, <2>1, <2>3, <2>4, <3>1 DEF NoIrqLost, Pending
    <3> QED
      BY <3>2, <3>3 DEF SafeInv
  <2>5. CASE level[i] # "NONE"
    <3>1. ListsAgree /\ interrupts' = [interrupts EXCEPT ![NULL] = Append(@, i)]
      BY <1>1, <2>3, <2>5 DEF ListInv
    <3>2. UNCHANGED <<interrupts_db, assigned_obj, moved, level, smp_affinity>>
          /\ pc = "force" /\ pc' = "force" /\ work' = Tail(work)
      BY <2>3
    <3>3. /\ ListsAgree'
          /\ \A h \in Holders : Range(interrupts[h]) \subseteq Range(interrupts'[h])
          /\ Range(interrupts'[NULL]) = Range(interrupts[NULL]) \cup {i}
          /\ \A h \in Objects : Range(interrupts'[h]) = Range(interrupts[h])
      BY <1>1, <2>1, <2>2, <3>1, <3>2, AppendLists
    <3>4. ListsLive' /\ Absent' /\ DbOK'
      BY <1>1, <2>1, <3>2, <3>3 DEF ListInv, ListsLive, Absent, DbOK, Holders
    <3>5. NoIrqLost'
      <4>1. ASSUME NEW j \in Range(interrupts_db) \ Range(Tail(work)),
                   level[j] # "NONE"
            PROVE  j \in Range(interrupts'[assigned_obj[j]])
        <5>1. CASE j = i
          BY <2>2, <3>3, <5>1
        <5>2. CASE j # i
          <6>1. j \in Range(interrupts[assigned_obj[j]])
            BY <1>1, <2>1, <3>2, <4>1, <5>2 DEF NoIrqLost, Pending
          <6> QED
            BY <1>2, <3>3, <4>1, <6>1
        <5> QED
          BY <5>1, <5>2
      <4> QED
        BY <3>2, <4>1 DEF NoIrqLost, Pending
    <3>6. NoneStays'
      BY <1>1, <2>5, <3>2, <3>3 DEF NoneStays, rebalance_irq_list
    <3>7. AffinityApplied'
      BY <1>1, <3>2 DEF AffinityApplied
    <3> QED
      BY <3>3, <3>4, <3>5, <3>6, <3>7 DEF SafeInv, ListInv
  <2> QED
    BY <2>4, <2>5
<1>5. CASE ClearSlots
  <2>1. /\ pc = "force" /\ work = <<>> /\ pc' = "parse"
        /\ UNCHANGED <<interrupts_db, interrupts, assigned_obj, moved, level,
                       smp_affinity>>
    BY <1>5 DEF ClearSlots, dbVars, irqVars
  <2>2. Pending = {} /\ Pending' = {}
    BY <2>1 DEF Pending, Range
  <2>3. NoIrqLost'
    BY <1>1, <2>1, <2>2 DEF NoIrqLost
  <2> QED
    BY <1>1, <2>1, <2>3 DEF SafeInv, ListInv, ListsAgree, ListsLive, Absent, DbOK,
       NoneStays, rebalance_irq_list, AffinityApplied
<1> QED
  BY <1>3, <1>4, <1>5 DEF Rebuilding

\* The steps of activate_mapping that clear the moved flag.
LEMMA ActivateSafe ==
    ASSUME IInv, \/ AlreadyApplied \/ WriteSucceeds \/ WriteFailsForGood
                 \/ FallbackSucceeds \/ GiveUp
    PROVE  SafeInv'
<1>1. TypeOK /\ LoopOK /\ WorkOK /\ PhaseOK /\ ListInv /\ NoIrqLost /\ NoneStays
      /\ AffinityApplied
  BY DEF IInv
<1> DEFINE i == Head(work)
           o == assigned_obj[Head(work)]
<1>2. pc \in {"activate", "fallback"} /\ work # <<>>
  BY <1>1 DEF AlreadyApplied, WriteSucceeds, WriteFailsForGood, FallbackSucceeds,
     GiveUp, MayTry, LoopOK
<1>3. /\ i \in Irqs /\ i \in Range(interrupts_db) /\ o \in Holders
      /\ smp_affinity \in [Irqs -> SUBSET CpuIds] /\ level \in [Irqs -> Levels]
      /\ moved \in [Irqs -> BOOLEAN] /\ NULL \in Holders /\ Objects \subseteq Holders
      /\ Range(interrupts_db) \subseteq Irqs
  BY <1>1, <1>2, LoopFacts, ListTypes DEF WorkOK, TypeOK, Holders
<1>4. CASE AlreadyApplied
  BY <1>3, <1>4, FlagSafe DEF AlreadyApplied, ToActivate, AffinityStands, dbVars
<1>5. CASE WriteSucceeds
  <2>1. /\ pc = "activate" /\ pc' = "activate" /\ o # NULL
        /\ moved' = [moved EXCEPT ![i] = FALSE] /\ level' = level
        /\ smp_affinity' = [smp_affinity EXCEPT ![i] = AppliedMask(o)]
        /\ UNCHANGED <<interrupts_db, interrupts, assigned_obj>>
    BY <1>5 DEF WriteSucceeds, Writes, ToActivate, dbVars
  <2>2. /\ smp_affinity'[i] = AppliedMask(o)
        /\ \A j \in Irqs : j # i => smp_affinity'[j] = smp_affinity[j]
    BY <1>3, <2>1
  <2> QED
    BY <1>3, <2>1, <2>2, FlagSafe
<1>6. CASE WriteFailsForGood
  <2>1. /\ pc = "activate" /\ pc' = "activate" /\ o # NULL
        /\ moved' = [moved EXCEPT ![i] = FALSE]
        /\ level' = [level EXCEPT ![i] = "NONE"]
        /\ UNCHANGED <<interrupts_db, interrupts, assigned_obj, smp_affinity>>
    BY <1>6 DEF WriteFailsForGood, Writes, ToActivate, dbVars
  <2>2. level'[i] = "NONE"
    BY <1>3, <2>1
  <2> QED
    BY <1>3, <2>1, <2>2, FlagSafe
<1>7. ASSUME pc = "fallback"
      PROVE  moved[i] /\ level[i] # "NONE" /\ o # NULL
  BY <1>1, <1>3, <1>7 DEF PhaseOK, NoneStays
<1>8. CASE FallbackSucceeds
  <2>1. pc = "fallback" /\ pc' = "activate"
    BY <1>8 DEF FallbackSucceeds, MayTry
  <2>2. PICK c \in Objects :
            /\ smp_affinity' = [smp_affinity EXCEPT ![i] = AppliedMask(c)]
            /\ interrupts' = ListsAfter(o, c, i)
            /\ assigned_obj' = AssignedAfter(o, c, i)
            /\ moved' = [moved EXCEPT ![i] = FALSE]
    BY <1>8 DEF FallbackSucceeds
  <2>3. UNCHANGED <<interrupts_db, level>>
    BY <1>8 DEF FallbackSucceeds, dbVars
  <2> HIDE DEF i, o
  <2>4. /\ ListInv' /\ NoIrqLost' /\ NoneStays' /\ assigned_obj'[i] = c
        /\ \A j \in Irqs : j # i => /\ assigned_obj'[j] = assigned_obj[j]
                                    /\ moved'[j] = moved[j]
    BY <1>3, <1>7, <2>1, <2>2, <2>3, MigrateSafe DEF i, o
  <2>5. /\ smp_affinity'[i] = AppliedMask(c)
        /\ \A j \in Irqs : j # i => smp_affinity'[j] = smp_affinity[j]
    BY <1>3, <2>2
  <2>6. AffinityApplied'
    BY <1>1, <1>3, <2>3, <2>4, <2>5 DEF AffinityApplied
  <2> QED
    BY <2>4, <2>6 DEF SafeInv
<1>9. CASE GiveUp
  <2>1. pc = "fallback" /\ pc' = "activate"
    BY <1>9 DEF GiveUp
  <2>2. /\ interrupts' = ListsAfter(o, NULL, i)
        /\ assigned_obj' = AssignedAfter(o, NULL, i)
        /\ moved' = [moved EXCEPT ![i] = FALSE]
        /\ UNCHANGED <<interrupts_db, level, smp_affinity>>
    BY <1>7, <1>9, <2>1 DEF GiveUp, dbVars
  <2> HIDE DEF i, o
  <2>3. /\ ListInv' /\ NoIrqLost' /\ NoneStays' /\ assigned_obj'[i] = NULL
        /\ \A j \in Irqs : j # i => /\ assigned_obj'[j] = assigned_obj[j]
                                    /\ moved'[j] = moved[j]
    BY <1>3, <1>7, <2>1, <2>2, MigrateSafe DEF i, o
  <2>4. AffinityApplied'
    BY <1>1, <1>3, <2>2, <2>3 DEF AffinityApplied
  <2> QED
    BY <2>3, <2>4 DEF SafeInv
<1> QED
  BY <1>4, <1>5, <1>6, <1>8, <1>9

\* Every action keeps the facts about lists, lost irqs and affinities.
LEMMA SafeNext ==
    ASSUME IInv, Next
    PROVE  SafeInv'
<1>1. TypeOK /\ LoopOK /\ WorkOK /\ PhaseOK /\ ListInv /\ NoIrqLost /\ NoneStays
      /\ AffinityApplied
  BY DEF IInv
<1>2. /\ NULL \in Holders /\ Objects \subseteq Holders
      /\ moved \in [Irqs -> BOOLEAN] /\ assigned_obj \in [Irqs -> Holders]
      /\ Range(interrupts_db) \subseteq Irqs
  BY <1>1, ListTypes DEF TypeOK, Holders
<1>3. CASE QuietStep \/ NoSpace \/ FallbackFull
  <2>1. /\ UNCHANGED <<interrupts_db, interrupts, assigned_obj, moved, level,
                       smp_affinity>>
        /\ pc # "force" /\ pc' # "force"
    BY <1>3, QuietFacts DEF Quiet, NoSpace, FallbackFull, MayTry, loopVars,
       dbVars, irqVars
  <2> QED
    BY <1>1, <2>1 DEF SafeInv, ListInv, ListsAgree, ListsLive, Absent, DbOK,
       NoIrqLost, Pending, NoneStays, rebalance_irq_list, AffinityApplied
<1>4. CASE Rebuilding
  BY <1>4, RebuildSafe
<1>5. CASE RemoveNoExisting
  BY <1>5, RemoveSafe
<1>6. CASE ParseLine \/ LineMismatch
  <2>1. /\ pc = "parse" /\ pc' = "parse" /\ FindOrAdd(Head(work))
        /\ Head(work) \in Irqs
        /\ UNCHANGED <<assigned_obj, moved, level, smp_affinity>>
    BY <1>1, <1>6, LoopFacts DEF ParseLine, LineMismatch
  <2> QED
    BY <2>1, FindSafe
<1>7. CASE OpenObject
  <2>1. Head(objs) \in Holders
    BY <1>1, <1>2, <1>7, LoopFacts DEF OpenObject
  <2>2. PICK s \in SortedLists(interrupts[Head(objs)]) :
            interrupts' = [interrupts EXCEPT ![Head(objs)] = s]
    BY <1>7 DEF OpenObject
  <2>3. /\ pc # "force" /\ pc' # "force"
        /\ UNCHANGED <<interrupts_db, assigned_obj, moved, level, smp_affinity>>
    BY <1>7 DEF OpenObject, dbVars
  <2> QED
    BY <2>1, <2>2, <2>3, ReorderSafe
<1>8. CASE SortRebalance
  <2>1. PICK s \in SortedLists(interrupts[NULL]) :
            /\ interrupts' = [interrupts EXCEPT ![NULL] = s]
            /\ pc' \in {"place", "activate"}
    BY <1>8 DEF SortRebalance, rebalance_irq_list
  <2>2. /\ pc # "force"
        /\ UNCHANGED <<interrupts_db, assigned_obj, moved, level, smp_affinity>>
    BY <1>8 DEF SortRebalance, dbVars
  <2> QED
    BY <1>2, <2>1, <2>2, ReorderSafe
<1>9. CASE MoveCandidate \/ EmptyPowersave
  <2>1. /\ pc \in {"candidates", "powersave"} /\ pc' = pc /\ work # <<>>
        /\ force_rebalance_irq(Head(work))
        /\ UNCHANGED <<interrupts_db, level, smp_affinity>>
    BY <1>9 DEF MoveCandidate, EmptyPowersave, dbVars
  <2>2. Head(work) \in Range(interrupts_db) /\ assigned_obj[Head(work)] # NULL
    BY <1>1, <2>1, LoopFacts DEF WorkOK, PhaseOK
  <2> QED
    BY <2>1, <2>2, ForceSafe DEF SafeInv
<1>10. CASE PlaceInNode \/ PushDown
  <2> DEFINE i == Head(work)
  <2>1. /\ pc \in {"place", "push"} /\ pc' = pc /\ work # <<>>
        /\ UNCHANGED <<interrupts_db, level, smp_affinity>>
    BY <1>10 DEF PlaceInNode, PushDown, dbVars
  <2>2. i \in Range(work) /\ i \in Range(interrupts_db)
    BY <1>1, <2>1, LoopFacts DEF WorkOK
  <2>3. level[i] # "NONE"
    BY <1>1, <1>10, <2>2 DEF PhaseOK, NoneStays, PlaceInNode, PushDown
  <2>4. \E to \in Holders : migrate_irq_obj(assigned_obj[i], to, i)
    <3>1. CASE PlaceInNode
      <4>1. \A o \in Range(numa_nodes) : o \in Holders
        BY <1>2, ListAssumption DEF Range
      <4>2. numa_node[i] \in Holders
        BY <1>2, <2>2, <4>1, PolicyAssumption
      <4> QED
        BY <3>1, <4>1, <4>2 DEF PlaceInNode, Range
    <3>2. CASE PushDown
      <4>1. Head(objs) \in Objects
        BY <1>1, <3>2, LoopFacts DEF LoopOK, PushDown
      <4>2. i \in Range(interrupts[Head(objs)])
        BY <1>1, <2>2, <3>2 DEF PhaseOK, PushDown
      <4>3. assigned_obj[i] = Head(objs)
        BY <1>1, <1>2, <4>1, <4>2 DEF ListInv, ListsAgree
      <4>4. \A k \in DOMAIN children[Head(objs)] :
                children[Head(objs)][k] \in Holders
        BY <1>2, <4>1, TreeAssumption
      <4> QED
        BY <3>2, <4>3, <4>4 DEF PushDown
    <3> QED
      BY <1>10, <3>1, <3>2
  <2>5. PICK to \in Holders : migrate_irq_obj(assigned_obj[i], to, i)
    BY <2>4
  <2>6. /\ interrupts' = ListsAfter(assigned_obj[i], to, i)
        /\ assigned_obj' = AssignedAfter(assigned_obj[i], to, i)
        /\ moved' = [moved EXCEPT ![i] = MovedAfter(assigned_obj[i], i)]
    BY <2>5 DEF migrate_irq_obj
  <2>7. MovedAfter(assigned_obj[i], i) \in BOOLEAN
    BY <1>2, <2>2 DEF MovedAfter, OnList
  <2>8. /\ ListInv' /\ NoIrqLost' /\ NoneStays' /\ OnList(assigned_obj[i], i)
        /\ \A j \in Irqs : j # i => /\ assigned_obj'[j] = assigned_obj[j]
                                    /\ moved'[j] = moved[j]
    BY <2>1, <2>2, <2>3, <2>6, <2>7, MigrateSafe
  <2> HIDE DEF i
  <2>9. moved'[i]
    BY <1>2, <2>2, <2>6, <2>8 DEF MovedAfter
  <2>10. AffinityApplied'
    BY <1>1, <1>2, <2>1, <2>8, <2>9 DEF AffinityApplied
  <2> QED
    BY <2>8, <2>10 DEF SafeInv
<1>11. CASE \/ AlreadyApplied \/ WriteSucceeds \/ WriteFailsForGood
            \/ FallbackSucceeds \/ GiveUp
  BY <1>11, ActivateSafe
<1> QED
  BY <1>3, <1>4, <1>5, <1>6, <1>7, <1>8, <1>9, <1>10, <1>11
     DEF Next, Cycle, Parsing, Selecting, Placing, Activating, QuietStep

-----------------------------------------------------------------------------
(* What is left of the list a loop walks over                              *)

\* The loop that runs is the parser, which walks over lines.
ParserStep ==
    \/ ClearSlots \/ StartScan \/ ParseLine \/ LineMismatch
    \/ HotplugFails \/ NoMemory

\* The list is left alone.
SameWork ==
    \/ RequestRescan \/ ClearBanned \/ ParseProcStat \/ StatFails
    \/ Gather \/ PassObject \/ EndCandidates \/ EndPowersave
    \/ EndObjects \/ EndPlace \/ CloseDomain \/ NoSpace
    \/ FallbackFull \/ FallbackRefused \/ EndScan

\* The head of the list has been dealt with.
NextWork ==
    \/ ForceAll \/ KeepExisting \/ MoveCandidate \/ KeepCandidate
    \/ EmptyPowersave \/ PlaceInNode \/ NotPlaced \/ PushDown
    \/ StayHere \/ SkipActivation \/ AlreadyApplied \/ WriteSucceeds
    \/ WriteFailsForNow \/ WriteFailsForGood \/ FallbackSucceeds \/ GiveUp

\* What each kind of step does to the list the loop walks over.
LEMMA WorkSteps ==
    ASSUME LoopOK
    PROVE  /\ ParserStep => pc' = "parse"
           /\ SameWork => pc # "parse" /\ UNCHANGED <<work, interrupts_db>>
           /\ NextWork => /\ pc # "parse" /\ work # <<>> /\ work' = Tail(work)
                          /\ UNCHANGED interrupts_db
<1>1. ClearSlots => pc' = "parse"
  BY DEF ClearSlots
<1>2. StartScan => pc' = "parse"
  BY DEF StartScan
<1>3. ParseLine => pc' = "parse"
  BY DEF ParseLine
<1>4. LineMismatch => pc' = "parse"
  BY DEF LineMismatch
<1>5. HotplugFails => pc' = "parse"
  BY DEF HotplugFails
<1>6. NoMemory => pc' = "parse"
  BY DEF NoMemory
<1>7. RequestRescan => pc # "parse" /\ UNCHANGED <<work, interrupts_db>>
  BY DEF RequestRescan, AfterStat, MayTry, loopVars, dbVars
<1>8. ClearBanned => pc # "parse" /\ UNCHANGED <<work, interrupts_db>>
  BY DEF ClearBanned, AfterStat, MayTry, loopVars, dbVars
<1>9. ParseProcStat => pc # "parse" /\ UNCHANGED <<work, interrupts_db>>
  BY DEF ParseProcStat, AfterStat, MayTry, loopVars, dbVars
<1>10. StatFails => pc # "parse" /\ UNCHANGED <<work, interrupts_db>>
  BY DEF StatFails, AfterStat, MayTry, loopVars, dbVars
<1>11. Gather => pc # "parse" /\ UNCHANGED <<work, interrupts_db>>
  BY DEF Gather, AfterStat, MayTry, loopVars, dbVars
<1>12. PassObject => pc # "parse" /\ UNCHANGED <<work, interrupts_db>>
  BY DEF PassObject, AfterStat, MayTry, loopVars, dbVars
<1>13. EndCandidates => pc # "parse" /\ UNCHANGED <<work, interrupts_db>>
  BY DEF EndCandidates, AfterStat, MayTry, loopVars, dbVars
<1>14. EndPowersave => pc # "parse" /\ UNCHANGED <<work, interrupts_db>>
  BY DEF EndPowersave, AfterStat, MayTry, loopVars, dbVars
<1>15. EndObjects => pc # "parse" /\ UNCHANGED <<work, interrupts_db>>
  BY DEF EndObjects, AfterStat, MayTry, loopVars, dbVars
<1>16. EndPlace => pc # "parse" /\ UNCHANGED <<work, interrupts_db>>
  BY DEF EndPlace, AfterStat, MayTry, loopVars, dbVars
<1>17. CloseDomain => pc # "parse" /\ UNCHANGED <<work, interrupts_db>>
  BY DEF CloseDomain, AfterStat, MayTry, loopVars, dbVars
<1>18. NoSpace => pc # "parse" /\ UNCHANGED <<work, interrupts_db>>
  BY DEF NoSpace, AfterStat, MayTry, loopVars, dbVars
<1>19. FallbackFull => pc # "parse" /\ UNCHANGED <<work, interrupts_db>>
  BY DEF FallbackFull, AfterStat, MayTry, loopVars, dbVars
<1>20. FallbackRefused => pc # "parse" /\ UNCHANGED <<work, interrupts_db>>
  BY DEF FallbackRefused, AfterStat, MayTry, loopVars, dbVars
<1>21. EndScan => pc # "parse" /\ UNCHANGED <<work, interrupts_db>>
  BY DEF EndScan, AfterStat, MayTry, loopVars, dbVars
<1>22. ForceAll => /\ pc # "parse" /\ work # <<>> /\ work' = Tail(work)
                   /\ UNCHANGED interrupts_db
  BY DEF ForceAll, dbVars
<1>23. KeepExisting => /\ pc # "parse" /\ work # <<>> /\ work' = Tail(work)
                       /\ UNCHANGED interrupts_db
  BY DEF KeepExisting, dbVars
<1>24. MoveCandidate => /\ pc # "parse" /\ work # <<>> /\ work' = Tail(work)
                        /\ UNCHANGED interrupts_db
  BY DEF MoveCandidate, dbVars
<1>25. KeepCandidate => /\ pc # "parse" /\ work # <<>> /\ work' = Tail(work)
                        /\ UNCHANGED interrupts_db
  BY DEF KeepCandidate, dbVars
<1>26. EmptyPowersave => /\ pc # "parse" /\ work # <<>> /\ work' = Tail(work)
                         /\ UNCHANGED interrupts_db
  BY DEF EmptyPowersave, dbVars
<1>27. PlaceInNode => /\ pc # "parse" /\ work # <<>> /\ work' = Tail(work)
                      /\ UNCHANGED interrupts_db
  BY DEF PlaceInNode, dbVars
<1>28. NotPlaced => /\ pc # "parse" /\ work # <<>> /\ work' = Tail(work)
                    /\ UNCHANGED interrupts_db
  BY DEF NotPlaced, dbVars
<1>29. PushDown => /\ pc # "parse" /\ work # <<>> /\ work' = Tail(work)
                   /\ UNCHANGED interrupts_db
  BY DEF PushDown, dbVars
<1>30. StayHere => /\ pc # "parse" /\ work # <<>> /\ work' = Tail(work)
                   /\ UNCHANGED interrupts_db
  BY DEF StayHere, dbVars
<1>31. SkipActivation => /\ pc # "parse" /\ work # <<>> /\ work' = Tail(work)
                         /\ UNCHANGED interrupts_db
  BY DEF SkipActivation, dbVars
<1>32. AlreadyApplied => /\ pc # "parse" /\ work # <<>> /\ work' = Tail(work)
                         /\ UNCHANGED interrupts_db
  BY DEF AlreadyApplied, dbVars
<1>33. WriteSucceeds => /\ pc # "parse" /\ work # <<>> /\ work' = Tail(work)
                        /\ UNCHANGED interrupts_db
  BY DEF WriteSucceeds, dbVars
<1>34. WriteFailsForNow => /\ pc # "parse" /\ work # <<>> /\ work' = Tail(work)
                           /\ UNCHANGED interrupts_db
  BY DEF WriteFailsForNow, dbVars
<1>35. WriteFailsForGood => /\ pc # "parse" /\ work # <<>> /\ work' = Tail(work)
                            /\ UNCHANGED interrupts_db
  BY DEF WriteFailsForGood, dbVars
<1>36. FallbackSucceeds => /\ pc # "parse" /\ work # <<>> /\ work' = Tail(work)
                           /\ UNCHANGED interrupts_db
  BY DEF FallbackSucceeds, MayTry, LoopOK, dbVars
<1>37. GiveUp => /\ pc # "parse" /\ work # <<>> /\ work' = Tail(work)
                 /\ UNCHANGED interrupts_db
  BY DEF GiveUp, MayTry, LoopOK, dbVars
<1> QED
  BY <1>1, <1>2, <1>3, <1>4, <1>5, <1>6, <1>7, <1>8, <1>9, <1>10, <1>11, <1>12,
     <1>13, <1>14, <1>15, <1>16, <1>17, <1>18, <1>19, <1>20, <1>21, <1>22,
     <1>23, <1>24, <1>25, <1>26, <1>27, <1>28, <1>29, <1>30, <1>31, <1>32,
     <1>33, <1>34, <1>35, <1>36, <1>37
     DEF ParserStep, SameWork, NextWork

\* Every loop but the parser walks over irqs of the database, each of them once.
LEMMA WorkNext ==
    ASSUME IInv, Next
    PROVE  WorkOK'
<1>1. TypeOK /\ LoopOK /\ WorkOK /\ ListsAgree /\ ListsLive /\ DbOK
  BY DEF IInv, ListInv
<1>2. /\ interrupts \in [Holders -> Seq(Irqs)] /\ work \in Seq(Irqs)
      /\ interrupts_db \in Seq(Irqs)
      /\ NULL \in Holders /\ Objects \subseteq Holders
  BY <1>1 DEF TypeOK, Holders
<1>3. Range(<<>>) = {} /\ IsInjective(<<>>)
  BY DEF Range, IsInjective
<1>4. CASE ParserStep
  BY <1>1, <1>4, WorkSteps DEF WorkOK
<1>5. CASE SameWork
  BY <1>1, <1>5, WorkSteps DEF WorkOK
<1>6. CASE NextWork
  <2>1. pc # "parse" /\ work # <<>> /\ work' = Tail(work) /\ UNCHANGED
  interrupts_db
    BY <1>1, <1>6, WorkSteps
  <2>2. IsInjective(work) /\ Range(work) \subseteq Range(interrupts_db)
    BY <1>1, <2>1 DEF WorkOK
  <2>3. IsInjective(Tail(work)) /\ Range(Tail(work)) \subseteq Range(work)
    BY <1>2, <2>1, <2>2, TailFacts
  <2> QED
    BY <2>1, <2>2, <2>3 DEF WorkOK
<1>7. CASE Build
  <2>1. work' = interrupts_db' /\ IsInjective(interrupts_db')
    BY <1>7, BuildFacts
  <2> QED
    BY <2>1 DEF WorkOK
<1>8. CASE EndParse \/ EndDomains
  <2>1. UNCHANGED interrupts_db /\ (work' = <<>> \/ work' = interrupts_db)
    BY <1>8 DEF EndParse, EndDomains, dbVars
  <2> QED
    BY <1>1, <1>3, <2>1 DEF WorkOK, DbOK
<1>9. CASE RemoveNoExisting
  <2>1. /\ work # <<>> /\ work' = Tail(work) /\ pc = "clear"
        /\ interrupts_db' = RemoveFirst(interrupts_db, Head(work))
    BY <1>9 DEF RemoveNoExisting
  <2>2. IsInjective(work) /\ Range(work) \subseteq Range(interrupts_db)
    BY <1>1, <2>1 DEF WorkOK
  <2>3. /\ IsInjective(Tail(work)) /\ Range(Tail(work)) \subseteq Range(work)
        /\ Head(work) \notin Range(Tail(work))
    BY <1>2, <2>1, <2>2, TailFacts
  <2>4. Range(interrupts_db') = Range(interrupts_db) \ {Head(work)}
    BY <1>1, <1>2, <2>1, RemoveFirstFacts DEF DbOK
  <2> QED
    BY <2>1, <2>2, <2>3, <2>4 DEF WorkOK
<1>10. ASSUME NEW h \in Holders, UNCHANGED interrupts_db,
              work' = interrupts[h] \/ work' \in SortedLists(interrupts[h])
       PROVE  WorkOK'
  <2>1. /\ IsInjective(interrupts[h])
        /\ Range(interrupts[h]) \subseteq Range(interrupts_db)
    BY <1>1 DEF ListsAgree, ListsLive
  <2>2. IsInjective(work') /\ Range(work') = Range(interrupts[h])
    BY <1>2, <1>10, <2>1, SortedFacts
  <2> QED
    BY <1>10, <2>1, <2>2 DEF WorkOK
<1>11. CASE OpenObject
  <2>1. /\ Head(objs) \in Holders /\ UNCHANGED interrupts_db
        /\ work' \in SortedLists(interrupts[Head(objs)])
    BY <1>1, <1>2, <1>11, LoopFacts DEF OpenObject, dbVars
  <2> QED
    BY <1>10, <2>1
<1>12. CASE EnterPowersave
  <2>1. /\ lb.powersave \in Holders /\ UNCHANGED interrupts_db
        /\ work' = interrupts[lb.powersave]
    BY <1>1, <1>12 DEF EnterPowersave, TypeOK, dbVars
  <2> QED
    BY <1>10, <2>1
<1>13. CASE SortRebalance
  <2>1. UNCHANGED interrupts_db
        /\ (work' \in SortedLists(interrupts[NULL]) \/ work' = interrupts_db)
    BY <1>13 DEF SortRebalance, rebalance_irq_list, dbVars
  <2>2. CASE work' = interrupts_db
    BY <1>1, <2>1, <2>2 DEF WorkOK, DbOK
  <2> QED
    BY <1>2, <1>10, <2>1, <2>2
<1>14. CASE OpenDomain
  <2>1. /\ Head(objs) \in Holders /\ UNCHANGED interrupts_db
        /\ work' = interrupts[Head(objs)]
    BY <1>1, <1>2, <1>14, LoopFacts DEF OpenDomain, dbVars
  <2> QED
    BY <1>10, <2>1
<1> QED
  BY <1>4, <1>5, <1>6, <1>7, <1>8, <1>9, <1>11, <1>12, <1>13, <1>14
     DEF Next, Cycle, Rebuilding, Parsing, Selecting, Placing, Activating,
         ParserStep, SameWork, NextWork

\* Steps into a loop that knows nothing special about its irqs.
PlainStep ==
    \/ ClearSlots \/ StartScan \/ RequestRescan \/ ParseLine
    \/ LineMismatch \/ HotplugFails \/ NoMemory \/ EndParse
    \/ KeepExisting \/ RemoveNoExisting \/ ClearBanned \/ ParseProcStat
    \/ StatFails \/ Gather \/ PassObject \/ EndCandidates
    \/ EndPowersave \/ EndObjects \/ EndPlace \/ CloseDomain
    \/ EndDomains \/ SkipActivation \/ AlreadyApplied \/ WriteSucceeds
    \/ WriteFailsForNow \/ WriteFailsForGood \/ FallbackSucceeds \/ GiveUp
    \/ EndScan

\* Plain steps do not lead into a loop PhaseOK is about.
LEMMA PlainFacts ==
    PlainStep => pc' \in PCs \ {"force", "candidates", "powersave", "place", "push",
                                "fallback"}
<1> USE DEF loopVars, AfterStat, PCs
<1> DEFINE Plain == PCs \ {"force", "candidates", "powersave", "place", "push",
                           "fallback"}
<1>1. ClearSlots => pc' \in Plain
  BY DEF ClearSlots
<1>2. StartScan => pc' \in Plain
  BY DEF StartScan
<1>3. RequestRescan => pc' \in Plain
  BY DEF RequestRescan
<1>4. ParseLine => pc' \in Plain
  BY DEF ParseLine
<1>5. LineMismatch => pc' \in Plain
  BY DEF LineMismatch
<1>6. HotplugFails => pc' \in Plain
  BY DEF HotplugFails
<1>7. NoMemory => pc' \in Plain
  BY DEF NoMemory
<1>8. EndParse => pc' \in Plain
  BY DEF EndParse
<1>9. KeepExisting => pc' \in Plain
  BY DEF KeepExisting
<1>10. RemoveNoExisting => pc' \in Plain
  BY DEF RemoveNoExisting
<1>11. ClearBanned => pc' \in Plain
  BY DEF ClearBanned
<1>12. ParseProcStat => pc' \in Plain
  BY DEF ParseProcStat
<1>13. StatFails => pc' \in Plain
  BY DEF StatFails
<1>14. Gather => pc' \in Plain
  BY DEF Gather
<1>15. PassObject => pc' \in Plain
  BY DEF PassObject
<1>16. EndCandidates => pc' \in Plain
  BY DEF EndCandidates
<1>17. EndPowersave => pc' \in Plain
  BY DEF EndPowersave
<1>18. EndObjects => pc' \in Plain
  BY DEF EndObjects
<1>19. EndPlace => pc' \in Plain
  BY DEF EndPlace
<1>20. CloseDomain => pc' \in Plain
  BY DEF CloseDomain
<1>21. EndDomains => pc' \in Plain
  BY DEF EndDomains
<1>22. SkipActivation => pc' \in Plain
  BY DEF SkipActivation
<1>23. AlreadyApplied => pc' \in Plain
  BY DEF AlreadyApplied
<1>24. WriteSucceeds => pc' \in Plain
  BY DEF WriteSucceeds
<1>25. WriteFailsForNow => pc' \in Plain
  BY DEF WriteFailsForNow
<1>26. WriteFailsForGood => pc' \in Plain
  BY DEF WriteFailsForGood
<1>27. FallbackSucceeds => pc' \in Plain
  BY DEF FallbackSucceeds
<1>28. GiveUp => pc' \in Plain
  BY DEF GiveUp
<1>29. EndScan => pc' \in Plain
  BY DEF EndScan
<1> QED
  BY <1>1, <1>2, <1>3, <1>4, <1>5, <1>6, <1>7, <1>8, <1>9, <1>10, <1>11, <1>12,
     <1>13, <1>14, <1>15, <1>16, <1>17, <1>18, <1>19, <1>20, <1>21, <1>22,
     <1>23, <1>24, <1>25, <1>26, <1>27, <1>28, <1>29
     DEF PlainStep

\* Every action keeps what a loop knows about the irqs it still has to visit.
LEMMA PhaseNext ==
    ASSUME IInv, Next
    PROVE  PhaseOK'
<1>1. /\ TypeOK /\ LoopOK /\ WorkOK /\ PhaseOK /\ ListInv /\ NoneStays
      /\ ListsAgree /\ ListsLive
  BY DEF IInv, ListInv
<1>2. /\ interrupts \in [Holders -> Seq(Irqs)] /\ work \in Seq(Irqs)
      /\ assigned_obj \in [Irqs -> Holders] /\ moved \in [Irqs -> BOOLEAN]
      /\ NULL \in Holders /\ Objects \subseteq Holders /\ NULL \notin Objects
      /\ Range(interrupts_db) \subseteq Irqs /\ Range(work) \subseteq Irqs
  BY <1>1, ListTypes, NullAssumption DEF TypeOK, Holders
<1>3. ASSUME work # <<>>, pc # "parse"
      PROVE  /\ Range(Tail(work)) \subseteq Range(work)
             /\ Head(work) \notin Range(Tail(work))
             /\ Head(work) \in Range(work) /\ Head(work) \in Range(interrupts_db)
  BY <1>1, <1>2, <1>3, TailFacts DEF WorkOK
<1>4. CASE PlainStep
  BY <1>4, PlainFacts DEF PhaseOK
<1>5. CASE Build
  <2>1. /\ pc' = "force" /\ \A h \in Holders : interrupts'[h] = <<>>
        /\ \A j \in Irqs : assigned_obj'[j] = NULL
    BY <1>5 DEF Build, FreshLists
  <2>2. Range(work') \subseteq Irqs
    BY <1>5, BuildFacts
  <2>3. Range(<<>>) = {}
    BY DEF Range
  <2> QED
    BY <1>2, <2>1, <2>2, <2>3 DEF PhaseOK
<1>6. CASE ForceAll
  <2> DEFINE i == Head(work)
  <2>1. pc = "force" /\ pc' = "force" /\ work # <<>> /\ work' = Tail(work)
        /\ force_rebalance_irq(i)
    BY <1>6 DEF ForceAll
  <2>2. assigned_obj[i] = NULL
    BY <1>1, <1>3, <2>1 DEF PhaseOK
  <2>3. /\ assigned_obj' = assigned_obj
        /\ \/ interrupts' = interrupts
           \/ interrupts' = [interrupts EXCEPT ![NULL] = Append(@, i)]
    BY <2>1, <2>2 DEF force_rebalance_irq
  <2>4. i \in Irqs
    BY <1>1, <2>1, LoopFacts
  <2>5. Range(interrupts'[NULL]) \subseteq Range(interrupts[NULL]) \cup {i}
    <3>1. Range(Append(interrupts[NULL], i)) = Range(interrupts[NULL]) \cup {i}
      BY <1>2, <2>4, AppendFacts
    <3> QED
      BY <1>2, <2>3, <3>1
  <2> HIDE DEF i
  <2>6. i \notin Range(Tail(work)) /\ Range(Tail(work)) \subseteq Range(work)
    BY <1>3, <2>1 DEF i
  <2>7. \A j \in Range(work) : assigned_obj[j] = NULL /\ j \notin
  Range(interrupts[NULL])
    BY <1>1, <2>1 DEF PhaseOK
  <2> QED
    BY <2>1, <2>3, <2>5, <2>6, <2>7 DEF PhaseOK
<1>7. CASE OpenObject
  <2>1. /\ Head(objs) \in Objects /\ pc' = "candidates"
        /\ work' \in SortedLists(interrupts[Head(objs)])
        /\ assigned_obj' = assigned_obj
    BY <1>1, <1>7, LoopFacts DEF OpenObject
  <2>2. Range(work') = Range(interrupts[Head(objs)])
    BY <1>2, <2>1, SortedFacts
  <2>3. \A j \in Range(interrupts[Head(objs)]) : assigned_obj[j] = Head(objs)
    BY <1>1, <1>2, <2>1 DEF ListsAgree
  <2> QED
    BY <1>2, <2>1, <2>2, <2>3 DEF PhaseOK
<1>8. CASE MoveCandidate \/ EmptyPowersave
  <2>1. /\ pc \in {"candidates", "powersave"} /\ pc' = pc /\ work # <<>>
        /\ work' = Tail(work) /\ force_rebalance_irq(Head(work))
        /\ UNCHANGED <<interrupts_db, level, smp_affinity>>
    BY <1>8 DEF MoveCandidate, EmptyPowersave, dbVars
  <2>2. Head(work) \in Range(interrupts_db) /\ assigned_obj[Head(work)] # NULL
    BY <1>1, <1>3, <2>1 DEF PhaseOK
  <2>3. \A j \in Irqs : j # Head(work) => assigned_obj'[j] = assigned_obj[j]
    BY <2>1, <2>2, ForceSafe
  <2>4. \A j \in Range(Tail(work)) : assigned_obj'[j] # NULL
    BY <1>1, <1>2, <1>3, <2>1, <2>3 DEF PhaseOK
  <2> QED
    BY <2>1, <2>4 DEF PhaseOK
<1>9. CASE KeepCandidate
  <2>1. pc = "candidates" /\ pc' = pc /\ work # <<>> /\ work' = Tail(work)
        /\ assigned_obj' = assigned_obj
    BY <1>9 DEF KeepCandidate, irqVars
  <2> QED
    BY <1>1, <1>3, <2>1 DEF PhaseOK
<1>10. CASE EnterPowersave
  <2>1. /\ lb.powersave \in Objects /\ pc' = "powersave"
        /\ work' = interrupts[lb.powersave] /\ assigned_obj' = assigned_obj
    BY <1>1, <1>10 DEF EnterPowersave, Enters, TypeOK, Holders, irqVars
  <2> QED
    BY <1>1, <1>2, <2>1 DEF PhaseOK, ListsAgree
<1>11. CASE SortRebalance
  <2>1. PICK s \in SortedLists(interrupts[NULL]) :
            /\ \/ pc' = "place" /\ work' = s
               \/ pc' = "activate"
            /\ level' = level
    BY <1>11 DEF SortRebalance, rebalance_irq_list
  <2>2. Range(s) = Range(interrupts[NULL])
    BY <1>2, <2>1, SortedFacts
  <2>3. \A j \in Range(interrupts[NULL]) : level[j] # "NONE"
    BY <1>1, <1>2 DEF ListsLive, NoneStays, rebalance_irq_list
  <2> QED
    BY <2>1, <2>2, <2>3 DEF PhaseOK
<1>12. CASE PlaceInNode \/ NotPlaced
  <2>1. pc = "place" /\ pc' = pc /\ work # <<>> /\ work' = Tail(work) /\ level'
  = level
    BY <1>12 DEF PlaceInNode, NotPlaced, irqVars
  <2> QED
    BY <1>1, <1>3, <2>1 DEF PhaseOK
<1>13. CASE OpenDomain
  <2>1. pc' = "push" /\ objs' = objs /\ work' = interrupts[Head(objs)]
        /\ interrupts' = interrupts
    BY <1>13 DEF OpenDomain, irqVars
  <2> QED
    BY <2>1 DEF PhaseOK
<1>14. CASE PushDown
  <2> DEFINE i == Head(work)
             d == Head(objs)
  <2>1. /\ pc = "push" /\ pc' = "push" /\ work # <<>> /\ work' = Tail(work)
        /\ objs' = objs /\ UNCHANGED <<interrupts_db, level>> /\ moved[i]
    BY <1>14 DEF PushDown, dbVars
  <2>2. d \in Objects
    BY <1>1, <2>1, LoopFacts DEF LoopOK
  <2>3. Range(work) \subseteq Range(interrupts[d]) /\ i \in Range(interrupts_db)
    BY <1>1, <1>3, <2>1 DEF PhaseOK
  <2>4. assigned_obj[i] = d /\ level[i] # "NONE"
    BY <1>1, <1>2, <1>3, <2>1, <2>2, <2>3 DEF ListsAgree, NoneStays
  <2>5. \A k \in DOMAIN children[d] : children[d][k] \in Holders
    BY <1>2, <2>2, TreeAssumption
  <2>6. PICK to \in Holders : migrate_irq_obj(d, to, i)
    BY <1>14, <2>5 DEF PushDown
  <2>7. /\ interrupts' = ListsAfter(assigned_obj[i], to, i)
        /\ assigned_obj' = AssignedAfter(assigned_obj[i], to, i)
        /\ moved' = [moved EXCEPT ![i] = MovedAfter(d, i)]
    BY <2>4, <2>6 DEF migrate_irq_obj
  <2>8. MovedAfter(d, i) \in BOOLEAN
    BY <1>2, <2>3 DEF MovedAfter, OnList
  <2>9. \A j \in Irqs : j # i => \A h \in Holders :
            j \in Range(interrupts'[h]) <=> j \in Range(interrupts[h])
    BY <2>1, <2>3, <2>4, <2>7, <2>8, MigrateSafe
  <2> HIDE DEF i, d
  <2>10. i \notin Range(Tail(work)) /\ Range(Tail(work)) \subseteq Range(work)
    BY <1>3, <2>1 DEF i
  <2>11. Range(Tail(work)) \subseteq Range(interrupts'[d])
    BY <1>2, <2>2, <2>3, <2>9, <2>10
  <2> QED
    BY <2>1, <2>11 DEF PhaseOK, d
<1>15. CASE StayHere
  <2>1. pc = "push" /\ pc' = "push" /\ work # <<>> /\ work' = Tail(work)
        /\ objs' = objs /\ interrupts' = interrupts
    BY <1>15 DEF StayHere, irqVars
  <2> QED
    BY <1>1, <1>3, <2>1 DEF PhaseOK
<1>16. CASE NoSpace
  BY <1>16 DEF NoSpace, Writes, ToActivate, PhaseOK, irqVars
<1>17. CASE FallbackFull \/ FallbackRefused
  <2>1. pc = "fallback" /\ UNCHANGED <<pc, work, moved, assigned_obj>>
    BY <1>17 DEF FallbackFull, FallbackRefused, MayTry, loopVars, irqVars
  <2> QED
    BY <1>1, <2>1 DEF PhaseOK
<1> QED
  BY <1>4, <1>5, <1>6, <1>7, <1>8, <1>9, <1>10, <1>11, <1>12, <1>13, <1>14, <1>15,
     <1>16, <1>17
     DEF Next, Cycle, Rebuilding, Parsing, Selecting, Placing, Activating,
     PlainStep

-----------------------------------------------------------------------------
(* The slots                                                               *)

\* SlotsBounded, for any assignment of slots to the objects; `limited' says that
\* clear_slots has run since the tree was built.
SlotsFine(slots, limited) ==
    \A o \in Objects :
        /\ slots[o] >= SLOTS_SATURATED
        /\ o \in Reachable /\ obj_type[o] # "CPU" /\ limited => slots[o] = INT_MAX

\* migrate_irq_obj takes a slot only where there is one, and none from an object
\* without limit.
LEMMA MigrateSlots ==
    ASSUME slots_left \in [Objects -> Int], NEW limited \in BOOLEAN,
           SlotsFine(slots_left, limited),
           NEW from, NEW to, NEW i,
           to \in Objects => slots_left[to] > SLOTS_SATURATED
    PROVE  SlotsFine(SlotsAfter(from, to, i), limited)
<1> SUFFICES ASSUME NEW o \in Objects
             PROVE  /\ SlotsAfter(from, to, i)[o] >= SLOTS_SATURATED
                    /\ slots_left[o] = INT_MAX
                          => SlotsAfter(from, to, i)[o] = INT_MAX
  BY DEF SlotsFine
<1>1. slots_left[o] \in Int /\ slots_left[o] >= 0 /\ (o = to => slots_left[o] > 0)
  BY DEF SlotsFine, SLOTS_SATURATED
<1>2. \/ SlotsAfter(from, to, i)[o] = slots_left[o]
      \/ /\ slots_left[o] # INT_MAX
         /\ SlotsAfter(from, to, i)[o] = slots_left[o] + (IF o = from THEN 1 ELSE 0)
                                                       - (IF o = to THEN 1 ELSE 0)
  BY DEF SlotsAfter
<1> QED
  BY <1>1, <1>2, SMT DEF SLOTS_SATURATED

\* force_rebalance_irq only gives slots back.
LEMMA ForceSlots ==
    ASSUME TypeOK, NEW limited \in BOOLEAN, SlotsFine(slots_left, limited),
           NEW i, force_rebalance_irq(i)
    PROVE  SlotsFine(slots_left', limited)
<1>1. \/ slots_left' = slots_left
      \/ slots_left' = SlotsAfter(assigned_obj[i], NULL, i)
  BY DEF force_rebalance_irq, migrate_irq_obj
<1>2. slots_left \in [Objects -> Int] /\ NULL \notin Objects
  BY NullAssumption DEF TypeOK
<1>3. SlotsFine(SlotsAfter(assigned_obj[i], NULL, i), limited)
  BY <1>2, MigrateSlots
<1> QED
  BY <1>1, <1>3

\* Every action keeps the slots in bounds.
LEMMA SlotsNext ==
    ASSUME IInv, Next
    PROVE  SlotsBounded'
<1> DEFINE limited == pc \notin {"build", "force"}
<1>1. TypeOK /\ LoopOK /\ slots_left \in [Objects -> Int] /\ NULL \notin Objects
  BY NullAssumption DEF IInv, TypeOK
<1>2. SlotsFine(slots_left, limited) /\ limited \in BOOLEAN
  BY DEF IInv, SlotsBounded, SlotsFine
<1>3. ASSUME SlotsFine(slots_left', pc' \notin {"build", "force"})
      PROVE  SlotsBounded'
  BY <1>3 DEF SlotsBounded, SlotsFine
<1>4. ASSUME SlotsFine(slots_left', limited),
             pc' \notin {"build", "force"} => limited
      PROVE  SlotsBounded'
  <2>1. SlotsFine(slots_left', pc' \notin {"build", "force"})
    BY <1>4 DEF SlotsFine
  <2> QED
    BY <2>1, <1>3
<1>5. CASE QuietStep
  <2>1. slots_left' = slots_left
    BY <1>5, QuietFacts DEF Quiet
  <2>2. limited
    BY <1>5, QuietFacts DEF QuietStep, StartScan, RequestRescan, HotplugFails,
       NoMemory, EndParse, KeepExisting, ClearBanned, ParseProcStat, StatFails,
       Gather, PassObject, KeepCandidate, EndCandidates, EnterPowersave,
       EndPowersave, EndObjects, NotPlaced, EndPlace, OpenDomain, StayHere,
       CloseDomain, EndDomains, SkipActivation, WriteFailsForNow,
       FallbackRefused, EndScan, MayTry
  <2> QED
    BY <1>2, <1>4, <2>1, <2>2
<1>6. CASE \/ ParseLine \/ LineMismatch \/ OpenObject \/ SortRebalance
           \/ AlreadyApplied \/ WriteSucceeds \/ WriteFailsForGood
  <2>1. slots_left' = slots_left /\ limited
    BY <1>6 DEF ParseLine, LineMismatch, OpenObject, SortRebalance,
       AlreadyApplied,
       WriteSucceeds, WriteFailsForGood, objVars
  <2> QED
    BY <1>2, <1>4, <2>1
<1>7. CASE Build
  <2>1. pc' = "force" /\ slots_left' = [o \in Objects |-> 0]
    BY <1>7 DEF Build
  <2>2. SlotsFine(slots_left', FALSE)
    BY <2>1, SMT DEF SlotsFine, SLOTS_SATURATED
  <2>3. SlotsFine(slots_left', pc' \notin {"build", "force"})
    BY <2>1, <2>2 DEF SlotsFine
  <2> QED
    BY <1>3, <2>3
<1>8. CASE ForceAll \/ MoveCandidate \/ EmptyPowersave
  <2>1. force_rebalance_irq(Head(work)) /\ pc' = pc
    BY <1>8 DEF ForceAll, MoveCandidate, EmptyPowersave
  <2>2. SlotsFine(slots_left', limited)
    BY <1>1, <1>2, <2>1, ForceSlots
  <2> QED
    BY <1>4, <2>1, <2>2
<1>9. CASE ClearSlots
  <2>1. slots_left' = [o \in Objects |-> IF o \in Reachable THEN INT_MAX
                                         ELSE slots_left[o]]
    BY <1>9 DEF ClearSlots
  <2>2. \A o \in Objects : slots_left[o] >= SLOTS_SATURATED
    BY <1>2 DEF SlotsFine
  <2>3. INT_MAX >= SLOTS_SATURATED
    BY SMT DEF INT_MAX, SLOTS_SATURATED
  <2>4. SlotsFine(slots_left', TRUE)
    BY <2>1, <2>2, <2>3 DEF SlotsFine
  <2> QED
    BY <1>3, <2>4 DEF SlotsFine
<1>10. CASE RemoveNoExisting
  <2>1. PICK S \in SUBSET Objects :
           slots_left' = [p \in Objects |-> IF p \in S THEN INT_MAX ELSE slots_left[p]]
    <3> DEFINE S == { p \in Objects : /\ p = assigned_obj[Head(work)]
                                      /\ OnList(p, Head(work)) }
    <3>1. slots_left' = [p \in Objects |-> IF p \in S THEN INT_MAX ELSE
    slots_left[p]]
      BY <1>10 DEF RemoveNoExisting
    <3> QED
      BY <3>1
  <2>2. INT_MAX >= SLOTS_SATURATED
    BY SMT DEF INT_MAX, SLOTS_SATURATED
  <2>3. SlotsFine(slots_left', limited)
    BY <1>2, <2>1, <2>2 DEF SlotsFine
  <2>4. limited
    BY <1>10 DEF RemoveNoExisting
  <2> QED
    BY <1>4, <2>3, <2>4
<1>11. CASE PlaceInNode
  <2>1. work # <<>> /\ limited /\ Head(work) \in Irqs
    BY <1>1, <1>11, LoopFacts DEF PlaceInNode
  <2>2. \A n \in Range(numa_nodes) : n \in Objects /\ n \in Reachable
                                     /\ obj_type[n] # "CPU"
    BY ListAssumption DEF Range, Reachable
  <2>3. \A n \in Range(numa_nodes) : slots_left[n] > SLOTS_SATURATED
    BY <1>2, <2>1, <2>2, IntMaxFacts DEF SlotsFine
  <2>4. PICK n \in Range(numa_nodes) :
            slots_left' = SlotsAfter(assigned_obj[Head(work)], n, Head(work))
    <3>1. numa_node[Head(work)] \in Range(numa_nodes)
      BY <2>1, PolicyAssumption
    <3>2. \A k \in DOMAIN numa_nodes : numa_nodes[k] \in Range(numa_nodes)
      BY DEF Range
    <3> QED
      BY <1>11, <3>1, <3>2 DEF PlaceInNode, migrate_irq_obj
  <2>5. SlotsFine(slots_left', limited)
    BY <1>1, <1>2, <2>3, <2>4, MigrateSlots
  <2> QED
    BY <1>4, <2>1, <2>5
<1>12. CASE PushDown
  <2>1. limited /\ Head(objs) \in Objects
    BY <1>1, <1>12, LoopFacts DEF PushDown, LoopOK
  <2>2. PICK k \in DOMAIN children[Head(objs)] :
            /\ slots_left[children[Head(objs)][k]] > 0
            /\ slots_left' = SlotsAfter(Head(objs), children[Head(objs)][k], Head(work))
    BY <1>12 DEF PushDown, IsBest, Eligible, migrate_irq_obj
  <2>3. SlotsFine(slots_left', limited)
    BY <1>1, <1>2, <2>2, MigrateSlots DEF SLOTS_SATURATED
  <2> QED
    BY <1>4, <2>1, <2>3
<1>13. ASSUME NEW slots \in [Objects -> Int], SlotsFine(slots, limited), NEW o
       PROVE  SlotsFine(Saturated(slots, o), limited)
  <2>1. \A p \in Objects : \/ Saturated(slots, o)[p] = slots[p]
                           \/ /\ obj_type[p] = "CPU"
                              /\ Saturated(slots, o)[p] = SLOTS_SATURATED
    BY DEF Saturated
  <2>2. SLOTS_SATURATED >= SLOTS_SATURATED
    BY SMT DEF SLOTS_SATURATED
  <2> QED
    BY <1>13, <2>1, <2>2 DEF SlotsFine
<1>14. CASE NoSpace
  <2>1. limited /\ slots_left' = Saturated(slots_left, assigned_obj[Head(work)])
    BY <1>14 DEF NoSpace
  <2>2. SlotsFine(slots_left', limited)
    BY <1>1, <1>2, <1>13, <2>1
  <2> QED
    BY <1>4, <2>1, <2>2
<1>15. CASE FallbackFull
  <2>1. limited
    BY <1>15 DEF FallbackFull, MayTry
  <2>2. PICK c \in Objects :
            /\ obj_type[c] = "CPU"
            /\ slots_left' = [slots_left EXCEPT ![c] = SLOTS_SATURATED]
    BY <1>15 DEF FallbackFull, IsBestFallback, Fallbacks, is_valid_fallback
  <2>3. slots_left' = Saturated(slots_left, c)
    BY <1>1, <2>2 DEF Saturated
  <2>4. SlotsFine(slots_left', limited)
    BY <1>1, <1>2, <1>13, <2>3
  <2> QED
    BY <1>4, <2>1, <2>4
<1>16. CASE FallbackSucceeds
  <2> DEFINE i == Head(work)
             original == assigned_obj[i]
  <2>1. limited
    BY <1>16 DEF FallbackSucceeds, MayTry
  <2>2. PICK c \in Objects :
            /\ slots_left[c] > SLOTS_SATURATED
            /\ slots_left' = Saturated(SlotsAfter(original, c, i), original)
    BY <1>16 DEF FallbackSucceeds, IsBestFallback, Fallbacks, is_valid_fallback
  <2>3. SlotsFine(SlotsAfter(original, c, i), limited)
    BY <1>1, <1>2, <2>2, MigrateSlots
  <2>4. SlotsAfter(original, c, i) \in [Objects -> Int]
    BY <1>1, SMT DEF SlotsAfter
  <2>5. SlotsFine(slots_left', limited)
    BY <1>13, <2>2, <2>3, <2>4
  <2> QED
    BY <1>4, <2>1, <2>5
<1>17. CASE GiveUp
  <2>1. limited
    BY <1>17 DEF GiveUp
  <2>2. \/ slots_left' = slots_left
        \/ slots_left' = SlotsAfter(assigned_obj[Head(work)], NULL, Head(work))
    BY <1>17 DEF GiveUp
  <2>3. SlotsFine(SlotsAfter(assigned_obj[Head(work)], NULL, Head(work)), limited)
    BY <1>1, <1>2, MigrateSlots
  <2>4. SlotsFine(slots_left', limited)
    BY <1>2, <2>2, <2>3
  <2> QED
    BY <1>4, <2>1, <2>4
<1> QED
  BY <1>5, <1>6, <1>7, <1>8, <1>9, <1>10, <1>11, <1>12, <1>14, <1>15, <1>16,
     <1>17
     DEF Next, Cycle, Rebuilding, Parsing, Selecting, Placing, Activating,
     QuietStep

-----------------------------------------------------------------------------
(* The theorems                                                            *)

\* The program starts in a state that satisfies the invariant.
LEMMA InitIInv == Init => IInv
<1> SUFFICES ASSUME Init PROVE IInv
  OBVIOUS
<1>1. NULL \in Holders /\ <<>> \in Seq(Irqs) /\ <<>> \in Seq(Objects)
      /\ Range(<<>>) = {} /\ IsInjective(<<>>)
  <2>1. Range(<<>>) = {}
    BY DEF Range
  <2>2. IsInjective(<<>>)
    BY DEF IsInjective
  <2> QED
    BY <2>1, <2>2 DEF Holders
<1>2. /\ pc = "build" /\ objs = <<>> /\ work = <<>> /\ interrupts_db = <<>>
      /\ lb = NoInfo
      /\ interrupts = [h \in Holders |-> <<>>]
      /\ slots_left = [o \in Objects |-> 0]
      /\ assigned_obj = [i \in Irqs |-> NULL]
      /\ moved = [i \in Irqs |-> FALSE] /\ level = policy_level
  BY DEF Init
<1>3. PlaceTypes
  BY <1>1, PolicyAssumption, IrqAssumption DEF Init, PlaceTypes
<1>4. OtherTypes
  BY <1>1, PolicyAssumption, IrqAssumption
     DEF Init, OtherTypes, PCs, NoInfo, NoFallback
<1>5. TypeOK
  BY <1>3, <1>4, TypesSplit
<1>6. LoopOK
  BY <1>2 DEF LoopOK, NoInfo
<1>7. WorkOK /\ PhaseOK
  BY <1>1, <1>2 DEF WorkOK, PhaseOK
<1>8. ListInv
  BY <1>1, <1>2 DEF ListInv, ListsAgree, ListsLive, Absent, DbOK
<1>9. NoIrqLost /\ NoneStays /\ AffinityApplied
  BY <1>1, <1>2 DEF NoIrqLost, NoneStays, AffinityApplied
<1>10. SlotsBounded
  BY <1>2, SMT DEF SlotsBounded, SLOTS_SATURATED
<1> QED
  BY <1>5, <1>6, <1>7, <1>8, <1>9, <1>10 DEF IInv

\* A stuttering step keeps everything.
LEMMA StutterIInv == IInv /\ UNCHANGED vars => IInv'
<1> SUFFICES ASSUME IInv, UNCHANGED vars PROVE IInv'
  OBVIOUS
<1>1. /\ UNCHANGED <<pc, objs, work, rescanning, lb, fb, interrupts_db, banned_irqs>>
      /\ UNCHANGED <<existing, interrupts, assigned_obj, moved, level, slots_left>>
      /\ UNCHANGED <<powersave_mode, cycle_count, need_rescan, smp_affinity>>
  BY DEF vars, loopVars, dbVars, irqVars, objVars, cycleVars
<1>2. TypeOK' /\ LoopOK' /\ WorkOK' /\ PhaseOK'
  BY <1>1 DEF IInv, TypeOK, LoopOK, WorkOK, PhaseOK
<1>3. ListInv'
  BY <1>1 DEF IInv, ListInv, ListsAgree, ListsLive, Absent, DbOK
<1>4. NoIrqLost' /\ NoneStays' /\ SlotsBounded' /\ AffinityApplied'
  BY <1>1 DEF IInv, NoIrqLost, Pending, NoneStays, rebalance_irq_list,
     SlotsBounded,
     AffinityApplied
<1> QED
  BY <1>2, <1>3, <1>4 DEF IInv

\* IInv is inductive: main() establishes it and every callback of the cycle,
\* whatever the kernel answers, keeps it.
THEOREM Inductive == Spec => []IInv
<1>1. IInv /\ Next => IInv'
  <2> SUFFICES ASSUME IInv, Next PROVE IInv'
    OBVIOUS
  <2>1. TypeOK'
    BY PlaceTypesNext, OtherTypesNext DEF TypeOK, PlaceTypes, OtherTypes
  <2>2. LoopOK' /\ WorkOK' /\ PhaseOK' /\ SlotsBounded'
    BY LoopNext, WorkNext, PhaseNext, SlotsNext
  <2>3. ListInv' /\ NoIrqLost' /\ NoneStays' /\ AffinityApplied'
    BY SafeNext DEF SafeInv
  <2> QED
    BY <2>1, <2>2, <2>3 DEF IInv
<1>2. IInv /\ [Next]_vars => IInv'
  BY <1>1, StutterIInv
<1> QED
  BY <1>2, InitIInv, PTL DEF Spec

\* Type correctness of the whole cycle, from main() to activate_mappings: in
\* particular assigned_obj always points to a live object or nowhere.
THEOREM TypeCorrect == Spec => []TypeOK
<1>1. IInv => TypeOK
  BY DEF IInv
<1> QED
  BY <1>1, Inductive, PTL

\* Moves between lists (migrate_irq_obj, force_rebalance_irq, try_fallback_cpu)
\* keep the lists and the back pointers in step.
THEOREM ListsAlwaysAgree == Spec => []ListsAgree
<1>1. IInv => ListsAgree
  BY DEF IInv, ListInv
<1> QED
  BY <1>1, Inductive, PTL

\* remove_no_existing_irq leaves no pointer to a structure it frees.
THEOREM NoDanglingIrq == Spec => []ListsLive
<1>1. IInv => ListsLive
  BY DEF IInv, ListInv
<1> QED
  BY <1>1, Inductive, PTL

\* No sequence of scans, rescans, hotplugs and refused writes loses an irq.
THEOREM NothingLost == Spec => []NoIrqLost
<1>1. IInv => NoIrqLost
  BY DEF IInv
<1> QED
  BY <1>1, Inductive, PTL

\* An irq opted out of balancing never moves again.
THEOREM NoneAlwaysStays == Spec => []NoneStays
<1>1. IInv => NoneStays
  BY DEF IInv
<1> QED
  BY <1>1, Inductive, PTL

\* slots_left stays in bounds: each decrement of migrate_irq_obj is guarded by a
\* check made earlier, on an object that is still the same.
THEOREM SlotsAlwaysBounded == Spec => []SlotsBounded
<1>1. IInv => SlotsBounded
  BY DEF IInv
<1> QED
  BY <1>1, Inductive, PTL

\* When activate_mapping clears `moved', the kernel has what the daemon wanted.
THEOREM AffinityAlwaysApplied == Spec => []AffinityApplied
<1>1. IInv => AffinityApplied
  BY DEF IInv
<1> QED
  BY <1>1, Inductive, PTL

\* No step of the daemon writes the affinity of a banned irq.
THEOREM BannedIrqsNeverWritten == Spec => BannedIrqsSpared
<1> DEFINE A == \A i \in BannedIrqs : smp_affinity'[i] = smp_affinity[i]
<1>1. ASSUME IInv, Next, NEW i \in BannedIrqs
      PROVE  smp_affinity'[i] = smp_affinity[i]
  <2>1. CASE UNCHANGED smp_affinity
    BY <2>1
  <2>2. CASE WriteSucceeds \/ FallbackSucceeds
    <3>1. /\ work # <<>> /\ pc \in {"activate", "fallback"}
          /\ \E m : smp_affinity' = [smp_affinity EXCEPT ![Head(work)] = m]
      BY <1>1, <2>2 DEF WriteSucceeds, FallbackSucceeds, MayTry, IInv, LoopOK
    <3>2. TypeOK /\ WorkOK /\ DbOK
      BY <1>1 DEF IInv, ListInv
    <3>3. Head(work) \in Range(interrupts_db)
      BY <3>1, <3>2, LoopFacts DEF WorkOK
    <3>4. Head(work) # i
      BY <3>2, <3>3 DEF DbOK
    <3>5. smp_affinity \in [Irqs -> SUBSET CpuIds] /\ i \in Irqs
      BY <3>2, IrqAssumption DEF TypeOK
    <3> QED
      BY <3>1, <3>4, <3>5
  <2>3. Next => UNCHANGED smp_affinity \/ WriteSucceeds \/ FallbackSucceeds
    <3>1. Rebuilding => UNCHANGED smp_affinity
      BY DEF Rebuilding, Build, ForceAll, ClearSlots
    <3>2. Parsing => UNCHANGED smp_affinity
      BY DEF Parsing, StartScan, ParseLine, LineMismatch, HotplugFails, NoMemory,
         EndParse, KeepExisting, RemoveNoExisting, ClearBanned, ParseProcStat,
         StatFails
    <3>3. Selecting => UNCHANGED smp_affinity
      BY DEF Selecting, Gather, PassObject, OpenObject, MoveCandidate,
         KeepCandidate, EndCandidates, EnterPowersave, EmptyPowersave,
         EndPowersave, EndObjects
    <3>4. Placing => UNCHANGED smp_affinity
      BY DEF Placing, SortRebalance, PlaceInNode, NotPlaced, EndPlace, OpenDomain,
         PushDown, StayHere, CloseDomain, EndDomains
    <3>5. Activating => UNCHANGED smp_affinity \/ WriteSucceeds \/
    FallbackSucceeds
      BY DEF Activating, SkipActivation, AlreadyApplied, WriteFailsForNow,
         WriteFailsForGood, NoSpace, FallbackFull, FallbackRefused, GiveUp, EndScan
    <3>6. RequestRescan => UNCHANGED smp_affinity
      BY DEF RequestRescan
    <3> QED
      BY <3>1, <3>2, <3>3, <3>4, <3>5, <3>6 DEF Next, Cycle
  <2> QED
    BY <1>1, <2>1, <2>2, <2>3
<1>2. IInv /\ [Next]_vars => [A]_vars
  BY <1>1
<1> QED
  BY <1>2, Inductive, PTL DEF Spec, BannedIrqsSpared
=============================================================================
