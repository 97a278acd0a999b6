---------------------------- MODULE CycleProofs -----------------------------
(***************************************************************************)
(* What the balancing cycle does to an irq, from BalancerProofs' inductive *)
(* invariant: the cycle implements IrqLife; every moved irq is pushed down *)
(* to the level it is balanced at, stays on the NUMA node of its device,   *)
(* and never reaches a banned cpu or one in powersave mode; and the shares *)
(* of the irqs on an object never exceed its load.                         *)
(***************************************************************************)
EXTENDS BalancerProofs

-----------------------------------------------------------------------------
(* The irqs calculate_placement still has to place have no place.          *)

Unplaced == pc = "place" => \A i \in Range(work) : assigned_obj[i] = NULL

\* Steps that do not lead into the loop over rebalance_irq_list.
ElsewhereStep ==
    \/ PlainStep \/ Build \/ ForceAll \/ OpenObject \/ MoveCandidate \/ EmptyPowersave
    \/ KeepCandidate \/ EnterPowersave \/ OpenDomain \/ PushDown \/ StayHere \/ NoSpace
    \/ FallbackFull \/ FallbackRefused

\* None of them does.
LEMMA ElsewhereFacts == ElsewhereStep => pc' # "place"
<1> USE DEF loopVars, MayTry
<1>1. PlainStep => pc' # "place"
  BY PlainFacts
<1>2. Build \/ ForceAll \/ OpenObject => pc' # "place"
  BY DEF Build, ForceAll, OpenObject
<1>3. MoveCandidate \/ EmptyPowersave \/ KeepCandidate \/ EnterPowersave => pc' # "place"
  BY DEF MoveCandidate, EmptyPowersave, KeepCandidate, EnterPowersave
<1>4. OpenDomain \/ PushDown \/ StayHere => pc' # "place"
  BY DEF OpenDomain, PushDown, StayHere
<1>5. NoSpace \/ FallbackFull \/ FallbackRefused => pc' # "place"
  BY DEF NoSpace, FallbackFull, FallbackRefused
<1> QED
  BY <1>1, <1>2, <1>3, <1>4, <1>5 DEF ElsewhereStep

\* An irq is placed once: place_irq_in_node touches no other irq of the list.
LEMMA UnplacedNext ==
    ASSUME IInv, Unplaced, [Next]_vars
    PROVE  Unplaced'
<1>1. /\ TypeOK /\ LoopOK /\ WorkOK /\ PhaseOK /\ ListInv /\ NoIrqLost
      /\ ListsAgree
  BY DEF IInv, ListInv
<1>2. /\ interrupts \in [Holders -> Seq(Irqs)] /\ work \in Seq(Irqs)
      /\ assigned_obj \in [Irqs -> Holders] /\ NULL \in Holders
      /\ Objects \subseteq Holders
      /\ Range(interrupts_db) \subseteq Irqs /\ Range(work) \subseteq Irqs
  BY <1>1, ListTypes DEF TypeOK, Holders
<1>3. CASE UNCHANGED vars
  BY <1>3 DEF Unplaced, vars, loopVars, irqVars
<1>4. CASE ElsewhereStep
  BY <1>4, ElsewhereFacts DEF Unplaced
<1>5. CASE SortRebalance
  <2>1. PICK s \in SortedLists(interrupts[NULL]) :
            pc' = "place" => work' = s
    BY <1>5 DEF SortRebalance, rebalance_irq_list
  <2>2. Range(s) = Range(interrupts[NULL])
    BY <1>2, SortedFacts
  <2>3. assigned_obj' = assigned_obj
    BY <1>5 DEF SortRebalance
  <2> QED
    BY <1>1, <1>2, <2>1, <2>2, <2>3 DEF Unplaced, ListsAgree
<1>6. CASE PlaceInNode \/ NotPlaced
  <2>1. /\ pc = "place" /\ pc' = pc /\ work # <<>> /\ work' = Tail(work)
        /\ UNCHANGED <<interrupts_db, level>>
    BY <1>6 DEF PlaceInNode, NotPlaced, dbVars, irqVars
  <2>2. /\ Head(work) \in Range(interrupts_db) /\ Head(work) \in Irqs
        /\ Range(Tail(work)) \subseteq Range(work)
        /\ Head(work) \notin Range(Tail(work))
    BY <1>1, <1>2, <2>1, TailFacts DEF WorkOK
  <2>3. \A j \in Irqs : j # Head(work) => assigned_obj'[j] = assigned_obj[j]
    BY <1>2, <1>6 DEF PlaceInNode, NotPlaced, migrate_irq_obj, AssignedAfter, irqVars
  <2> QED
    BY <1>2, <2>1, <2>2, <2>3 DEF Unplaced
<1> QED
  BY <1>3, <1>4, <1>5, <1>6
     DEF Next, Cycle, Rebuilding, Parsing, Selecting, Placing, Activating,
         ElsewhereStep, PlainStep

-----------------------------------------------------------------------------
(* Steps that concern one irq                                              *)

\* The irqs the cycle has taken charge of.
InCharge == Range(interrupts_db) \ Pending

\* A step that changes nothing about the other irqs is about irq i.
LEMMA OneIrq ==
    ASSUME NEW i \in Irqs,
           \A j \in Irqs : j # i =>
               /\ j \in InCharge' <=> j \in InCharge
               /\ level'[j] = level[j] /\ assigned_obj'[j] = assigned_obj[j]
               /\ moved'[j] = moved[j]
    PROVE  \A s, p : LifeStatus'[i] = s /\ LifePlace'[i] = p => Life!Becomes(i, s, p)
<1>1. LifeStatus' = [LifeStatus EXCEPT ![i] = LifeStatus'[i]]
  BY DEF LifeStatus, InCharge
<1>2. \A j \in Irqs : j # i => LifeStatus'[j] = LifeStatus[j]
  BY <1>1 DEF LifeStatus
<1>3. LifePlace' = [LifePlace EXCEPT ![i] = LifePlace'[i]]
  BY <1>2 DEF LifePlace
<1> QED
  BY <1>1, <1>3 DEF Life!Becomes

\* A step that changes nothing about any irq is not seen.
LEMMA NoIrq ==
    ASSUME InCharge' = InCharge, UNCHANGED <<level, assigned_obj, moved, smp_affinity>>
    PROVE  UNCHANGED Life!vars
<1>1. LifeStatus' = LifeStatus
  BY DEF LifeStatus, InCharge
<1>2. LifePlace' = LifePlace
  BY <1>1 DEF LifePlace
<1> QED
  BY <1>1, <1>2 DEF Life!vars

\* Outside the loop that fills rebalance_irq_list the cycle is in charge of all irqs of
\* the database.
LEMMA ChargeFacts ==
    ASSUME pc # "force"
    PROVE  InCharge = Range(interrupts_db)
  BY DEF InCharge, Pending

\* What IrqLife knows of an irq the cycle is in charge of.
LEMMA StatusFacts ==
    ASSUME NEW i \in Irqs
    PROVE  /\ i \notin InCharge => LifeStatus[i] = "unknown" /\ LifePlace[i] = NULL
           /\ i \in InCharge =>
                 /\ level[i] = "NONE" => LifeStatus[i] = "left" /\ LifePlace[i] = NULL
                 /\ level[i] # "NONE" =>
                       /\ LifePlace[i] = assigned_obj[i]
                       /\ assigned_obj[i] = NULL => LifeStatus[i] = "waiting"
                       /\ assigned_obj[i] # NULL /\ moved[i] => LifeStatus[i] = "chosen"
                       /\ assigned_obj[i] # NULL /\ ~moved[i] => LifeStatus[i] = "settled"
<1>1. LifeStatus[i] =
        IF i \notin InCharge THEN "unknown"
        ELSE IF level[i] = "NONE" THEN "left"
        ELSE IF assigned_obj[i] = NULL THEN "waiting"
        ELSE IF moved[i] THEN "chosen"
        ELSE "settled"
  BY DEF LifeStatus, InCharge
<1>2. LifePlace[i] = IF LifeStatus[i] \in {"chosen", "settled"} THEN assigned_obj[i]
                     ELSE NULL
  BY DEF LifePlace
<1> QED
  BY <1>1, <1>2

-----------------------------------------------------------------------------
(* The actions, by what they do to an irq                                  *)

\* An irq is found, by rebuild_irq_db or in /proc/interrupts: Discover.
LEMMA DiscoverSteps ==
    ASSUME IInv, \/ ForceAll \/ ParseLine \/ LineMismatch
    PROVE  Life!Next \/ UNCHANGED Life!vars
<1>1. /\ TypeOK /\ LoopOK /\ WorkOK /\ PhaseOK /\ ListInv /\ Absent /\ DbOK
  BY DEF IInv, ListInv
<1>2. /\ work \in Seq(Irqs) /\ interrupts_db \in Seq(Irqs)
      /\ level \in [Irqs -> Levels]
      /\ Range(interrupts_db) \subseteq Irqs /\ Range(work) \subseteq Irqs
  BY <1>1, ListTypes DEF TypeOK, Holders
<1> DEFINE i == Head(work)
<1>3. work # <<>> /\ i \in Irqs /\ i \in Range(work)
  BY <1>1, LoopFacts DEF ForceAll, ParseLine, LineMismatch
<1>4. ASSUME i \notin InCharge, i \in InCharge', assigned_obj[i] = NULL,
             UNCHANGED <<level, assigned_obj, moved, smp_affinity>>,
             \A j \in Irqs : j # i => (j \in InCharge' <=> j \in InCharge)
      PROVE  Life!Next
  <2>1. LifeStatus[i] = "unknown"
    BY <1>3, <1>4, StatusFacts
  <2>2. LifeStatus'[i] \in {"waiting", "left"} /\ LifePlace'[i] = NULL
    BY <1>3, <1>4 DEF LifeStatus, LifePlace, InCharge
  <2>3. Life!Becomes(i, LifeStatus'[i], NULL)
    BY <1>3, <1>4, <2>2, OneIrq
  <2>4. Life!Discover(i)
    BY <1>4, <2>1, <2>2, <2>3 DEF Life!Discover
  <2> QED
    BY <1>3, <2>4 DEF Life!Next
<1>5. CASE ForceAll
  <2>1. /\ pc = "force" /\ pc' = "force" /\ work' = Tail(work)
        /\ assigned_obj[i] = NULL
        /\ UNCHANGED <<interrupts_db, level, smp_affinity>>
    BY <1>1, <1>3, <1>5 DEF ForceAll, PhaseOK, dbVars
  <2>2. UNCHANGED <<assigned_obj, moved>>
    BY <1>5, <2>1 DEF ForceAll, force_rebalance_irq
  <2>3. /\ Range(work) = Range(Tail(work)) \cup {i} /\ i \notin Range(Tail(work))
        /\ i \in Range(interrupts_db)
    BY <1>1, <1>2, <1>3, <2>1, TailFacts DEF WorkOK
  <2>4. InCharge = Range(interrupts_db) \ Range(work)
        /\ InCharge' = Range(interrupts_db) \ Range(Tail(work))
    BY <2>1 DEF InCharge, Pending
  <2> QED
    BY <1>4, <2>1, <2>2, <2>3, <2>4
<1>6. CASE ParseLine \/ LineMismatch
  <2>1. /\ pc = "parse" /\ pc' = "parse" /\ FindOrAdd(i)
        /\ UNCHANGED <<level, assigned_obj, moved, smp_affinity>>
    BY <1>6 DEF ParseLine, LineMismatch
  <2>2. InCharge = Range(interrupts_db) /\ InCharge' = Range(interrupts_db')
    BY <2>1 DEF InCharge, Pending
  <2>3. CASE interrupts_db' = interrupts_db
    BY <2>1, <2>2, <2>3, NoIrq
  <2>4. CASE interrupts_db' = Append(interrupts_db, i) /\ i \notin Range(interrupts_db)
    <3>1. Range(interrupts_db') = Range(interrupts_db) \cup {i}
      BY <1>2, <1>3, <2>4, AppendFacts
    <3>2. assigned_obj[i] = NULL
      BY <1>1, <1>3, <2>4 DEF Absent
    <3> QED
      BY <1>4, <2>1, <2>2, <2>4, <3>1, <3>2
  <2> QED
    BY <2>1, <2>3, <2>4 DEF FindOrAdd, proc_irq_hotplug, Known
<1> QED
  BY <1>5, <1>6

\* remove_no_existing_irq: Vanish.
LEMMA VanishStep ==
    ASSUME IInv, RemoveNoExisting
    PROVE  Life!Next
<1>1. TypeOK /\ WorkOK /\ ListInv /\ DbOK
  BY DEF IInv, ListInv
<1> DEFINE i == Head(work)
<1>2. /\ work \in Seq(Irqs) /\ interrupts_db \in Seq(Irqs)
      /\ assigned_obj \in [Irqs -> Holders] /\ moved \in [Irqs -> BOOLEAN]
      /\ level \in [Irqs -> Levels]
  BY <1>1 DEF TypeOK
<1>3. /\ work # <<>> /\ pc = "clear" /\ pc' = "clear"
      /\ interrupts_db' = RemoveFirst(interrupts_db, i)
      /\ assigned_obj' = [assigned_obj EXCEPT ![i] = NULL]
      /\ moved' = [moved EXCEPT ![i] = FALSE]
      /\ level' = [level EXCEPT ![i] = policy_level[i]]
      /\ smp_affinity' = smp_affinity
  BY DEF RemoveNoExisting
<1>4. i \in Irqs /\ i \in Range(interrupts_db)
  BY <1>1, <1>3, LoopFacts DEF WorkOK
<1> HIDE DEF i
<1>5. Range(interrupts_db') = Range(interrupts_db) \ {i}
  BY <1>1, <1>2, <1>3, RemoveFirstFacts DEF DbOK
<1>6. InCharge = Range(interrupts_db) /\ InCharge' = Range(interrupts_db')
  BY <1>3 DEF InCharge, Pending
<1>7. LifeStatus[i] # "unknown"
  BY <1>4, <1>6, StatusFacts
<1>8. LifeStatus'[i] = "unknown" /\ LifePlace'[i] = NULL
  BY <1>4, <1>5, <1>6 DEF LifeStatus, LifePlace, InCharge
<1>9. Life!Becomes(i, "unknown", NULL)
  BY <1>2, <1>3, <1>4, <1>5, <1>6, <1>8, OneIrq
<1>10. Life!Vanish(i)
  BY <1>3, <1>7, <1>9 DEF Life!Vanish
<1> QED
  BY <1>4, <1>10 DEF Life!Next

\* migrate_irq_obj, as MigrateSafe describes it, is a step of one irq.
LEMMA MigrateIrq ==
    ASSUME IInv, pc # "force", pc' # "force",
           NEW i \in Range(interrupts_db), level[i] # "NONE", NEW to \in Holders,
           interrupts' = ListsAfter(assigned_obj[i], to, i),
           assigned_obj' = AssignedAfter(assigned_obj[i], to, i),
           NEW m \in BOOLEAN, moved' = [moved EXCEPT ![i] = m],
           UNCHANGED <<interrupts_db, level>>
    PROVE  /\ assigned_obj'[i] = to
           /\ to = NULL => Life!Becomes(i, "waiting", NULL)
           /\ to # NULL /\ m => Life!Becomes(i, "chosen", to)
           /\ to # NULL /\ ~m => Life!Becomes(i, "settled", to)
<1>1. TypeOK
  BY DEF IInv
<1>2. i \in Irqs /\ moved \in [Irqs -> BOOLEAN]
  BY <1>1, ListTypes DEF TypeOK, Holders
<1>3. InCharge = Range(interrupts_db) /\ InCharge' = InCharge
  BY DEF InCharge, Pending
<1>4. /\ assigned_obj'[i] = to /\ moved'[i] = m
      /\ \A j \in Irqs : j # i =>
            assigned_obj'[j] = assigned_obj[j] /\ moved'[j] = moved[j]
  BY <1>2, MigrateSafe
<1>5. \A s, p : LifeStatus'[i] = s /\ LifePlace'[i] = p => Life!Becomes(i, s, p)
  BY <1>2, <1>3, <1>4, OneIrq
<1>6. /\ to = NULL => LifeStatus'[i] = "waiting" /\ LifePlace'[i] = NULL
      /\ to # NULL /\ m => LifeStatus'[i] = "chosen" /\ LifePlace'[i] = to
      /\ to # NULL /\ ~m => LifeStatus'[i] = "settled" /\ LifePlace'[i] = to
  BY <1>2, <1>3, <1>4 DEF LifeStatus, LifePlace, InCharge
<1> QED
  BY <1>4, <1>5, <1>6

\* force_rebalance_irq on an irq that has a place, for its load, for a cpu in
\* powersave mode or for want of a vector: Withdraw.
LEMMA WithdrawSteps ==
    ASSUME IInv, MoveCandidate \/ EmptyPowersave \/ GiveUp
    PROVE  Life!Next \/ UNCHANGED Life!vars
<1>1. TypeOK /\ LoopOK /\ WorkOK /\ PhaseOK /\ NoneStays
  BY DEF IInv
<1> DEFINE i == Head(work)
           o == assigned_obj[Head(work)]
<1>2. /\ moved \in [Irqs -> BOOLEAN] /\ assigned_obj \in [Irqs -> Holders]
      /\ NULL \in Holders
  BY <1>1 DEF TypeOK, Holders
<1>3. /\ work # <<>> /\ pc \in {"candidates", "powersave", "fallback"}
      /\ pc' \in {"candidates", "powersave", "activate"}
      /\ UNCHANGED <<interrupts_db, level, smp_affinity>>
  BY <1>1 DEF MoveCandidate, EmptyPowersave, GiveUp, LoopOK, dbVars
<1>4. i \in Irqs /\ i \in Range(work) /\ i \in Range(interrupts_db) /\ o # NULL
  BY <1>1, <1>3, LoopFacts DEF WorkOK, PhaseOK
<1>5. InCharge = Range(interrupts_db) /\ InCharge' = InCharge
  BY <1>3 DEF InCharge, Pending
<1>6. CASE level[i] = "NONE"
  <2>1. pc # "fallback"
    BY <1>1, <1>4, <1>6 DEF PhaseOK, NoneStays
  <2>2. UNCHANGED <<assigned_obj, moved>>
    BY <1>6, <2>1 DEF MoveCandidate, EmptyPowersave, GiveUp, force_rebalance_irq
  <2> QED
    BY <1>3, <1>5, <2>2, NoIrq
<1>7. CASE level[i] # "NONE"
  <2>1. PICK m \in BOOLEAN :
            /\ interrupts' = ListsAfter(o, NULL, i)
            /\ assigned_obj' = AssignedAfter(o, NULL, i)
            /\ moved' = [moved EXCEPT ![i] = m]
    <3>1. MovedAfter(o, i) \in BOOLEAN
      BY <1>2, <1>4 DEF MovedAfter, OnList
    <3>2. CASE GiveUp
      BY <1>7, <3>2 DEF GiveUp
    <3>3. CASE MoveCandidate \/ EmptyPowersave
      BY <1>4, <1>7, <3>1, <3>3
         DEF MoveCandidate, EmptyPowersave, force_rebalance_irq, migrate_irq_obj
    <3> QED
      BY <3>2, <3>3
  <2>2. Life!Becomes(i, "waiting", NULL)
    BY <1>2, <1>3, <1>4, <1>7, <2>1, MigrateIrq
  <2>3. LifeStatus[i] \in {"chosen", "settled"}
    BY <1>4, <1>5, <1>7, StatusFacts
  <2>4. Life!Withdraw(i)
    BY <1>3, <2>2, <2>3 DEF Life!Withdraw
  <2> QED
    BY <1>4, <2>4 DEF Life!Next
<1> QED
  BY <1>6, <1>7

\* place_irq_in_node: Choose.
LEMMA ChooseStep ==
    ASSUME IInv, Unplaced, PlaceInNode
    PROVE  Life!Next
<1>1. TypeOK /\ WorkOK /\ PhaseOK /\ NoIrqLost
  BY DEF IInv
<1> DEFINE i == Head(work)
<1>2. /\ moved \in [Irqs -> BOOLEAN] /\ Objects \subseteq Holders
      /\ NULL \notin Objects
  BY <1>1, NullAssumption DEF TypeOK, Holders
<1>3. /\ work # <<>> /\ pc = "place" /\ pc' = "place"
      /\ UNCHANGED <<interrupts_db, level, smp_affinity>>
  BY DEF PlaceInNode, dbVars
<1>4. /\ i \in Irqs /\ i \in Range(interrupts_db) /\ i \in Range(work)
      /\ level[i] # "NONE" /\ assigned_obj[i] = NULL
  BY <1>1, <1>3, LoopFacts DEF WorkOK, PhaseOK, Unplaced
<1>5. PICK n \in Objects : migrate_irq_obj(assigned_obj[i], n, i)
  <2>1. numa_node[i] \in Range(numa_nodes)
    BY <1>4, PolicyAssumption
  <2>2. Range(numa_nodes) \subseteq Objects
        /\ \A k \in DOMAIN numa_nodes : numa_nodes[k] \in Range(numa_nodes)
    BY ListAssumption DEF Range
  <2> QED
    BY <2>1, <2>2 DEF PlaceInNode
<1>6. MovedAfter(assigned_obj[i], i) = TRUE
  BY <1>1, <1>3, <1>4 DEF NoIrqLost, Pending, MovedAfter, OnList
<1>7. /\ interrupts' = ListsAfter(assigned_obj[i], n, i)
      /\ assigned_obj' = AssignedAfter(assigned_obj[i], n, i)
      /\ moved' = [moved EXCEPT ![i] = TRUE]
  BY <1>5, <1>6 DEF migrate_irq_obj
<1>8. Life!Becomes(i, "chosen", n)
  BY <1>2, <1>3, <1>4, <1>7, MigrateIrq
<1>9. LifeStatus[i] = "waiting"
  BY <1>3, <1>4, ChargeFacts, StatusFacts
<1>10. Life!Choose(i)
  BY <1>3, <1>8, <1>9 DEF Life!Choose
<1> QED
  BY <1>4, <1>10 DEF Life!Next

\* find_best_object_for_irq: Narrow.
LEMMA NarrowStep ==
    ASSUME IInv, MasksNest, PushDown
    PROVE  Life!Next
<1>1. TypeOK /\ LoopOK /\ WorkOK /\ PhaseOK /\ NoneStays /\ ListInv /\ ListsAgree
  BY DEF IInv, ListInv
<1> DEFINE i == Head(work)
           d == Head(objs)
<1>2. /\ moved \in [Irqs -> BOOLEAN] /\ Objects \subseteq Holders
      /\ NULL \notin Objects
  BY <1>1, NullAssumption DEF TypeOK, Holders
<1>3. /\ work # <<>> /\ pc = "push" /\ pc' = "push" /\ moved[i]
      /\ UNCHANGED <<interrupts_db, level, smp_affinity>>
  BY DEF PushDown, dbVars
<1>4. /\ i \in Irqs /\ i \in Range(interrupts_db) /\ i \in Range(work)
      /\ d \in Objects /\ level[i] # "NONE" /\ assigned_obj[i] = d
  BY <1>1, <1>2, <1>3, LoopFacts DEF LoopOK, WorkOK, PhaseOK, NoneStays, ListsAgree
<1>5. PICK k \in DOMAIN children[d] : migrate_irq_obj(d, children[d][k], i)
  BY DEF PushDown
<1> DEFINE c == children[d][k]
<1>6. c \in Objects /\ c \in Range(children[d])
  BY <1>4, TreeAssumption DEF Range
<1>7. MovedAfter(d, i) = TRUE
  BY <1>3 DEF MovedAfter
<1>8. /\ interrupts' = ListsAfter(assigned_obj[i], c, i)
      /\ assigned_obj' = AssignedAfter(assigned_obj[i], c, i)
      /\ moved' = [moved EXCEPT ![i] = TRUE]
  BY <1>4, <1>5, <1>7 DEF migrate_irq_obj
<1> HIDE DEF i, d, c
<1>9. Life!Becomes(i, "chosen", c)
  BY <1>2, <1>3, <1>4, <1>6, <1>8, MigrateIrq
<1>10. LifeStatus[i] = "chosen" /\ LifePlace[i] = d
  BY <1>2, <1>3, <1>4, ChargeFacts, StatusFacts
<1>11. AppliedMask(c) \subseteq AppliedMask(d)
  BY <1>4, <1>6 DEF MasksNest, AppliedMask
<1>12. Life!Narrow(i)
  BY <1>3, <1>4, <1>6, <1>9, <1>10, <1>11 DEF Life!Narrow
<1> QED
  BY <1>4, <1>12 DEF Life!Next

\* activate_mapping and try_fallback_cpu, when the kernel has what it should: Apply.
LEMMA ApplySteps ==
    ASSUME IInv, AlreadyApplied \/ WriteSucceeds \/ FallbackSucceeds
    PROVE  Life!Next
<1>1. TypeOK /\ LoopOK /\ WorkOK /\ PhaseOK /\ NoneStays
  BY DEF IInv
<1> DEFINE i == Head(work)
           o == assigned_obj[Head(work)]
<1>2. /\ moved \in [Irqs -> BOOLEAN] /\ assigned_obj \in [Irqs -> Holders]
      /\ smp_affinity \in [Irqs -> SUBSET CpuIds]
      /\ Objects \subseteq Holders /\ NULL \notin Objects /\ Holders \ {NULL} = Objects
  BY <1>1, NullAssumption DEF TypeOK, Holders
<1>3. /\ work # <<>> /\ pc \in {"activate", "fallback"} /\ pc' = "activate"
      /\ UNCHANGED <<interrupts_db, level>>
  BY <1>1 DEF AlreadyApplied, WriteSucceeds, FallbackSucceeds, MayTry, LoopOK, dbVars
<1>4. i \in Irqs /\ i \in Range(interrupts_db) /\ moved[i] /\ o \in Objects
  BY <1>1, <1>2, <1>3, LoopFacts
     DEF WorkOK, PhaseOK, AlreadyApplied, WriteSucceeds, Writes, ToActivate,
         FallbackSucceeds, MayTry
<1>5. level[i] # "NONE"
  BY <1>1, <1>4 DEF NoneStays
<1>6. LifeStatus[i] = "chosen"
  BY <1>2, <1>3, <1>4, <1>5, ChargeFacts, StatusFacts
<1>7. ASSUME NEW p \in Objects, Life!Becomes(i, "settled", p),
             \/ smp_affinity' = [smp_affinity EXCEPT ![i] = AppliedMask(p)]
             \/ i \in Unreadable /\ UNCHANGED smp_affinity
      PROVE  Life!Next
  <2>1. Life!Apply(i)
    BY <1>6, <1>7 DEF Life!Apply
  <2> QED
    BY <1>4, <2>1 DEF Life!Next
<1>8. CASE AlreadyApplied \/ WriteSucceeds
  <2>1. /\ moved' = [moved EXCEPT ![i] = FALSE] /\ assigned_obj' = assigned_obj
        /\ \/ smp_affinity' = [smp_affinity EXCEPT ![i] = AppliedMask(o)]
           \/ i \in Unreadable /\ UNCHANGED smp_affinity
    BY <1>2, <1>4, <1>8 DEF AlreadyApplied, AffinityStands, WriteSucceeds
  <2>2. InCharge = Range(interrupts_db) /\ InCharge' = InCharge
    BY <1>3 DEF InCharge, Pending
  <2>3. /\ ~moved'[i] /\ \A j \in Irqs : j # i => moved'[j] = moved[j]
    BY <1>2, <1>4, <2>1
  <2>4. LifeStatus'[i] = "settled" /\ LifePlace'[i] = o
    BY <1>2, <1>3, <1>4, <1>5, <2>1, <2>2, <2>3 DEF LifeStatus, LifePlace, InCharge
  <2>5. Life!Becomes(i, "settled", o)
    BY <1>3, <1>4, <2>1, <2>2, <2>3, <2>4, OneIrq
  <2> QED
    BY <1>4, <1>7, <2>1, <2>5
<1>9. CASE FallbackSucceeds
  <2>1. PICK c \in Objects :
            /\ smp_affinity' = [smp_affinity EXCEPT ![i] = AppliedMask(c)]
            /\ interrupts' = ListsAfter(o, c, i)
            /\ assigned_obj' = AssignedAfter(o, c, i)
            /\ moved' = [moved EXCEPT ![i] = FALSE]
    BY <1>9 DEF FallbackSucceeds
  <2>2. Life!Becomes(i, "settled", c)
    BY <1>2, <1>3, <1>4, <1>5, <2>1, MigrateIrq
  <2> QED
    BY <1>7, <2>1, <2>2
<1> QED
  BY <1>8, <1>9

\* A write that fails for good: Refuse.
LEMMA RefuseStep ==
    ASSUME IInv, WriteFailsForGood
    PROVE  Life!Next
<1>1. TypeOK /\ WorkOK /\ NoneStays
  BY DEF IInv
<1> DEFINE i == Head(work)
<1>2. moved \in [Irqs -> BOOLEAN] /\ level \in [Irqs -> Levels]
  BY <1>1 DEF TypeOK
<1>3. /\ work # <<>> /\ pc = "activate" /\ pc' = "activate"
      /\ moved[i] /\ assigned_obj[i] # NULL
      /\ level' = [level EXCEPT ![i] = "NONE"]
      /\ moved' = [moved EXCEPT ![i] = FALSE]
      /\ UNCHANGED <<interrupts_db, assigned_obj, smp_affinity>>
  BY DEF WriteFailsForGood, Writes, ToActivate, dbVars
<1>4. i \in Irqs /\ i \in Range(interrupts_db)
  BY <1>1, <1>3, LoopFacts DEF WorkOK
<1> HIDE DEF i
<1>5. level[i] # "NONE"
  BY <1>1, <1>3, <1>4 DEF NoneStays
<1>6. LifeStatus[i] = "chosen"
  BY <1>3, <1>4, <1>5, ChargeFacts, StatusFacts
<1>7. InCharge = Range(interrupts_db) /\ InCharge' = InCharge
  BY <1>3 DEF InCharge, Pending
<1>8. /\ level'[i] = "NONE"
      /\ \A j \in Irqs : j # i => moved'[j] = moved[j] /\ level'[j] = level[j]
  BY <1>2, <1>3, <1>4
<1>9. LifeStatus'[i] = "left" /\ LifePlace'[i] = NULL
  BY <1>4, <1>7, <1>8 DEF LifeStatus, LifePlace, InCharge
<1>10. Life!Becomes(i, "left", NULL)
  BY <1>3, <1>4, <1>7, <1>8, <1>9, OneIrq
<1>11. Life!Refuse(i)
  BY <1>3, <1>6, <1>10 DEF Life!Refuse
<1> QED
  BY <1>4, <1>11 DEF Life!Next

\* free_object_tree and build_object_tree: Rebuild.
LEMMA RebuildStep ==
    ASSUME IInv, Build
    PROVE  Life!Next
<1>1. /\ pc' = "force" /\ work' = interrupts_db' /\ smp_affinity' = smp_affinity
  BY DEF Build
<1>2. \A i \in Irqs : i \notin InCharge'
  BY <1>1 DEF InCharge, Pending
<1>3. LifeStatus' = [i \in Irqs |-> "unknown"]
  BY <1>2 DEF LifeStatus, InCharge
<1>4. LifePlace' = [i \in Irqs |-> NULL]
  BY <1>3 DEF LifePlace
<1> QED
  BY <1>1, <1>3, <1>4 DEF Life!Next, Life!Rebuild

\* The other steps sort, count or write nothing an irq would notice.
HiddenStep ==
    QuietStep \/ ClearSlots \/ OpenObject \/ SortRebalance \/ NoSpace \/ FallbackFull

\* IrqLife does not see them.
LEMMA HiddenSteps ==
    ASSUME HiddenStep
    PROVE  UNCHANGED Life!vars
<1>1. /\ UNCHANGED <<interrupts_db, level, assigned_obj, moved, smp_affinity>>
      /\ Pending = {} /\ Pending' = {}
  <2>1. CASE QuietStep
    BY <2>1, QuietFacts DEF Quiet, Pending
  <2>2. CASE ClearSlots
    <3>1. Range(<<>>) = {}
      BY DEF Range
    <3> QED
      BY <2>2, <3>1 DEF ClearSlots, Pending, dbVars, irqVars
  <2>3. CASE OpenObject \/ SortRebalance
    BY <2>3 DEF OpenObject, SortRebalance, Pending, dbVars
  <2>4. CASE NoSpace \/ FallbackFull
    BY <2>4 DEF NoSpace, FallbackFull, MayTry, Pending, dbVars, irqVars, loopVars
  <2> QED
    BY <2>1, <2>2, <2>3, <2>4 DEF HiddenStep
<1> QED
  BY <1>1, NoIrq DEF InCharge

-----------------------------------------------------------------------------
(* The theorem                                                             *)

\* On a tree whose masks nest, whatever the loads are and whatever the kernel answers,
\* the cycle does to an irq only what IrqLife allows: calculate_placement only narrows a
\* choice, activate_mappings settles an irq only once the kernel has its affinity, and
\* an irq that was left alone stays so until the next rescan.
THEOREM CycleImplementsLife == MasksNest => (Spec => LifeRefined)
<1>1. Init => Life!Init
  <2> SUFFICES ASSUME Init PROVE Life!Init
    OBVIOUS
  <2>1. \A i \in Irqs : i \notin InCharge
    BY DEF Init, InCharge, Range
  <2>2. LifeStatus = [i \in Irqs |-> "unknown"]
    BY <2>1 DEF LifeStatus, InCharge
  <2>3. LifePlace = [i \in Irqs |-> NULL]
    BY <2>2 DEF LifePlace
  <2> QED
    BY <2>2, <2>3 DEF Life!Init
<1>2. ASSUME MasksNest, IInv, Unplaced, Next
      PROVE  Life!Next \/ UNCHANGED Life!vars
  <2>1. CASE ForceAll \/ ParseLine \/ LineMismatch
    BY <1>2, <2>1, DiscoverSteps
  <2>2. CASE RemoveNoExisting
    BY <1>2, <2>2, VanishStep
  <2>3. CASE MoveCandidate \/ EmptyPowersave \/ GiveUp
    BY <1>2, <2>3, WithdrawSteps
  <2>4. CASE PlaceInNode
    BY <1>2, <2>4, ChooseStep
  <2>5. CASE PushDown
    BY <1>2, <2>5, NarrowStep
  <2>6. CASE AlreadyApplied \/ WriteSucceeds \/ FallbackSucceeds
    BY <1>2, <2>6, ApplySteps
  <2>7. CASE WriteFailsForGood
    BY <1>2, <2>7, RefuseStep
  <2>8. CASE Build
    BY <1>2, <2>8, RebuildStep
  <2>9. CASE HiddenStep
    BY <2>9, HiddenSteps
  <2> QED
    BY <1>2, <2>1, <2>2, <2>3, <2>4, <2>5, <2>6, <2>7, <2>8, <2>9
       DEF Next, Cycle, Rebuilding, Parsing, Selecting, Placing, Activating,
           HiddenStep, QuietStep
<1>3. UNCHANGED vars => UNCHANGED Life!vars
  <2> SUFFICES ASSUME UNCHANGED vars PROVE UNCHANGED Life!vars
    OBVIOUS
  <2>1. /\ UNCHANGED <<pc, work, interrupts_db, level, assigned_obj, moved>>
        /\ smp_affinity' = smp_affinity
    BY DEF vars, loopVars, dbVars, irqVars
  <2>2. InCharge' = InCharge
    BY <2>1 DEF InCharge, Pending
  <2> QED
    BY <2>1, <2>2, NoIrq
<1>4. MasksNest /\ IInv /\ Unplaced /\ [Next]_vars => [Life!Next]_(Life!vars)
  BY <1>2, <1>3
<1>5. Init => Unplaced
  BY DEF Init, Unplaced
<1>6. IInv /\ Unplaced /\ [Next]_vars => Unplaced'
  BY UnplacedNext
<1>7. CASE MasksNest
  <2>1. IInv /\ Unplaced /\ [Next]_vars => [Life!Next]_(Life!vars)
    BY <1>4, <1>7
  <2> QED
    BY <1>1, <1>5, <1>6, <2>1, Inductive, PTL DEF Spec, LifeRefined, Life!Spec
<1> QED
  BY <1>7

-----------------------------------------------------------------------------
(* Every way an irq changes its place                                      *)

\* The irq stays where it is, or loses its place.
Stays(i) ==
    /\ assigned_obj'[i] \in {assigned_obj[i], NULL}
    /\ moved'[i] => moved[i] \/ assigned_obj[i] # NULL

\* place_irq_in_node gives it a node, its own if that can be used.
ToNode(i) ==
    /\ PlaceInNode
    /\ i = Head(work)
    /\ assigned_obj'[i] \in Range(numa_nodes)
    /\ Usable(assigned_obj'[i])
    /\ HasNode(i) => assigned_obj'[i] = numa_node[i]
    /\ moved'[i]

\* find_best_object_for_irq pushes it down to a child.
ToChild(i) ==
    /\ PushDown
    /\ i = Head(work)
    /\ assigned_obj[i] = Head(objs)
    /\ assigned_obj'[i] \in Range(children[Head(objs)])
    /\ Eligible(assigned_obj'[i])
    /\ moved[i]

\* try_fallback_cpu finds it another cpu.
ToFallback(i) ==
    /\ FallbackSucceeds
    /\ i = Head(work)
    /\ assigned_obj[i] # NULL
    /\ assigned_obj'[i] \in Fallbacks(i)

\* The object a loop looks at, what hangs under an object and what is listed are objects.
LEMMA ObjectFacts ==
    /\ Range(numa_nodes) \subseteq Objects /\ Range(cpus) \subseteq Objects
    /\ \A o \in Objects : Range(children[o]) \subseteq Objects
    /\ \A i \in Irqs : numa_node[i] \in Objects
    /\ NULL \in Holders /\ Objects \subseteq Holders /\ NULL \notin Objects
    /\ Holders \ {NULL} = Objects
<1>1. Range(numa_nodes) \subseteq Objects /\ Range(cpus) \subseteq Objects
  BY ListAssumption DEF Range
<1>2. \A o \in Objects : Range(children[o]) \subseteq Objects
  BY TreeAssumption DEF Range
<1>3. \A i \in Irqs : numa_node[i] \in Range(numa_nodes)
  BY PolicyAssumption
<1> QED
  BY <1>1, <1>2, <1>3, NullAssumption DEF Holders

\* The irq at the head of a loop over the database.
LEMMA HeadFacts ==
    ASSUME IInv, pc # "parse", work # <<>>
    PROVE  /\ Head(work) \in Irqs /\ Head(work) \in Range(work)
           /\ Head(work) \in Range(interrupts_db)
           /\ Range(Tail(work)) \subseteq Range(work)
           /\ Range(work) = Range(Tail(work)) \cup {Head(work)}
           /\ Head(work) \notin Range(Tail(work))
<1>1. TypeOK /\ WorkOK
  BY DEF IInv
<1>2. work \in Seq(Irqs)
  BY <1>1 DEF TypeOK
<1> QED
  BY <1>1, <1>2, TailFacts DEF WorkOK

\* force_rebalance_irq takes the place away from an irq that has one, or leaves it.
LEMMA WithdrawChange ==
    ASSUME IInv, MoveCandidate \/ EmptyPowersave \/ GiveUp
    PROVE  /\ \A i \in Irqs : Stays(i)
           /\ \A i \in Irqs : i # Head(work) =>
                 /\ moved'[i] = moved[i] /\ assigned_obj'[i] = assigned_obj[i]
                 /\ \A h \in Holders : i \in Range(interrupts'[h])
                                       <=> i \in Range(interrupts[h])
           /\ level[Head(work)] # "NONE" => assigned_obj'[Head(work)] = NULL
<1>1. TypeOK /\ LoopOK /\ PhaseOK /\ NoneStays
  BY DEF IInv
<1> DEFINE i == Head(work)
           o == assigned_obj[Head(work)]
<1>2. /\ moved \in [Irqs -> BOOLEAN] /\ assigned_obj \in [Irqs -> Holders]
      /\ NULL \in Holders
  BY <1>1 DEF TypeOK, Holders
<1>3. /\ work # <<>> /\ pc \in {"candidates", "powersave", "fallback"}
      /\ pc' \in {"candidates", "powersave", "activate"}
      /\ UNCHANGED <<interrupts_db, level>>
  BY <1>1 DEF MoveCandidate, EmptyPowersave, GiveUp, LoopOK, dbVars
<1>4. i \in Irqs /\ i \in Range(work) /\ i \in Range(interrupts_db) /\ o # NULL
  BY <1>1, <1>3, HeadFacts DEF PhaseOK
<1>5. CASE level[i] = "NONE"
  <2>1. pc # "fallback"
    BY <1>1, <1>4, <1>5 DEF PhaseOK, NoneStays
  <2>2. UNCHANGED <<assigned_obj, moved, interrupts>>
    BY <1>5, <2>1, <1>3 DEF MoveCandidate, EmptyPowersave, GiveUp, force_rebalance_irq
  <2> QED
    BY <1>5, <2>2 DEF Stays
<1>6. CASE level[i] # "NONE"
  <2>1. PICK m \in BOOLEAN :
            /\ interrupts' = ListsAfter(o, NULL, i)
            /\ assigned_obj' = AssignedAfter(o, NULL, i)
            /\ moved' = [moved EXCEPT ![i] = m]
    <3>1. MovedAfter(o, i) \in BOOLEAN
      BY <1>2, <1>4 DEF MovedAfter, OnList
    <3>2. CASE GiveUp
      BY <1>6, <3>2 DEF GiveUp
    <3>3. CASE MoveCandidate \/ EmptyPowersave
      BY <1>4, <1>6, <3>1, <3>3
         DEF MoveCandidate, EmptyPowersave, force_rebalance_irq, migrate_irq_obj
    <3> QED
      BY <3>2, <3>3
  <2>2. /\ assigned_obj'[i] = NULL
        /\ \A j \in Irqs : j # i =>
              /\ assigned_obj'[j] = assigned_obj[j] /\ moved'[j] = moved[j]
              /\ \A h \in Holders : j \in Range(interrupts'[h])
                                    <=> j \in Range(interrupts[h])
    BY <1>2, <1>3, <1>4, <1>6, <2>1, MigrateSafe
  <2> QED
    BY <1>4, <2>2 DEF Stays
<1> QED
  BY <1>5, <1>6

\* place_irq_in_node concerns one irq.
LEMMA NodeChange ==
    ASSUME IInv, Unplaced, PlaceInNode
    PROVE  /\ ToNode(Head(work))
           /\ \A i \in Irqs : i # Head(work) =>
                 /\ moved'[i] = moved[i] /\ assigned_obj'[i] = assigned_obj[i]
                 /\ \A h \in Holders : i \in Range(interrupts'[h])
                                       <=> i \in Range(interrupts[h])
<1>1. TypeOK /\ PhaseOK /\ NoIrqLost
  BY DEF IInv
<1> DEFINE i == Head(work)
<1>2. moved \in [Irqs -> BOOLEAN]
  BY <1>1 DEF TypeOK
<1>3. /\ work # <<>> /\ pc = "place" /\ pc' = "place"
      /\ UNCHANGED <<interrupts_db, level>>
  BY DEF PlaceInNode, dbVars
<1>4. /\ i \in Irqs /\ i \in Range(interrupts_db) /\ i \in Range(work)
      /\ level[i] # "NONE" /\ assigned_obj[i] = NULL
  BY <1>1, <1>3, HeadFacts DEF PhaseOK, Unplaced
<1>5. PICK n \in Range(numa_nodes) :
          /\ migrate_irq_obj(assigned_obj[i], n, i)
          /\ Usable(n)
          /\ HasNode(i) => n = numa_node[i]
  <2>1. CASE HasNode(i) /\ migrate_irq_obj(assigned_obj[i], numa_node[i], i)
    <3>1. numa_node[i] \in Range(numa_nodes)
      BY <1>4, PolicyAssumption
    <3>2. Usable(numa_node[i])
      BY <2>1 DEF HasNode, Usable
    <3> QED
      BY <2>1, <3>1, <3>2
  <2>2. ASSUME ~HasNode(i), NEW k \in DOMAIN numa_nodes, IsBest(numa_nodes, k),
               migrate_irq_obj(assigned_obj[i], numa_nodes[k], i)
        PROVE  \E n \in Range(numa_nodes) :
                  /\ migrate_irq_obj(assigned_obj[i], n, i)
                  /\ Usable(n)
                  /\ HasNode(i) => n = numa_node[i]
    <3>1. numa_nodes[k] \in Range(numa_nodes) /\ obj_type[numa_nodes[k]] = "NODE"
      BY ListAssumption DEF Range
    <3>2. Usable(numa_nodes[k])
      BY <2>2, <3>1 DEF IsBest, Eligible, Usable
    <3> QED
      BY <2>2, <3>1, <3>2
  <2> QED
    BY <2>1, <2>2 DEF PlaceInNode
<1>6. MovedAfter(assigned_obj[i], i) = TRUE
  BY <1>1, <1>3, <1>4 DEF NoIrqLost, Pending, MovedAfter, OnList
<1>7. /\ interrupts' = ListsAfter(assigned_obj[i], n, i)
      /\ assigned_obj' = AssignedAfter(assigned_obj[i], n, i)
      /\ moved' = [moved EXCEPT ![i] = TRUE]
  BY <1>5, <1>6 DEF migrate_irq_obj
<1>8. n \in Holders
  BY ObjectFacts
<1>9. /\ assigned_obj'[i] = n
      /\ \A j \in Irqs : j # i =>
            /\ assigned_obj'[j] = assigned_obj[j] /\ moved'[j] = moved[j]
            /\ \A h \in Holders : j \in Range(interrupts'[h])
                                  <=> j \in Range(interrupts[h])
  BY <1>3, <1>4, <1>7, <1>8, MigrateSafe
<1> QED
  BY <1>2, <1>4, <1>5, <1>7, <1>9 DEF ToNode

\* So does find_best_object_for_irq.
LEMMA ChildChange ==
    ASSUME IInv, PushDown
    PROVE  /\ ToChild(Head(work)) /\ moved'[Head(work)] /\ Head(objs) \in Objects
           /\ \A i \in Irqs : i # Head(work) =>
                 /\ moved'[i] = moved[i] /\ assigned_obj'[i] = assigned_obj[i]
                 /\ \A h \in Holders : i \in Range(interrupts'[h])
                                       <=> i \in Range(interrupts[h])
<1>1. TypeOK /\ LoopOK /\ PhaseOK /\ NoneStays /\ ListInv /\ ListsAgree
  BY DEF IInv, ListInv
<1> DEFINE i == Head(work)
           d == Head(objs)
<1>2. moved \in [Irqs -> BOOLEAN]
  BY <1>1 DEF TypeOK
<1>3. /\ work # <<>> /\ pc = "push" /\ pc' = "push" /\ moved[i]
      /\ UNCHANGED <<interrupts_db, level>>
  BY DEF PushDown, dbVars
<1>4. /\ i \in Irqs /\ i \in Range(interrupts_db) /\ i \in Range(work)
      /\ d \in Objects /\ level[i] # "NONE" /\ assigned_obj[i] = d
  BY <1>1, <1>3, LoopFacts, HeadFacts, ObjectFacts DEF LoopOK, PhaseOK, NoneStays, ListsAgree
<1>5. PICK k \in DOMAIN children[d] : /\ migrate_irq_obj(d, children[d][k], i)
                                      /\ IsBest(children[d], k)
  BY DEF PushDown
<1> DEFINE c == children[d][k]
<1>6. c \in Holders /\ c \in Range(children[d]) /\ Eligible(c)
  BY <1>4, <1>5, TreeAssumption DEF Range, IsBest, Holders
<1>7. MovedAfter(d, i) = TRUE
  BY <1>3 DEF MovedAfter
<1>8. /\ interrupts' = ListsAfter(assigned_obj[i], c, i)
      /\ assigned_obj' = AssignedAfter(assigned_obj[i], c, i)
      /\ moved' = [moved EXCEPT ![i] = TRUE]
  BY <1>4, <1>5, <1>7 DEF migrate_irq_obj
<1> HIDE DEF c
<1>9. /\ assigned_obj'[i] = c
      /\ \A j \in Irqs : j # i =>
            /\ assigned_obj'[j] = assigned_obj[j] /\ moved'[j] = moved[j]
            /\ \A h \in Holders : j \in Range(interrupts'[h])
                                  <=> j \in Range(interrupts[h])
  BY <1>3, <1>4, <1>6, <1>8, MigrateSafe
<1> QED
  BY <1>2, <1>3, <1>4, <1>6, <1>8, <1>9 DEF ToChild

\* And try_fallback_cpu.
LEMMA FallbackChange ==
    ASSUME IInv, FallbackSucceeds
    PROVE  /\ ToFallback(Head(work)) /\ ~moved'[Head(work)]
           /\ smp_affinity' = [smp_affinity EXCEPT
                  ![Head(work)] = AppliedMask(assigned_obj'[Head(work)])]
           /\ \A i \in Irqs : i # Head(work) =>
                 moved'[i] = moved[i] /\ assigned_obj'[i] = assigned_obj[i]
<1>1. TypeOK /\ LoopOK /\ PhaseOK /\ NoneStays
  BY DEF IInv
<1> DEFINE i == Head(work)
           o == assigned_obj[Head(work)]
<1>2. moved \in [Irqs -> BOOLEAN]
  BY <1>1 DEF TypeOK
<1>3. /\ work # <<>> /\ pc = "fallback" /\ pc' = "activate"
      /\ UNCHANGED <<interrupts_db, level>>
  BY <1>1 DEF FallbackSucceeds, MayTry, LoopOK, dbVars
<1>4. i \in Irqs /\ i \in Range(interrupts_db) /\ moved[i] /\ o # NULL
  BY <1>1, <1>3, HeadFacts DEF PhaseOK
<1>5. level[i] # "NONE"
  BY <1>1, <1>4 DEF NoneStays
<1>6. PICK c \in Objects :
          /\ c \in Fallbacks(i)
          /\ smp_affinity' = [smp_affinity EXCEPT ![i] = AppliedMask(c)]
          /\ interrupts' = ListsAfter(o, c, i)
          /\ assigned_obj' = AssignedAfter(o, c, i)
          /\ moved' = [moved EXCEPT ![i] = FALSE]
  BY DEF FallbackSucceeds, IsBestFallback
<1>7. c \in Holders
  BY ObjectFacts
<1>8. /\ assigned_obj'[i] = c
      /\ \A j \in Irqs : j # i =>
            assigned_obj'[j] = assigned_obj[j] /\ moved'[j] = moved[j]
  BY <1>3, <1>4, <1>5, <1>6, <1>7, MigrateSafe
<1> QED
  BY <1>2, <1>4, <1>6, <1>8 DEF ToFallback

\* The other steps give no irq a place.
OtherStep ==
    \/ QuietStep \/ Build \/ ForceAll \/ ClearSlots \/ ParseLine \/ LineMismatch
    \/ RemoveNoExisting \/ OpenObject \/ SortRebalance \/ AlreadyApplied \/ WriteSucceeds
    \/ WriteFailsForGood \/ NoSpace \/ FallbackFull

\* They do not.
LEMMA OtherChange ==
    ASSUME IInv, OtherStep, NEW i \in Irqs
    PROVE  Stays(i) /\ (moved'[i] => moved[i])
<1>1. TypeOK /\ LoopOK /\ PhaseOK
  BY DEF IInv
<1>2. /\ moved \in [Irqs -> BOOLEAN] /\ assigned_obj \in [Irqs -> Holders]
  BY <1>1 DEF TypeOK
<1>3. CASE UNCHANGED <<assigned_obj, moved>>
  BY <1>3 DEF Stays
<1>4. CASE QuietStep
  BY <1>3, <1>4, QuietFacts DEF Quiet
<1>5. CASE Build
  BY <1>5 DEF Build, Stays
<1>6. CASE ForceAll
  <2>1. Head(work) \in Range(work)
    BY <1>1, <1>6, HeadFacts DEF ForceAll
  <2>2. assigned_obj[Head(work)] = NULL
    BY <1>1, <1>6, <2>1 DEF ForceAll, PhaseOK
  <2> QED
    BY <1>3, <1>6, <2>2 DEF ForceAll, force_rebalance_irq
<1>7. CASE ClearSlots \/ ParseLine \/ LineMismatch
  BY <1>3, <1>7 DEF ClearSlots, ParseLine, LineMismatch, irqVars
<1>8. CASE RemoveNoExisting
  BY <1>2, <1>8 DEF RemoveNoExisting, Stays
<1>9. CASE OpenObject \/ SortRebalance
  BY <1>3, <1>9 DEF OpenObject, SortRebalance
<1>10. CASE AlreadyApplied \/ WriteSucceeds \/ WriteFailsForGood
  BY <1>2, <1>10 DEF AlreadyApplied, WriteSucceeds, WriteFailsForGood, Stays
<1>11. CASE NoSpace \/ FallbackFull
  BY <1>3, <1>11 DEF NoSpace, FallbackFull, irqVars
<1> QED
  BY <1>4, <1>5, <1>6, <1>7, <1>8, <1>9, <1>10, <1>11 DEF OtherStep

\* An irq gets a place from place_irq_in_node, find_best_object_for_irq or
\* try_fallback_cpu, and from nothing else.
LEMMA EveryChange ==
    ASSUME IInv, Unplaced, Next, NEW i \in Irqs
    PROVE  Stays(i) \/ ToNode(i) \/ ToChild(i) \/ ToFallback(i)
<1>1. ASSUME moved'[i] = moved[i], assigned_obj'[i] = assigned_obj[i]
      PROVE  Stays(i)
  BY <1>1 DEF Stays
<1>2. CASE OtherStep
  BY <1>2, OtherChange
<1>3. CASE MoveCandidate \/ EmptyPowersave \/ GiveUp
  BY <1>3, WithdrawChange
<1>4. CASE PlaceInNode
  BY <1>1, <1>4, NodeChange
<1>5. CASE PushDown
  BY <1>1, <1>5, ChildChange
<1>6. CASE FallbackSucceeds
  BY <1>1, <1>6, FallbackChange
<1> QED
  BY <1>2, <1>3, <1>4, <1>5, <1>6
     DEF Next, Cycle, Rebuilding, Parsing, Selecting, Placing, Activating,
         OtherStep, QuietStep

-----------------------------------------------------------------------------
(* The tree                                                                *)

\* The types, from the top down.
LEMMA RankFacts ==
    /\ \A o \in Objects : Rank(obj_type[o]) \in 0 .. 3
    /\ \A o \in Objects : obj_type[o] = "NODE" <=> Rank(obj_type[o]) = 3
    /\ \A o \in Objects : obj_type[o] = "CPU" <=> Rank(obj_type[o]) = 0
    /\ \A o \in Objects : \A c \in Range(children[o]) :
          c \in Objects /\ Rank(obj_type[c]) < Rank(obj_type[o])
<1>1. \A o \in Objects : obj_type[o] \in {"CPU", "CACHE", "PACKAGE", "NODE"}
  BY TreeAssumption DEF ObjTypes
<1>2. /\ Rank("CPU") = 0 /\ Rank("CACHE") = 1 /\ Rank("PACKAGE") = 2 /\ Rank("NODE") = 3
  BY DEF Rank
<1>3. /\ \A o \in Objects : Rank(obj_type[o]) \in 0 .. 3
      /\ \A o \in Objects : obj_type[o] = "NODE" <=> Rank(obj_type[o]) = 3
      /\ \A o \in Objects : obj_type[o] = "CPU" <=> Rank(obj_type[o]) = 0
  BY <1>1, <1>2
<1> QED
  BY <1>3, LayerAssumption, ObjectFacts

\* The objects under those of a set are of a lower type.
LEMMA ChildRank ==
    ASSUME NEW r \in Nat, NEW S \in SUBSET Objects,
           \A o \in S : Rank(obj_type[o]) <= r + 1
    PROVE  ChildSet(S) \subseteq Objects /\ \A c \in ChildSet(S) : Rank(obj_type[c]) <= r
<1> SUFFICES ASSUME NEW c \in ChildSet(S)
             PROVE  c \in Objects /\ Rank(obj_type[c]) <= r
  OBVIOUS
<1>1. PICK o \in S : c \in Range(children[o])
  BY DEF ChildSet
<1> QED
  BY <1>1, RankFacts

\* clear_slots reaches all that hangs under an object it reaches.
LEMMA ReachClosed ==
    /\ Range(numa_nodes) \subseteq Reachable
    /\ \A o \in Reachable : \A c \in Range(children[o]) : c \in Reachable
<1> DEFINE n == Range(numa_nodes)
           p == ChildSet(n)
           q == ChildSet(p)
           u == ChildSet(q)
<1>1. n \subseteq Objects /\ \A o \in n : Rank(obj_type[o]) <= 2 + 1
  BY ObjectFacts, RankFacts
<1>2. p \subseteq Objects /\ \A o \in p : Rank(obj_type[o]) <= 1 + 1
  BY <1>1, ChildRank
<1>3. q \subseteq Objects /\ \A o \in q : Rank(obj_type[o]) <= 0 + 1
  BY <1>2, ChildRank
<1>4. u \subseteq Objects /\ \A o \in u : Rank(obj_type[o]) <= 0
  BY <1>3, ChildRank
<1>5. Reachable = n \cup p \cup q \cup u
  BY DEF Reachable
<1>6. \A S \in SUBSET Objects : \A o \in S : Range(children[o]) \subseteq ChildSet(S)
  BY DEF ChildSet
<1>7. \A o \in u : \A c \in Range(children[o]) : FALSE
  BY <1>4, RankFacts
<1> HIDE DEF n, p, q, u
<1>8. \A o \in n : Range(children[o]) \subseteq p
  BY <1>1, <1>6 DEF p
<1>9. \A o \in p : Range(children[o]) \subseteq q
  BY <1>2, <1>6 DEF q
<1>10. \A o \in q : Range(children[o]) \subseteq u
  BY <1>3, <1>6 DEF u
<1> QED
  BY <1>5, <1>7, <1>8, <1>9, <1>10 DEF n

-----------------------------------------------------------------------------
(* Powersave mode                                                          *)

\* Only cpus enter powersave mode: while update_migration_status walks over cpus, the
\* object it may send to sleep is one of them.
PowerInv ==
    /\ \A o \in Objects : powersave_mode[o] => o \in Range(cpus)
    /\ pc \in {"objects", "candidates"} /\ lb.list = 1 =>
          /\ Range(objs) \subseteq Range(cpus)
          /\ lb.powersave \in Range(cpus) \cup {NULL}

\* Steps outside the loops over the objects.
OutsideStep ==
    \/ ForceAll \/ ClearSlots \/ Parsing \/ EmptyPowersave \/ EndPowersave
    \/ Placing \/ Activating \/ RequestRescan

\* They leave powersave mode alone.
LEMMA OutsideFacts ==
    OutsideStep => powersave_mode' = powersave_mode /\ pc' \notin {"objects", "candidates"}
<1> USE DEF loopVars, objVars, MayTry, AfterStat
<1> DEFINE Out == powersave_mode' = powersave_mode /\ pc' \notin {"objects", "candidates"}
<1>1. ForceAll \/ ClearSlots \/ StartScan \/ ParseLine \/ LineMismatch => Out
  BY DEF ForceAll, ClearSlots, StartScan, ParseLine, LineMismatch
<1>2. HotplugFails \/ NoMemory \/ EndParse \/ KeepExisting \/ RemoveNoExisting => Out
  BY DEF HotplugFails, NoMemory, EndParse, KeepExisting, RemoveNoExisting
<1>3. ClearBanned \/ ParseProcStat \/ StatFails \/ RequestRescan => Out
  BY DEF ClearBanned, ParseProcStat, StatFails, RequestRescan
<1>4. EmptyPowersave \/ EndPowersave \/ SortRebalance \/ PlaceInNode \/ NotPlaced => Out
  BY DEF EmptyPowersave, EndPowersave, SortRebalance, PlaceInNode, NotPlaced
<1>5. EndPlace \/ OpenDomain \/ PushDown \/ StayHere \/ CloseDomain \/ EndDomains => Out
  BY DEF EndPlace, OpenDomain, PushDown, StayHere, CloseDomain, EndDomains
<1>6. SkipActivation \/ AlreadyApplied \/ WriteSucceeds \/ WriteFailsForNow => Out
  BY DEF SkipActivation, AlreadyApplied, WriteSucceeds, WriteFailsForNow
<1>7. WriteFailsForGood \/ NoSpace \/ FallbackSucceeds \/ FallbackFull => Out
  BY DEF WriteFailsForGood, NoSpace, FallbackSucceeds, FallbackFull
<1>8. FallbackRefused \/ GiveUp \/ EndScan => Out
  BY DEF FallbackRefused, GiveUp, EndScan
<1> QED
  BY <1>1, <1>2, <1>3, <1>4, <1>5, <1>6, <1>7, <1>8
     DEF OutsideStep, Parsing, Placing, Activating

\* What the loops over the objects do to the cpu that may go to sleep.
LEMMA CountedFacts ==
    ASSUME LoopOK, NEW o \in Objects
    PROVE  /\ Counted(o).list = lb.list /\ Counted(o).powersave \in {lb.powersave, o}
           /\ [Counted(o) EXCEPT !.adj = load[o]].list = lb.list
           /\ [Counted(o) EXCEPT !.adj = load[o]].powersave \in {lb.powersave, o}
           /\ \A i \in Irqs : Taken(i).list = lb.list /\ Taken(i).powersave = lb.powersave
           /\ \A k \in 1 .. 4 : LoadStats(k).list = k /\ LoadStats(k).powersave = NULL
<1>1. DOMAIN lb = DOMAIN NoInfo
  BY DEF LoopOK
<1>2. Counted(o).list = lb.list /\ Counted(o).powersave \in {lb.powersave, o}
      /\ DOMAIN Counted(o) = DOMAIN NoInfo
  BY <1>1, SMT DEF Counted, NoInfo
<1>3. /\ [Counted(o) EXCEPT !.adj = load[o]].list = lb.list
      /\ [Counted(o) EXCEPT !.adj = load[o]].powersave \in {lb.powersave, o}
  BY <1>2, SMT DEF NoInfo
<1>4. ASSUME NEW i \in Irqs
      PROVE  Taken(i).list = lb.list /\ Taken(i).powersave = lb.powersave
  BY <1>1, SMT DEF Taken, NoInfo
<1>5. ASSUME NEW k \in 1 .. 4
      PROVE  LoadStats(k).list = k /\ LoadStats(k).powersave = NULL
  BY SMT DEF LoadStats, NoInfo
<1> QED
  BY <1>2, <1>3, <1>4, <1>5

\* Only cpus ever enter powersave mode.
LEMMA PowerNext ==
    ASSUME IInv, PowerInv, Next
    PROVE  PowerInv'
<1>1. TypeOK /\ LoopOK
  BY DEF IInv
<1>2. /\ powersave_mode \in [Objects -> BOOLEAN] /\ objs \in Seq(Objects)
      /\ lb.list \in 0 .. 4
  BY <1>1 DEF TypeOK, LoopOK
<1>3. CASE OutsideStep
  BY <1>3, OutsideFacts DEF PowerInv
<1>4. CASE Build
  BY <1>4 DEF Build, PowerInv
<1>5. CASE Gather
  <2>1. /\ lb.list + 1 \in 1 .. 4 /\ lb' = LoadStats(lb.list + 1)
        /\ objs' = ObjLists[lb.list + 1] /\ powersave_mode' = powersave_mode
    BY <1>1, <1>2, <1>5 DEF Gather, LoopOK, objVars
  <2>2. lb'.list = lb.list + 1 /\ lb'.powersave = NULL
    BY <1>1, <2>1, CountedFacts, TreeAssumption
  <2>3. lb'.list = 1 => objs' = cpus
    BY <1>2, <2>1, <2>2 DEF ObjLists
  <2> QED
    BY <2>1, <2>2, <2>3 DEF PowerInv
<1>6. CASE PassObject \/ OpenObject
  <2>1. /\ objs # <<>> /\ pc = "objects" /\ objs' = Tail(objs)
        /\ powersave_mode' = powersave_mode
    BY <1>6 DEF PassObject, OpenObject, objVars
  <2>2. Head(objs) \in Objects /\ Head(objs) \in Range(objs)
        /\ Range(Tail(objs)) \subseteq Range(objs)
    BY <1>2, <2>1, TailFacts
  <2>3. lb'.list = lb.list /\ lb'.powersave \in {lb.powersave, Head(objs)}
    <3>1. \/ lb' = Counted(Head(objs))
          \/ lb' = [Counted(Head(objs)) EXCEPT !.adj = load[Head(objs)]]
      BY <1>6 DEF PassObject, OpenObject
    <3>2. /\ Counted(Head(objs)).list = lb.list
          /\ Counted(Head(objs)).powersave \in {lb.powersave, Head(objs)}
          /\ [Counted(Head(objs)) EXCEPT !.adj = load[Head(objs)]].list = lb.list
          /\ [Counted(Head(objs)) EXCEPT !.adj = load[Head(objs)]].powersave
                \in {lb.powersave, Head(objs)}
      BY <1>1, <2>2, CountedFacts
    <3>3. CASE lb' = Counted(Head(objs))
      BY <3>2, <3>3
    <3>4. CASE lb' = [Counted(Head(objs)) EXCEPT !.adj = load[Head(objs)]]
      BY <3>2, <3>4
    <3> QED
      BY <3>1, <3>3, <3>4
  <2> QED
    BY <2>1, <2>2, <2>3 DEF PowerInv
<1>7. CASE MoveCandidate
  <2>1. /\ work # <<>> /\ pc = "candidates" /\ objs' = objs /\ lb' = Taken(Head(work))
        /\ powersave_mode' = powersave_mode
    BY <1>7 DEF MoveCandidate
  <2>2. lb'.list = lb.list /\ lb'.powersave = lb.powersave
    BY <1>1, <2>1, CountedFacts, HeadFacts, TreeAssumption
  <2> QED
    BY <2>1, <2>2 DEF PowerInv
<1>8. CASE KeepCandidate \/ EndCandidates
  BY <1>8 DEF KeepCandidate, EndCandidates, objVars, PowerInv
<1>9. CASE EnterPowersave
  <2>1. /\ pc = "objects" /\ lb.list = 1 /\ lb.powersave # NULL /\ pc' = "powersave"
        /\ powersave_mode' = [powersave_mode EXCEPT ![lb.powersave] = TRUE]
    BY <1>9 DEF EnterPowersave, Enters, MayPowersave
  <2> QED
    BY <1>2, <2>1 DEF PowerInv
<1>10. CASE EndObjects
  <2>1. /\ pc' \notin {"objects", "candidates"}
        /\ \A o \in Objects : powersave_mode'[o] => powersave_mode[o]
    BY <1>10 DEF EndObjects
  <2> QED
    BY <2>1 DEF PowerInv
<1> QED
  BY <1>3, <1>4, <1>5, <1>6, <1>7, <1>8, <1>9, <1>10
     DEF Next, Cycle, Rebuilding, Selecting, OutsideStep

-----------------------------------------------------------------------------
(* The loop over rebalance_irq_list                                        *)

SomeUsable == \E n \in Range(numa_nodes) : Usable(n)

\* An irq that was ever given a place has a node to go to; the object it is on can be
\* reached, and a node only if it can be used.
PlaceInv ==
    \A i \in Irqs :
        /\ moved[i] \/ assigned_obj[i] # NULL => HasNode(i) \/ SomeUsable
        /\ assigned_obj[i] # NULL =>
              /\ obj_type[assigned_obj[i]] # "CPU" => assigned_obj[i] \in Reachable
              /\ obj_type[assigned_obj[i]] = "NODE" => Usable(assigned_obj[i])

\* No step takes an irq elsewhere.
LEMMA PlaceNext ==
    ASSUME IInv, Unplaced, PlaceInv, Next
    PROVE  PlaceInv'
<1> SUFFICES ASSUME NEW i \in Irqs
             PROVE  /\ moved'[i] \/ assigned_obj'[i] # NULL => HasNode(i) \/ SomeUsable
                    /\ assigned_obj'[i] # NULL =>
                          /\ obj_type[assigned_obj'[i]] # "CPU" => assigned_obj'[i] \in Reachable
                          /\ obj_type[assigned_obj'[i]] = "NODE" => Usable(assigned_obj'[i])
  BY DEF PlaceInv
<1>1. /\ moved[i] \/ assigned_obj[i] # NULL => HasNode(i) \/ SomeUsable
      /\ assigned_obj[i] # NULL =>
            /\ obj_type[assigned_obj[i]] # "CPU" => assigned_obj[i] \in Reachable
            /\ obj_type[assigned_obj[i]] = "NODE" => Usable(assigned_obj[i])
  BY DEF PlaceInv
<1>2. CASE Stays(i)
  BY <1>1, <1>2 DEF Stays
<1>3. CASE ToNode(i)
  BY <1>3, ReachClosed DEF ToNode, SomeUsable
<1>4. CASE ToChild(i)
  <2>1. /\ moved[i] /\ assigned_obj[i] = Head(objs)
        /\ assigned_obj'[i] \in Range(children[Head(objs)]) /\ Head(objs) \in Objects
    BY <1>4, ChildChange DEF ToChild
  <2>2. /\ Rank(obj_type[Head(objs)]) # 0 /\ Rank(obj_type[assigned_obj'[i]]) # 3
        /\ assigned_obj'[i] \in Objects
    BY <2>1, RankFacts
  <2>3. obj_type[Head(objs)] # "CPU" /\ obj_type[assigned_obj'[i]] # "NODE"
    BY <2>1, <2>2, RankFacts
  <2>4. Head(objs) \in Reachable
    BY <1>1, <2>1, <2>3, ObjectFacts
  <2> QED
    BY <1>1, <2>1, <2>3, <2>4, ReachClosed
<1>5. CASE ToFallback(i)
  <2>1. assigned_obj[i] # NULL /\ obj_type[assigned_obj'[i]] = "CPU"
    BY <1>5 DEF ToFallback, Fallbacks, is_valid_fallback
  <2> QED
    BY <1>1, <2>1
<1> QED
  BY <1>2, <1>3, <1>4, <1>5, EveryChange

\* Nodes can always be entered.
LEMMA NodesEligible ==
    ASSUME IInv, PowerInv, pc \notin {"build", "force"},
           NEW o \in Objects, o \in Reachable, obj_type[o] # "CPU",
           obj_type[o] = "NODE" => Usable(o)
    PROVE  Eligible(o)
<1>1. slots_left[o] > 0
  <2>1. slots_left[o] = INT_MAX
    BY DEF IInv, SlotsBounded
  <2> QED
    BY <2>1, IntMaxFacts DEF SLOTS_SATURATED
<1>2. ~powersave_mode[o]
  <2>1. \A c \in Range(cpus) : obj_type[c] = "CPU"
    BY ListAssumption DEF Range
  <2> QED
    BY <2>1 DEF PowerInv
<1>3. o = NoNode => obj_type[o] = "NODE"
  BY LayerAssumption
<1> QED
  BY <1>1, <1>2, <1>3 DEF Eligible, Usable

\* A moved irq that has no place is still to be placed.
StillToPlace ==
    pc = "place" =>
        \A i \in Range(interrupts_db) :
            moved[i] /\ assigned_obj[i] = NULL => i \in Range(work)

\* place_irq_in_node finds a node for every irq that had a place before.
LEMMA StillNext ==
    ASSUME IInv, Unplaced, PowerInv, PlaceInv, StillToPlace, Next
    PROVE  StillToPlace'
<1>1. /\ TypeOK /\ PhaseOK /\ NoIrqLost /\ NoneStays
  BY DEF IInv
<1>2. /\ interrupts \in [Holders -> Seq(Irqs)] /\ Range(interrupts_db) \subseteq Irqs
      /\ NULL \in Holders
  BY <1>1, ListTypes DEF TypeOK, Holders
<1>3. CASE ElsewhereStep
  BY <1>3, ElsewhereFacts DEF StillToPlace
<1>4. CASE SortRebalance
  <2>1. PICK s \in SortedLists(interrupts[NULL]) :
            pc' = "place" => work' = s
    BY <1>4 DEF SortRebalance, rebalance_irq_list
  <2>2. Range(s) = Range(interrupts[NULL])
    BY <1>2, SortedFacts
  <2>3. pc = "sort" /\ UNCHANGED <<assigned_obj, moved, interrupts_db>>
    BY <1>4 DEF SortRebalance, dbVars
  <2>4. \A i \in Range(interrupts_db) :
            moved[i] /\ assigned_obj[i] = NULL => i \in Range(interrupts[NULL])
    BY <1>1, <2>3 DEF NoIrqLost, NoneStays, Pending
  <2> QED
    BY <2>1, <2>2, <2>3, <2>4 DEF StillToPlace
<1>5. CASE PlaceInNode
  <2>1. /\ pc = "place" /\ work # <<>> /\ work' = Tail(work)
        /\ interrupts_db' = interrupts_db
    BY <1>5 DEF PlaceInNode, dbVars
  <2>2. Range(work) = Range(Tail(work)) \cup {Head(work)}
    BY <2>1, HeadFacts
  <2>3. assigned_obj'[Head(work)] # NULL
    BY <1>5, NodeChange, ObjectFacts DEF ToNode
  <2>4. \A i \in Irqs : i # Head(work) =>
            moved'[i] = moved[i] /\ assigned_obj'[i] = assigned_obj[i]
    BY <1>5, NodeChange
  <2> QED
    BY <1>2, <2>1, <2>2, <2>3, <2>4 DEF StillToPlace
<1>6. CASE NotPlaced
  <2>1. /\ pc = "place" /\ work # <<>> /\ work' = Tail(work)
        /\ UNCHANGED <<interrupts_db, assigned_obj, moved>>
        /\ \/ level[Head(work)] = "NONE"
           \/ ~HasNode(Head(work)) /\ NoneEligible(numa_nodes)
    BY <1>6 DEF NotPlaced, LeftAlone, dbVars, irqVars
  <2>2. /\ Range(work) = Range(Tail(work)) \cup {Head(work)}
        /\ Head(work) \in Irqs /\ Head(work) \in Range(work)
    BY <2>1, HeadFacts
  <2>3. ~HasNode(Head(work)) /\ NoneEligible(numa_nodes)
    BY <1>1, <2>1, <2>2 DEF PhaseOK
  <2>4. ~SomeUsable
    <3> SUFFICES ASSUME NEW n \in Range(numa_nodes), Usable(n) PROVE FALSE
      BY DEF SomeUsable
    <3>1. n \in Objects /\ n \in Reachable /\ obj_type[n] = "NODE"
      BY ReachClosed, ObjectFacts, LayerAssumption
    <3>2. Eligible(n)
      BY <2>1, <3>1, NodesEligible
    <3> QED
      BY <2>3, <3>2 DEF NoneEligible, Range
  <2>5. ~moved[Head(work)]
    BY <2>2, <2>3, <2>4 DEF PlaceInv
  <2> QED
    BY <2>1, <2>2, <2>5 DEF StillToPlace
<1> QED
  BY <1>3, <1>4, <1>5, <1>6
     DEF Next, Cycle, Rebuilding, Parsing, Selecting, Placing, Activating,
         ElsewhereStep, PlainStep

-----------------------------------------------------------------------------
(* The loops that push irqs down the tree                                  *)

\* No object of the list is a cpu, and what hangs under one comes later.
TopDown(list) ==
    \A k \in DOMAIN list :
        /\ obj_type[list[k]] # "CPU"
        /\ \A c \in Range(children[list[k]]) :
              obj_type[c] # "CPU" => \E j \in DOMAIN list : j > k /\ list[j] = c

\* The irq has come as far down as it can.
Reached(i) ==
    \/ obj_type[assigned_obj[i]] = "CPU"
    \/ AtItsLevel(i, assigned_obj[i])
    \/ NoneEligible(children[assigned_obj[i]])

\* A moved irq has come down all the way, or its object, or its turn, is still to come.
PushInv ==
    pc \in {"domains", "push"} =>
        /\ TopDown(objs)
        /\ \A i \in Range(interrupts_db) : moved[i] =>
              /\ assigned_obj[i] # NULL
              /\ \/ Reached(i)
                 \/ pc = "domains" /\ assigned_obj[i] \in Range(objs)
                 \/ pc = "push" /\ assigned_obj[i] \in Range(Tail(objs))
                 \/ pc = "push" /\ assigned_obj[i] = Head(objs) /\ i \in Range(work)

\* What hangs under an object of one of the three lists is in a later list, or a cpu.
LEMMA DomainsTopDown ==
    /\ TopDown(numa_nodes \o packages \o cache_domains)
    /\ \A o \in Objects :
          obj_type[o] = "CPU" \/ o \in Range(numa_nodes \o packages \o cache_domains)
<1> DEFINE upper == numa_nodes \o packages
           list == upper \o cache_domains
           n == Len(numa_nodes)
           m == Len(numa_nodes) + Len(packages)
<1>1. /\ numa_nodes \in Seq(Objects) /\ packages \in Seq(Objects)
      /\ cache_domains \in Seq(Objects)
  BY ListAssumption
<1>2. /\ upper \in Seq(Objects) /\ Range(upper) = Range(numa_nodes) \cup Range(packages)
      /\ Len(upper) = m /\ n \in Nat /\ m \in Nat /\ n <= m
      /\ \A k \in 1 .. m : upper[k] = IF k <= n THEN numa_nodes[k] ELSE packages[k - n]
  BY <1>1, ConcatFacts
<1> HIDE DEF upper
<1>3. /\ list \in Seq(Objects) /\ Range(list) = Range(upper) \cup Range(cache_domains)
      /\ DOMAIN list = 1 .. m + Len(cache_domains) /\ Len(cache_domains) \in Nat
      /\ \A k \in 1 .. m + Len(cache_domains) :
            list[k] = IF k <= m THEN upper[k] ELSE cache_domains[k - m]
  <2>1. /\ list \in Seq(Objects) /\ Range(list) = Range(upper) \cup Range(cache_domains)
        /\ Len(list) = Len(upper) + Len(cache_domains) /\ Len(cache_domains) \in Nat
        /\ \A k \in 1 .. Len(upper) + Len(cache_domains) :
              list[k] = IF k <= Len(upper) THEN upper[k] ELSE cache_domains[k - Len(upper)]
    BY <1>1, <1>2, ConcatFacts, Zenon
  <2> HIDE DEF list
  <2>2. DOMAIN list = 1 .. Len(list)
    BY <2>1
  <2> QED
    BY <1>2, <2>1, <2>2
<1> HIDE DEF list
<1>4. Range(list) = { o \in Objects : obj_type[o] # "CPU" }
  <2>1. \A o \in Objects : obj_type[o] \in {"CPU", "CACHE", "PACKAGE", "NODE"}
    BY TreeAssumption DEF ObjTypes
  <2> QED
    BY <1>2, <1>3, <2>1, LayerAssumption
<1>5. /\ \A k \in 1 .. n : numa_nodes[k] \in Range(numa_nodes)
      /\ \A k \in 1 .. m - n : packages[k] \in Range(packages)
      /\ \A k \in 1 .. Len(cache_domains) : cache_domains[k] \in Range(cache_domains)
  BY <1>1 DEF Range
<1>6. ASSUME NEW k \in DOMAIN list
      PROVE  /\ obj_type[list[k]] = "NODE" <=> k <= n
             /\ obj_type[list[k]] = "PACKAGE" <=> n < k /\ k <= m
             /\ obj_type[list[k]] = "CACHE" <=> m < k
             /\ list[k] \in Objects
  <2>1. k \in Nat /\ k >= 1 /\ k <= m + Len(cache_domains)
    BY <1>3
  <2>2. CASE k <= n
    <3>1. list[k] \in Range(numa_nodes)
      BY <1>2, <1>3, <1>5, <2>1, <2>2
    <3> QED
      BY <1>2, <2>1, <2>2, <3>1, LayerAssumption
  <2>3. CASE n < k /\ k <= m
    <3>1. k - n \in 1 .. m - n /\ list[k] = packages[k - n]
      BY <1>2, <1>3, <2>1, <2>3
    <3>2. list[k] \in Range(packages)
      BY <1>5, <3>1
    <3> QED
      BY <1>2, <2>1, <2>3, <3>2, LayerAssumption
  <2>4. CASE m < k
    <3>1. k - m \in 1 .. Len(cache_domains) /\ list[k] = cache_domains[k - m]
      BY <1>2, <1>3, <2>1, <2>4
    <3>2. list[k] \in Range(cache_domains)
      BY <1>5, <3>1
    <3> QED
      BY <1>2, <2>1, <2>4, <3>2, LayerAssumption
  <2> QED
    BY <1>2, <2>1, <2>2, <2>3, <2>4
<1>7. ASSUME NEW k \in DOMAIN list, NEW c \in Range(children[list[k]]),
             obj_type[c] # "CPU"
      PROVE  \E j \in DOMAIN list : j > k /\ list[j] = c
  <2>1. list[k] \in Objects
    BY <1>6
  <2>2. c \in Objects /\ Rank(obj_type[c]) < Rank(obj_type[list[k]])
    BY <2>1, RankFacts
  <2>3. c \in Range(list)
    BY <1>4, <1>7, <2>2
  <2>4. PICK j \in DOMAIN list : list[j] = c
    BY <2>3 DEF Range
  <2>5. /\ obj_type[c] \in {"CACHE", "PACKAGE", "NODE"}
        /\ obj_type[list[k]] \in {"CPU", "CACHE", "PACKAGE", "NODE"}
    BY <1>7, <2>1, <2>2, TreeAssumption DEF ObjTypes
  <2>6. \/ obj_type[list[k]] = "NODE" /\ obj_type[c] \in {"CACHE", "PACKAGE"}
        \/ obj_type[list[k]] = "PACKAGE" /\ obj_type[c] = "CACHE"
    BY <2>2, <2>5 DEF Rank
  <2>7. j > k
    BY <1>2, <1>3, <1>6, <2>4, <2>6
  <2> QED
    BY <2>4, <2>7
<1>8. TopDown(list)
  BY <1>6, <1>7 DEF TopDown
<1> QED
  BY <1>4, <1>8 DEF list, upper

\* The rest of such a list is one too, and holds what hangs under the head.
LEMMA TopDownTail ==
    ASSUME NEW list \in Seq(Objects), list # <<>>, TopDown(list)
    PROVE  /\ TopDown(Tail(list)) /\ obj_type[Head(list)] # "CPU"
           /\ \A c \in Range(children[Head(list)]) :
                 obj_type[c] = "CPU" \/ c \in Range(Tail(list))
<1>1. /\ Tail(list) \in Seq(Objects) /\ Len(Tail(list)) = Len(list) - 1
      /\ Len(list) \in Nat /\ Len(list) >= 1 /\ DOMAIN list = 1 .. Len(list)
      /\ DOMAIN Tail(list) = 1 .. Len(list) - 1
      /\ \A k \in 1 .. Len(list) - 1 : Tail(list)[k] = list[k + 1]
      /\ Head(list) = list[1]
  OBVIOUS
<1>2. \A k \in 1 .. Len(list) : k > 1 => k - 1 \in 1 .. Len(list) - 1 /\ list[k] = Tail(list)[k - 1]
  BY <1>1
<1>3. TopDown(Tail(list))
  <2> SUFFICES ASSUME NEW k \in DOMAIN Tail(list)
               PROVE  /\ obj_type[Tail(list)[k]] # "CPU"
                      /\ \A c \in Range(children[Tail(list)[k]]) :
                            obj_type[c] # "CPU" =>
                                \E j \in DOMAIN Tail(list) : j > k /\ Tail(list)[j] = c
    BY Zenon DEF TopDown
  <2>1. k \in 1 .. Len(list) - 1 /\ k + 1 \in 1 .. Len(list) /\ Tail(list)[k] = list[k + 1]
    BY <1>1
  <2>2. obj_type[list[k + 1]] # "CPU"
    BY <1>1, <2>1 DEF TopDown
  <2>3. ASSUME NEW c \in Range(children[list[k + 1]]), obj_type[c] # "CPU"
        PROVE  \E j \in 1 .. Len(list) - 1 : j > k /\ Tail(list)[j] = c
    <3>1. PICK j \in 1 .. Len(list) : j > k + 1 /\ list[j] = c
      BY <1>1, <2>1, <2>3 DEF TopDown
    <3>2. j - 1 \in 1 .. Len(list) - 1 /\ j - 1 > k /\ Tail(list)[j - 1] = c
      BY <1>1, <1>2, <3>1
    <3> QED
      BY <3>2
  <2> QED
    BY <1>1, <2>1, <2>2, <2>3
<1>4. ASSUME NEW c \in Range(children[Head(list)]), obj_type[c] # "CPU"
      PROVE  c \in Range(Tail(list))
  <2>1. PICK j \in 1 .. Len(list) : j > 1 /\ list[j] = c
    BY <1>1, <1>4 DEF TopDown
  <2>2. j - 1 \in DOMAIN Tail(list) /\ Tail(list)[j - 1] = c
    BY <1>1, <1>2, <2>1
  <2> QED
    BY <2>2 DEF Range
<1> QED
  BY <1>1, <1>3, <1>4 DEF TopDown

\* Steps that do not lead into these loops.
NotPushStep ==
    \/ Build \/ ForceAll \/ ClearSlots \/ Parsing \/ Selecting \/ SortRebalance
    \/ PlaceInNode \/ NotPlaced \/ EndDomains \/ Activating \/ RequestRescan

\* None of them does.
LEMMA NotPushFacts == NotPushStep => pc' \notin {"domains", "push"}
<1> USE DEF loopVars, MayTry, AfterStat
<1> DEFINE Out == pc' \notin {"domains", "push"}
<1>1. Build \/ ForceAll \/ ClearSlots \/ StartScan \/ ParseLine \/ LineMismatch => Out
  BY DEF Build, ForceAll, ClearSlots, StartScan, ParseLine, LineMismatch
<1>2. HotplugFails \/ NoMemory \/ EndParse \/ KeepExisting \/ RemoveNoExisting => Out
  BY DEF HotplugFails, NoMemory, EndParse, KeepExisting, RemoveNoExisting
<1>3. ClearBanned \/ ParseProcStat \/ StatFails \/ RequestRescan => Out
  BY DEF ClearBanned, ParseProcStat, StatFails, RequestRescan
<1>4. Gather \/ PassObject \/ OpenObject \/ MoveCandidate \/ KeepCandidate => Out
  BY DEF Gather, PassObject, OpenObject, MoveCandidate, KeepCandidate
<1>5. EndCandidates \/ EnterPowersave \/ EmptyPowersave \/ EndPowersave \/ EndObjects => Out
  BY DEF EndCandidates, EnterPowersave, EmptyPowersave, EndPowersave, EndObjects
<1>6. SortRebalance \/ PlaceInNode \/ NotPlaced \/ EndDomains => Out
  BY DEF SortRebalance, PlaceInNode, NotPlaced, EndDomains
<1>7. SkipActivation \/ AlreadyApplied \/ WriteSucceeds \/ WriteFailsForNow => Out
  BY DEF SkipActivation, AlreadyApplied, WriteSucceeds, WriteFailsForNow
<1>8. WriteFailsForGood \/ NoSpace \/ FallbackSucceeds \/ FallbackFull => Out
  BY DEF WriteFailsForGood, NoSpace, FallbackSucceeds, FallbackFull
<1>9. FallbackRefused \/ GiveUp \/ EndScan => Out
  BY DEF FallbackRefused, GiveUp, EndScan
<1> QED
  BY <1>1, <1>2, <1>3, <1>4, <1>5, <1>6, <1>7, <1>8, <1>9
     DEF NotPushStep, Parsing, Selecting, Activating

\* Pushing one irq down changes no other irq's way.
LEMMA PushDownInv ==
    ASSUME IInv, PowerInv, PlaceInv, PushInv, PushDown
    PROVE  PushInv'
<1>1. TypeOK /\ LoopOK /\ SlotsBounded /\ PhaseOK
  BY DEF IInv
<1> DEFINE i == Head(work)
           d == Head(objs)
<1>2. /\ pc = "push" /\ pc' = "push" /\ work # <<>> /\ work' = Tail(work) /\ objs' = objs
      /\ UNCHANGED <<interrupts_db, level, powersave_mode>>
  BY DEF PushDown, dbVars
<1>3. /\ objs \in Seq(Objects) /\ objs # <<>> /\ slots_left \in [Objects -> Int]
      /\ Range(interrupts_db) \subseteq Irqs
  BY <1>1, <1>2, ListTypes, ObjectFacts DEF TypeOK, LoopOK
<1>4. /\ i \in Irqs /\ Range(work) = Range(Tail(work)) \cup {i}
  BY <1>2, HeadFacts
<1>5. /\ TopDown(objs) /\ d \in Objects /\ obj_type[d] # "CPU" /\ assigned_obj[i] = d
      /\ assigned_obj'[i] \in Range(children[d]) /\ moved[i]
      /\ \A j \in Irqs : j # i =>
            moved'[j] = moved[j] /\ assigned_obj'[j] = assigned_obj[j]
  BY <1>2, <1>3, TopDownTail, ChildChange DEF PushInv, ToChild
<1>6. slots_left[d] = INT_MAX
  <2>1. d \in Reachable
    BY <1>4, <1>5, ObjectFacts DEF PlaceInv
  <2> QED
    BY <1>1, <1>2, <1>5, <2>1 DEF SlotsBounded
<1>7. \A o \in Objects : slots_left'[o] > 0 => slots_left[o] > 0
  <2>1. PICK k \in DOMAIN children[d] : slots_left' = SlotsAfter(d, children[d][k], i)
    BY DEF PushDown, migrate_irq_obj
  <2> QED
    BY <1>3, <1>6, <2>1, IntMaxFacts DEF SlotsAfter
<1>8. \A o \in Objects : Eligible(o)' => Eligible(o)
  BY <1>2, <1>7 DEF Eligible
<1>9. ASSUME NEW o \in Objects, NoneEligible(children[o])
      PROVE  NoneEligible(children[o])'
  <2>1. \A k \in DOMAIN children[o] : children[o][k] \in Objects
    BY TreeAssumption
  <2> QED
    BY <1>8, <1>9, <2>1 DEF NoneEligible
<1>10. ASSUME NEW j \in Range(interrupts_db), moved'[j]
       PROVE  /\ assigned_obj'[j] # NULL
              /\ \/ Reached(j)'
                 \/ assigned_obj'[j] \in Range(Tail(objs))
                 \/ assigned_obj'[j] = d /\ j \in Range(Tail(work))
  <2>1. CASE j = i
    <3>1. assigned_obj'[j] \in Objects
      BY <1>5, <2>1, ObjectFacts
    <3>2. obj_type[assigned_obj'[j]] = "CPU" \/ assigned_obj'[j] \in Range(Tail(objs))
      BY <1>3, <1>5, <2>1, TopDownTail
    <3> QED
      BY <3>1, <3>2, ObjectFacts DEF Reached
  <2>2. CASE j # i
    <3>1. j \in Irqs /\ moved[j] /\ assigned_obj'[j] = assigned_obj[j]
      BY <1>3, <1>5, <1>10, <2>2
    <3>2. /\ assigned_obj[j] # NULL
          /\ \/ Reached(j)
             \/ assigned_obj[j] \in Range(Tail(objs))
             \/ assigned_obj[j] = d /\ j \in Range(work)
      BY <1>2, <3>1 DEF PushInv
    <3>3. assigned_obj[j] \in Objects
      BY <1>1, <3>1, <3>2, ObjectFacts DEF TypeOK
    <3>4. Reached(j) => Reached(j)'
      BY <1>2, <1>9, <3>1, <3>3 DEF Reached, AtItsLevel
    <3> QED
      BY <1>4, <2>2, <3>1, <3>2, <3>4
  <2> QED
    BY <2>1, <2>2
<1> HIDE DEF i, d
<1> QED
  BY <1>2, <1>5, <1>10 DEF PushInv, d

\* Each step of the loops keeps track of the moved irqs.
LEMMA PushNext ==
    ASSUME IInv, Unplaced, PowerInv, PlaceInv, StillToPlace, PushInv, Next
    PROVE  PushInv'
<1>1. TypeOK /\ LoopOK /\ PhaseOK /\ NoIrqLost /\ NoneStays /\ ListsAgree
  BY DEF IInv, ListInv
<1>2. /\ objs \in Seq(Objects) /\ Range(interrupts_db) \subseteq Irqs
      /\ assigned_obj \in [Irqs -> Holders]
  BY <1>1, ListTypes, ObjectFacts DEF TypeOK
<1>3. CASE NotPushStep
  BY <1>3, NotPushFacts DEF PushInv
<1>4. CASE EndPlace
  <2>1. /\ pc = "place" /\ work = <<>> /\ pc' = "domains"
        /\ objs' = numa_nodes \o packages \o cache_domains
        /\ UNCHANGED <<interrupts_db, assigned_obj, moved, level, slots_left, powersave_mode>>
    BY <1>4 DEF EndPlace, dbVars, irqVars, objVars
  <2>2. Range(work) = {}
    BY <2>1 DEF Range
  <2>3. \A i \in Range(interrupts_db) : moved[i] => assigned_obj[i] \in Objects
    BY <1>2, <2>1, <2>2, ObjectFacts DEF StillToPlace
  <2>4. \A i \in Range(interrupts_db) : moved[i] =>
            Reached(i)' \/ assigned_obj'[i] \in Range(objs')
    BY <2>1, <2>3, DomainsTopDown DEF Reached
  <2> QED
    BY <2>1, <2>3, <2>4, DomainsTopDown, ObjectFacts DEF PushInv
<1>5. CASE OpenDomain
  <2>1. /\ pc = "domains" /\ pc' = "push" /\ objs # <<>> /\ objs' = objs
        /\ work' = interrupts[Head(objs)]
        /\ UNCHANGED <<interrupts_db, interrupts, assigned_obj, moved, level, slots_left,
                       powersave_mode>>
    BY <1>5 DEF OpenDomain, dbVars, irqVars, objVars
  <2>2. Range(objs) = {Head(objs)} \cup Range(Tail(objs))
    BY <1>2, <2>1, TailFacts
  <2>3. ASSUME NEW i \in Range(interrupts_db), moved[i], assigned_obj[i] = Head(objs)
        PROVE  i \in Range(work')
    BY <1>1, <2>1, <2>3 DEF NoIrqLost, NoneStays, Pending
  <2>4. \A i \in Range(interrupts_db) : Reached(i)' <=> Reached(i)
    BY <2>1 DEF Reached, AtItsLevel, NoneEligible, Eligible
  <2>5. TopDown(objs) /\ \A i \in Range(interrupts_db) : moved[i] =>
            assigned_obj[i] # NULL /\ (Reached(i) \/ assigned_obj[i] \in Range(objs))
    BY <2>1 DEF PushInv
  <2> QED
    BY <2>1, <2>2, <2>3, <2>4, <2>5 DEF PushInv
<1>6. CASE PushDown
  BY <1>6, PushDownInv
<1>7. CASE StayHere
  <2>1. /\ pc = "push" /\ pc' = "push" /\ work # <<>> /\ work' = Tail(work) /\ objs' = objs
        /\ UNCHANGED <<interrupts_db, assigned_obj, moved, level, slots_left, powersave_mode>>
        /\ \/ ~moved[Head(work)]
           \/ AtItsLevel(Head(work), Head(objs))
           \/ NoneEligible(children[Head(objs)])
    BY <1>7 DEF StayHere, dbVars, irqVars, objVars
  <2>2. /\ Range(work) = Range(Tail(work)) \cup {Head(work)}
    BY <2>1, HeadFacts
  <2>3. \A i \in Range(interrupts_db) : Reached(i)' <=> Reached(i)
    BY <2>1 DEF Reached, AtItsLevel, NoneEligible, Eligible
  <2>4. moved[Head(work)] /\ assigned_obj[Head(work)] = Head(objs) => Reached(Head(work))
    BY <2>1 DEF Reached
  <2>5. TopDown(objs) /\ \A i \in Range(interrupts_db) : moved[i] =>
            /\ assigned_obj[i] # NULL
            /\ \/ Reached(i)
               \/ assigned_obj[i] \in Range(Tail(objs))
               \/ assigned_obj[i] = Head(objs) /\ i \in Range(work)
    BY <2>1 DEF PushInv
  <2> QED
    BY <2>1, <2>2, <2>3, <2>4, <2>5 DEF PushInv
<1>8. CASE CloseDomain
  <2>1. /\ pc = "push" /\ pc' = "domains" /\ work = <<>> /\ objs' = Tail(objs) /\ objs # <<>>
        /\ UNCHANGED <<interrupts_db, assigned_obj, moved, level, slots_left, powersave_mode>>
    BY <1>1, <1>8 DEF CloseDomain, LoopOK, dbVars, irqVars, objVars
  <2>2. Range(work) = {}
    BY <2>1 DEF Range
  <2>3. \A i \in Range(interrupts_db) : Reached(i)' <=> Reached(i)
    BY <2>1 DEF Reached, AtItsLevel, NoneEligible, Eligible
  <2>4. TopDown(objs) /\ \A i \in Range(interrupts_db) : moved[i] =>
            assigned_obj[i] # NULL /\ (Reached(i) \/ assigned_obj[i] \in Range(Tail(objs)))
    BY <2>1, <2>2 DEF PushInv
  <2>5. TopDown(Tail(objs))
    BY <1>2, <2>1, <2>4, TopDownTail
  <2> QED
    BY <2>1, <2>3, <2>4, <2>5 DEF PushInv
<1> QED
  BY <1>3, <1>4, <1>5, <1>6, <1>7, <1>8
     DEF Next, Cycle, Rebuilding, Placing, NotPushStep

-----------------------------------------------------------------------------
(* The placement                                                           *)

\* What the cycle knows about places.
CycleInv == Unplaced /\ PowerInv /\ PlaceInv /\ StillToPlace /\ PushInv

\* It holds while no step is taken.
LEMMA CycleStutter == CycleInv /\ UNCHANGED vars => CycleInv'
<1> SUFFICES ASSUME CycleInv, UNCHANGED vars PROVE CycleInv'
  OBVIOUS
<1>1. UNCHANGED <<pc, objs, work, lb, interrupts_db, assigned_obj, moved, level,
                  slots_left, powersave_mode>>
  BY DEF vars, loopVars, dbVars, irqVars, objVars
<1>2. Unplaced' /\ PowerInv' /\ PlaceInv' /\ StillToPlace'
  BY <1>1 DEF CycleInv, Unplaced, PowerInv, PlaceInv, StillToPlace
<1>3. PushInv'
  BY <1>1 DEF CycleInv, PushInv, Reached, AtItsLevel, NoneEligible, Eligible
<1> QED
  BY <1>2, <1>3 DEF CycleInv

\* The facts about places are inductive together with those about lists.
THEOREM CycleInductive == Spec => []CycleInv
<1>1. Init => CycleInv
  <2> SUFFICES ASSUME Init PROVE CycleInv
    OBVIOUS
  <2>1. /\ pc = "build" /\ \A o \in Objects : ~powersave_mode[o]
        /\ \A i \in Irqs : ~moved[i] /\ assigned_obj[i] = NULL
    BY DEF Init
  <2> QED
    BY <2>1 DEF CycleInv, Unplaced, PowerInv, PlaceInv, StillToPlace, PushInv
<1>2. IInv /\ CycleInv /\ [Next]_vars => CycleInv'
  <2> SUFFICES ASSUME IInv, CycleInv, [Next]_vars PROVE CycleInv'
    OBVIOUS
  <2>1. CASE UNCHANGED vars
    BY <2>1, CycleStutter
  <2>2. CASE Next
    <3>1. Unplaced /\ PowerInv /\ PlaceInv /\ StillToPlace /\ PushInv
      BY DEF CycleInv
    <3>2. Unplaced' /\ PowerInv' /\ PlaceInv' /\ StillToPlace' /\ PushInv'
      BY <2>2, <3>1, UnplacedNext, PowerNext, PlaceNext, StillNext, PushNext
    <3> QED
      BY <3>2 DEF CycleInv
  <2> QED
    BY <2>1, <2>2
<1> QED
  BY <1>1, <1>2, Inductive, PTL DEF Spec

\* On every tree, with every load and whatever the kernel answered before: at the end of
\* calculate_placement a moved irq has a place, and has been pushed down to the level it
\* is balanced at, to a cpu, or to an object none of whose children can take it.
THEOREM PlacementIsComplete == Spec => []PlacementComplete
<1>1. CycleInv => PlacementComplete
  <2> SUFFICES ASSUME CycleInv, pc = "domains", objs = <<>>,
                      NEW i \in Range(interrupts_db), moved[i]
               PROVE  assigned_obj[i] # NULL /\ Reached(i)
    BY DEF PlacementComplete, Reached
  <2>1. Range(objs) = {}
    BY DEF Range
  <2> QED
    BY <2>1 DEF CycleInv, PushInv
<1> QED
  BY <1>1, CycleInductive, PTL

-----------------------------------------------------------------------------
(* Powersave mode and placement                                            *)

\* An irq that may be balanced is on a cpu in powersave mode only while the irqs of that
\* cpu are being forced away.
EmptyInv ==
    /\ pc # "fallback"
    /\ \A i \in Irqs :
          level[i] # "NONE" /\ assigned_obj[i] # NULL /\ powersave_mode[assigned_obj[i]]
              => pc = "powersave" /\ i \in Range(work)

\* Only a structure that is made anew is balanced again.
LEMMA LevelFacts ==
    ASSUME IInv, Next, NEW i \in Irqs, level'[i] # "NONE"
    PROVE  level[i] # "NONE" \/ assigned_obj'[i] = NULL
<1>1. level \in [Irqs -> Levels] /\ assigned_obj \in [Irqs -> Holders]
  BY DEF IInv, TypeOK
<1>2. CASE level' = level
  BY <1>2
<1>3. CASE QuietStep
  BY <1>2, <1>3, QuietFacts DEF Quiet
<1>4. CASE Build
  BY <1>4 DEF Build
<1>5. CASE RemoveNoExisting
  BY <1>1, <1>5 DEF RemoveNoExisting
<1>6. CASE WriteFailsForGood
  BY <1>1, <1>6 DEF WriteFailsForGood
<1>7. CASE ForceAll \/ ClearSlots \/ ParseLine \/ LineMismatch
  BY <1>2, <1>7 DEF ForceAll, ClearSlots, ParseLine, LineMismatch, irqVars
<1>8. CASE OpenObject \/ MoveCandidate \/ EmptyPowersave \/ SortRebalance
  BY <1>2, <1>8 DEF OpenObject, MoveCandidate, EmptyPowersave, SortRebalance
<1>9. CASE PlaceInNode \/ PushDown \/ AlreadyApplied \/ WriteSucceeds
  BY <1>2, <1>9 DEF PlaceInNode, PushDown, AlreadyApplied, WriteSucceeds
<1>10. CASE NoSpace \/ FallbackSucceeds \/ FallbackFull \/ GiveUp
  BY <1>2, <1>10 DEF NoSpace, FallbackSucceeds, FallbackFull, GiveUp, irqVars
<1> QED
  BY <1>3, <1>4, <1>5, <1>6, <1>7, <1>8, <1>9, <1>10
     DEF Next, Cycle, Rebuilding, Parsing, Selecting, Placing, Activating, QuietStep

\* Only EmptyPowersave and EndPowersave are steps of the loop that empties a cpu, and
\* only NoSpace leads to a search for a fallback.
LEMMA LoopSteps ==
    ASSUME Next
    PROVE  /\ pc = "powersave" => EmptyPowersave \/ EndPowersave
           /\ pc' = "fallback" => pc = "fallback" \/ NoSpace
           /\ EnterPowersave \/ \A o \in Objects : powersave_mode'[o] => powersave_mode[o]
<1> DEFINE Fine == /\ pc = "powersave" => EmptyPowersave \/ EndPowersave
                   /\ pc' = "fallback" => pc = "fallback" \/ NoSpace
                   /\ \/ EnterPowersave
                      \/ \A o \in Objects : powersave_mode'[o] => powersave_mode[o]
<1> USE DEF loopVars, objVars, MayTry, AfterStat
<1>1. Build \/ ForceAll \/ ClearSlots \/ StartScan \/ ParseLine \/ LineMismatch => Fine
  BY DEF Build, ForceAll, ClearSlots, StartScan, ParseLine, LineMismatch
<1>2. HotplugFails \/ NoMemory \/ EndParse \/ KeepExisting \/ RemoveNoExisting => Fine
  BY DEF HotplugFails, NoMemory, EndParse, KeepExisting, RemoveNoExisting
<1>3. ClearBanned \/ ParseProcStat \/ StatFails \/ RequestRescan => Fine
  BY DEF ClearBanned, ParseProcStat, StatFails, RequestRescan
<1>4. Gather \/ PassObject \/ OpenObject \/ MoveCandidate \/ KeepCandidate => Fine
  BY DEF Gather, PassObject, OpenObject, MoveCandidate, KeepCandidate
<1>5. EndCandidates \/ EnterPowersave \/ EmptyPowersave \/ EndPowersave \/ EndObjects => Fine
  BY DEF EndCandidates, EnterPowersave, EmptyPowersave, EndPowersave, EndObjects
<1>6. SortRebalance \/ PlaceInNode \/ NotPlaced \/ EndPlace \/ OpenDomain => Fine
  BY DEF SortRebalance, PlaceInNode, NotPlaced, EndPlace, OpenDomain
<1>7. PushDown \/ StayHere \/ CloseDomain \/ EndDomains => Fine
  BY DEF PushDown, StayHere, CloseDomain, EndDomains
<1>8. SkipActivation \/ AlreadyApplied \/ WriteSucceeds \/ WriteFailsForNow => Fine
  BY DEF SkipActivation, AlreadyApplied, WriteSucceeds, WriteFailsForNow
<1>9. WriteFailsForGood \/ NoSpace \/ FallbackSucceeds \/ FallbackFull => Fine
  BY DEF WriteFailsForGood, NoSpace, FallbackSucceeds, FallbackFull
<1>10. FallbackRefused \/ GiveUp \/ EndScan => Fine
  BY DEF FallbackRefused, GiveUp, EndScan
<1> QED
  BY <1>1, <1>2, <1>3, <1>4, <1>5, <1>6, <1>7, <1>8, <1>9, <1>10
     DEF Next, Cycle, Rebuilding, Parsing, Selecting, Placing, Activating

\* A cpu in powersave mode is emptied and stays empty.
LEMMA EmptyNext ==
    ASSUME "enospc" \notin Events, IInv, CycleInv, EmptyInv, Next
    PROVE  EmptyInv'
<1>1. TypeOK /\ NoIrqLost /\ Unplaced /\ PowerInv /\ ListInv /\ Absent
  BY DEF IInv, CycleInv, ListInv
<1>2. /\ powersave_mode \in [Objects -> BOOLEAN] /\ assigned_obj \in [Irqs -> Holders]
  BY <1>1 DEF TypeOK
<1>3. pc' # "fallback"
  BY LoopSteps DEF EmptyInv, NoSpace
<1>4. \A c \in Range(cpus) : obj_type[c] = "CPU"
  BY ListAssumption DEF Range
<1>5. ASSUME NEW i \in Irqs, level'[i] # "NONE", assigned_obj'[i] # NULL,
             powersave_mode'[assigned_obj'[i]]
      PROVE  pc' = "powersave" /\ i \in Range(work')
  <2>1. level[i] # "NONE"
    BY <1>5, LevelFacts
  <2>2. CASE Stays(i)
    <3> DEFINE o == assigned_obj[i]
    <3>1. assigned_obj'[i] = o /\ o \in Objects
      BY <1>2, <1>5, <2>2, ObjectFacts DEF Stays
    <3>2. CASE powersave_mode[o]
      <4>1. pc = "powersave" /\ i \in Range(work)
        BY <1>5, <2>1, <3>1, <3>2 DEF EmptyInv
      <4>2. EmptyPowersave \/ EndPowersave
        BY <4>1, LoopSteps
      <4>3. ~EndPowersave
        BY <4>1 DEF EndPowersave, Range
      <4>4. work # <<>> /\ work' = Tail(work) /\ pc' = pc
        BY <4>2, <4>3 DEF EmptyPowersave
      <4>5. i # Head(work)
        BY <1>5, <2>1, <4>2, <4>3, WithdrawChange
      <4> QED
        BY <4>1, <4>4, <4>5, HeadFacts
    <3>3. CASE ~powersave_mode[o]
      <4>1. EnterPowersave
        BY <1>5, <3>1, <3>3, LoopSteps
      <4>2. /\ pc = "objects" /\ pc' = "powersave" /\ work' = interrupts[lb.powersave]
            /\ powersave_mode' = [powersave_mode EXCEPT ![lb.powersave] = TRUE]
        BY <4>1 DEF EnterPowersave
      <4>3. o = lb.powersave
        BY <1>2, <1>5, <3>1, <3>3, <4>2
      <4>4. i \in Range(interrupts_db)
        BY <1>1, <1>5, <3>1 DEF Absent
      <4>5. i \in Range(interrupts[o])
        BY <1>1, <2>1, <4>2, <4>4 DEF NoIrqLost, Pending
      <4> QED
        BY <4>2, <4>3, <4>5
    <3> QED
      BY <3>2, <3>3
  <2>3. CASE ToNode(i)
    <3>1. PlaceInNode /\ assigned_obj'[i] \in Range(numa_nodes)
      BY <2>3 DEF ToNode
    <3>2. assigned_obj'[i] \in Objects /\ obj_type[assigned_obj'[i]] = "NODE"
      BY <3>1, LayerAssumption, ObjectFacts
    <3>3. powersave_mode[assigned_obj'[i]]
      BY <1>5, <3>1 DEF PlaceInNode
    <3> QED
      BY <1>1, <1>4, <3>2, <3>3 DEF PowerInv
  <2>4. CASE ToChild(i)
    <3>1. PushDown /\ ~powersave_mode[assigned_obj'[i]]
      BY <2>4 DEF ToChild, Eligible
    <3> QED
      BY <1>5, <3>1 DEF PushDown
  <2>5. CASE ToFallback(i)
    BY <2>5 DEF ToFallback, FallbackSucceeds, MayTry, EmptyInv
  <2> QED
    BY <1>1, <2>2, <2>3, <2>4, <2>5, EveryChange
<1> QED
  BY <1>3, <1>5 DEF EmptyInv

\* As long as no cpu runs out of vectors, update_migration_status empties a cpu that
\* enters powersave mode and placement never picks it.  (is_valid_fallback does not ask
\* for powersave mode: try_fallback_cpu may wake such a cpu.)
THEOREM PowersaveStaysEmpty ==
    "enospc" \notin Events => (Spec => []PowersaveEmpty)
<1>1. Init => EmptyInv
  BY DEF Init, EmptyInv
<1>2. ASSUME "enospc" \notin Events
      PROVE  IInv /\ CycleInv /\ EmptyInv /\ [Next]_vars => EmptyInv'
  <2> SUFFICES ASSUME IInv, CycleInv, EmptyInv, [Next]_vars PROVE EmptyInv'
    OBVIOUS
  <2>1. CASE UNCHANGED vars
    BY <2>1 DEF EmptyInv, vars, loopVars, irqVars, objVars
  <2> QED
    BY <1>2, <2>1, EmptyNext
<1>3. IInv /\ EmptyInv => PowersaveEmpty
  <2> SUFFICES ASSUME IInv, EmptyInv, pc = "idle", NEW c \in Range(cpus), powersave_mode[c],
                      NEW i \in Range(interrupts[c])
               PROVE  level[i] = "NONE"
    BY DEF PowersaveEmpty
  <2>1. TypeOK /\ ListsAgree /\ c \in Holders /\ c # NULL
    BY ObjectFacts DEF IInv, ListInv
  <2>2. i \in Irqs /\ assigned_obj[i] = c
    BY <2>1, ListTypes DEF ListsAgree
  <2> QED
    BY <2>1, <2>2 DEF EmptyInv
<1>4. CASE "enospc" \notin Events
  <2>1. IInv /\ CycleInv /\ EmptyInv /\ [Next]_vars => EmptyInv'
    BY <1>2, <1>4
  <2> QED
    BY <1>1, <1>3, <2>1, Inductive, CycleInductive, PTL DEF Spec
<1> QED
  BY <1>4

-----------------------------------------------------------------------------
(* Banned cpus                                                             *)

\* An irq is on a node only while it is on its way down.
OffNodes ==
    \A i \in Irqs :
        assigned_obj[i] # NULL /\ obj_type[assigned_obj[i]] = "NODE" =>
            moved[i] /\ pc \in {"place", "domains", "push"}

\* The steps of calculate_placement forget no move.
LEMMA PlacingSteps ==
    ASSUME IInv, Unplaced, Next, pc \in {"place", "domains", "push"}, NEW i \in Irqs, moved[i]
    PROVE  \/ EndDomains /\ UNCHANGED <<moved, assigned_obj>>
           \/ moved'[i] /\ pc' \in {"place", "domains", "push"}
<1> USE DEF loopVars, MayTry
<1>1. ~(Build \/ ForceAll \/ ClearSlots \/ StartScan \/ ParseLine \/ LineMismatch)
  BY DEF Build, ForceAll, ClearSlots, StartScan, ParseLine, LineMismatch
<1>2. ~(HotplugFails \/ NoMemory \/ EndParse \/ KeepExisting \/ RemoveNoExisting)
  BY DEF HotplugFails, NoMemory, EndParse, KeepExisting, RemoveNoExisting
<1>3. ~(ClearBanned \/ ParseProcStat \/ StatFails \/ RequestRescan)
  BY DEF ClearBanned, ParseProcStat, StatFails, RequestRescan
<1>4. ~(Gather \/ PassObject \/ OpenObject \/ MoveCandidate \/ KeepCandidate)
  BY DEF Gather, PassObject, OpenObject, MoveCandidate, KeepCandidate
<1>5. ~(EndCandidates \/ EnterPowersave \/ EmptyPowersave \/ EndPowersave \/ EndObjects)
  BY DEF EndCandidates, EnterPowersave, EmptyPowersave, EndPowersave, EndObjects
<1>6. ~(SortRebalance \/ SkipActivation \/ AlreadyApplied \/ WriteSucceeds)
  BY DEF SortRebalance, SkipActivation, AlreadyApplied, WriteSucceeds
<1>7. ~(WriteFailsForNow \/ WriteFailsForGood \/ NoSpace \/ FallbackSucceeds)
  BY DEF WriteFailsForNow, WriteFailsForGood, NoSpace, FallbackSucceeds
<1>8. ~(FallbackFull \/ FallbackRefused \/ GiveUp \/ EndScan)
  BY DEF FallbackFull, FallbackRefused, GiveUp, EndScan
<1>9. CASE NotPlaced \/ EndPlace \/ OpenDomain \/ StayHere \/ CloseDomain
  BY <1>9 DEF NotPlaced, EndPlace, OpenDomain, StayHere, CloseDomain, irqVars
<1>10. CASE PlaceInNode
  <2>1. pc' = pc
    BY <1>10 DEF PlaceInNode
  <2> QED
    BY <1>10, <2>1, NodeChange DEF ToNode
<1>11. CASE PushDown
  <2>1. pc' = pc
    BY <1>11 DEF PushDown
  <2> QED
    BY <1>11, <2>1, ChildChange
<1>12. CASE EndDomains
  BY <1>12 DEF EndDomains, irqVars
<1> QED
  BY <1>1, <1>2, <1>3, <1>4, <1>5, <1>6, <1>7, <1>8, <1>9, <1>10, <1>11, <1>12
     DEF Next, Cycle, Rebuilding, Parsing, Selecting, Placing, Activating

\* When calculate_placement ends, no irq is left on a node.
LEMMA OffNodesNext ==
    ASSUME CleanTree, IInv, CycleInv, OffNodes, Next
    PROVE  OffNodes'
<1>1. TypeOK /\ Unplaced /\ PowerInv /\ PlaceInv /\ PushInv /\ NoneStays /\ Absent
  BY DEF IInv, CycleInv, ListInv
<1>2. assigned_obj \in [Irqs -> Holders]
  BY <1>1 DEF TypeOK
<1> SUFFICES ASSUME NEW i \in Irqs, assigned_obj'[i] # NULL,
                    obj_type[assigned_obj'[i]] = "NODE"
             PROVE  moved'[i] /\ pc' \in {"place", "domains", "push"}
  BY DEF OffNodes
<1>3. CASE Stays(i)
  <2> DEFINE n == assigned_obj[i]
  <2>1. assigned_obj'[i] = n /\ n \in Objects /\ n # NULL /\ obj_type[n] = "NODE"
    BY <1>2, <1>3, ObjectFacts DEF Stays
  <2>2. moved[i] /\ pc \in {"place", "domains", "push"}
    BY <2>1 DEF OffNodes
  <2>3. ~EndDomains
    <3> SUFFICES ASSUME EndDomains PROVE FALSE
      OBVIOUS
    <3>1. pc = "domains" /\ objs = <<>> /\ Range(objs) = {}
      BY DEF EndDomains, Range
    <3>2. i \in Range(interrupts_db)
      BY <1>1, <2>2 DEF Absent
    <3>3. Reached(i)
      BY <1>1, <2>2, <3>1, <3>2 DEF PushInv
    <3>4. ~AtItsLevel(i, n)
      BY <1>1, <2>1, <2>2, <3>2 DEF AtItsLevel, NoneStays
    <3>5. NoneEligible(children[n])
      BY <2>1, <3>3, <3>4 DEF Reached
    <3>6. Usable(n) /\ n \in Range(numa_nodes) /\ n \in Reachable
      BY <1>1, <2>1, LayerAssumption, ReachClosed DEF PlaceInv
    <3>7. PICK c \in Range(children[n]) : obj_type[c] # "CPU"
      BY <3>6 DEF CleanTree
    <3>8. c \in Objects /\ c \in Reachable /\ obj_type[c] # "NODE"
      <4>1. c \in Objects /\ Rank(obj_type[c]) < Rank(obj_type[n]) /\ Rank(obj_type[n]) = 3
        BY <2>1, <3>7, RankFacts
      <4>2. obj_type[c] # "NODE"
        BY <4>1, RankFacts
      <4> QED
        BY <3>6, <3>7, <4>1, <4>2, ReachClosed
    <3>9. Eligible(c)
      BY <1>1, <3>1, <3>7, <3>8, NodesEligible
    <3> QED
      BY <3>5, <3>7, <3>9 DEF NoneEligible, Range
  <2> QED
    BY <1>1, <2>2, <2>3, PlacingSteps
<1>4. CASE ToNode(i)
  BY <1>4 DEF ToNode, PlaceInNode
<1>5. CASE ToChild(i)
  <2>1. Head(objs) \in Objects /\ assigned_obj'[i] \in Range(children[Head(objs)])
    BY <1>5, ChildChange DEF ToChild
  <2> QED
    BY <2>1, RankFacts
<1>6. CASE ToFallback(i)
  BY <1>6 DEF ToFallback, Fallbacks, is_valid_fallback
<1> QED
  BY <1>1, <1>3, <1>4, <1>5, <1>6, EveryChange

\* Only a write that succeeds changes an affinity.
LEMMA AffinityFacts ==
    ASSUME Next, ~WriteSucceeds, ~FallbackSucceeds
    PROVE  smp_affinity' = smp_affinity
<1>1. CASE QuietStep
  BY <1>1, QuietFacts DEF Quiet
<1>2. CASE Build \/ ForceAll \/ ClearSlots \/ ParseLine \/ LineMismatch \/ RemoveNoExisting
  BY <1>2 DEF Build, ForceAll, ClearSlots, ParseLine, LineMismatch, RemoveNoExisting
<1>3. CASE OpenObject \/ MoveCandidate \/ EmptyPowersave \/ SortRebalance \/ PlaceInNode
  BY <1>3 DEF OpenObject, MoveCandidate, EmptyPowersave, SortRebalance, PlaceInNode
<1>4. CASE PushDown \/ AlreadyApplied \/ WriteFailsForGood \/ NoSpace \/ FallbackFull
            \/ GiveUp
  BY <1>4 DEF PushDown, AlreadyApplied, WriteFailsForGood, NoSpace, FallbackFull, GiveUp
<1> QED
  BY <1>1, <1>2, <1>3, <1>4
     DEF Next, Cycle, Rebuilding, Parsing, Selecting, Placing, Activating, QuietStep

\* On a clean tree no irq is ever told to go to a banned cpu, or nowhere.
THEOREM BannedCpusNeverWritten == CleanTree => (Spec => BannedCpusSpared)
<1>1. Init => OffNodes
  BY DEF Init, OffNodes
<1>2. ASSUME CleanTree
      PROVE  IInv /\ CycleInv /\ OffNodes /\ [Next]_vars => OffNodes'
  <2> SUFFICES ASSUME IInv, CycleInv, OffNodes, [Next]_vars PROVE OffNodes'
    OBVIOUS
  <2>1. CASE UNCHANGED vars
    BY <2>1 DEF OffNodes, vars, loopVars, irqVars
  <2> QED
    BY <1>2, <2>1, OffNodesNext
<1> DEFINE Spared == \A i \in Irqs : smp_affinity'[i] # smp_affinity[i] =>
                        smp_affinity'[i] # {} /\ smp_affinity'[i] \cap banned_cpus = {}
<1>3. ASSUME CleanTree
      PROVE  IInv /\ OffNodes /\ [Next]_vars => [Spared]_vars
  <2> SUFFICES ASSUME IInv, OffNodes, Next, NEW i \in Irqs,
                      smp_affinity'[i] # smp_affinity[i]
               PROVE  smp_affinity'[i] # {} /\ smp_affinity'[i] \cap banned_cpus = {}
    OBVIOUS
  <2>1. TypeOK
    BY DEF IInv
  <2>2. /\ smp_affinity \in [Irqs -> SUBSET CpuIds] /\ assigned_obj \in [Irqs -> Holders]
    BY <2>1 DEF TypeOK
  <2>3. \A o \in Objects : obj_type[o] # "NODE" =>
            AppliedMask(o) # {} /\ AppliedMask(o) \cap banned_cpus = {}
    BY <1>3 DEF CleanTree, AppliedMask
  <2>4. CASE WriteSucceeds
    <3>1. /\ pc = "activate" /\ moved[Head(work)] /\ assigned_obj[Head(work)] # NULL
          /\ work # <<>>
          /\ smp_affinity' = [smp_affinity EXCEPT
                 ![Head(work)] = AppliedMask(assigned_obj[Head(work)])]
      BY <2>4 DEF WriteSucceeds, Writes, ToActivate
    <3>2. i = Head(work) /\ smp_affinity'[i] = AppliedMask(assigned_obj[i])
      BY <2>2, <3>1
    <3>3. assigned_obj[i] \in Objects /\ obj_type[assigned_obj[i]] # "NODE"
      BY <2>2, <3>1, <3>2, ObjectFacts DEF OffNodes
    <3> QED
      BY <2>3, <3>2, <3>3
  <2>5. CASE FallbackSucceeds
    <3>1. /\ assigned_obj'[Head(work)] \in Objects
          /\ obj_type[assigned_obj'[Head(work)]] = "CPU"
          /\ smp_affinity' = [smp_affinity EXCEPT
                 ![Head(work)] = AppliedMask(assigned_obj'[Head(work)])]
      BY <2>5, FallbackChange DEF ToFallback, Fallbacks, is_valid_fallback
    <3>2. i = Head(work) /\ smp_affinity'[i] = AppliedMask(assigned_obj'[i])
      BY <2>2, <3>1
    <3> QED
      BY <2>3, <3>1, <3>2
  <2> QED
    BY <2>4, <2>5, AffinityFacts
<1>4. CASE CleanTree
  <2>1. IInv /\ CycleInv /\ OffNodes /\ [Next]_vars => OffNodes'
    BY <1>2, <1>4
  <2>2. IInv /\ OffNodes /\ [Next]_vars => [Spared]_vars
    BY <1>3, <1>4
  <2> QED
    BY <1>1, <2>1, <2>2, Inductive, CycleInductive, PTL DEF Spec, BannedCpusSpared
<1> QED
  BY <1>4

-----------------------------------------------------------------------------
(* NUMA nodes                                                              *)

\* What is below a node, all the way down.
LEMMA BelowClosed ==
    ASSUME NEW n \in Objects
    PROVE  /\ n \in Below(n) /\ Below(n) \subseteq Objects
           /\ \A o \in Below(n) : \A c \in Range(children[o]) : c \in Below(n)
           /\ \A c \in Below(n) : c = n \/ \E o \in Below(n) : c \in Range(children[o])
<1> DEFINE p == Range(children[n])
           q == ChildSet(p)
           u == ChildSet(q)
<1>1. p \subseteq Objects /\ \A o \in p : Rank(obj_type[o]) <= 1 + 1
  BY RankFacts
<1>2. q \subseteq Objects /\ \A o \in q : Rank(obj_type[o]) <= 0 + 1
  BY <1>1, ChildRank
<1>3. u \subseteq Objects /\ \A o \in u : Rank(obj_type[o]) <= 0
  BY <1>2, ChildRank
<1>4. Below(n) = {n} \cup p \cup q \cup u
  BY DEF Below
<1>5. \A o \in u : \A c \in Range(children[o]) : FALSE
  BY <1>3, RankFacts
<1>6. /\ \A o \in p : Range(children[o]) \subseteq q
      /\ \A c \in q : \E o \in p : c \in Range(children[o])
  BY DEF ChildSet
<1>7. /\ \A o \in q : Range(children[o]) \subseteq u
      /\ \A c \in u : \E o \in q : c \in Range(children[o])
  BY DEF ChildSet
<1>8. \A c \in p : c \in Range(children[n])
  OBVIOUS
<1>9. Range(children[n]) \subseteq p
  OBVIOUS
<1> HIDE DEF p, q, u
<1> QED
  BY <1>1, <1>2, <1>3, <1>4, <1>5, <1>6, <1>7, <1>8, <1>9

\* The depth-first walk of find_best_cpu_under_obj is well defined: the tree is at most
\* four levels deep.
LEMMA WalkDefined ==
    \A o \in Objects :
        CpusUnder[o] = IF obj_type[o] = "CPU" THEN <<o>>
                       ELSE FlattenSeq([k \in DOMAIN children[o] |->
                                           CpusUnder[children[o][k]]])
<1> DEFINE Walk(g) == [o \in Objects |->
                          IF obj_type[o] = "CPU" THEN <<o>>
                          ELSE FlattenSeq([k \in DOMAIN children[o] |-> g[children[o][k]]])]
           Agree(g, h, r) == \A o \in Objects : Rank(obj_type[o]) < r => g[o] = h[o]
<1>1. ASSUME NEW g, NEW h, NEW r \in Nat, Agree(g, h, r)
      PROVE  Agree(Walk(g), Walk(h), r + 1)
  <2> SUFFICES ASSUME NEW o \in Objects, Rank(obj_type[o]) < r + 1
               PROVE  Walk(g)[o] = Walk(h)[o]
    OBVIOUS
  <2>1. ASSUME NEW k \in DOMAIN children[o]
        PROVE  g[children[o][k]] = h[children[o][k]]
    <3>1. children[o][k] \in Range(children[o])
      BY DEF Range
    <3>2. children[o][k] \in Objects /\ Rank(obj_type[children[o][k]]) < r
      BY <3>1, RankFacts
    <3> QED
      BY <1>1, <3>2
  <2>2. [k \in DOMAIN children[o] |-> g[children[o][k]]]
          = [k \in DOMAIN children[o] |-> h[children[o][k]]]
    BY <2>1
  <2> QED
    BY <2>2
<1> DEFINE g0 == [o \in Objects |-> <<>>]
           g1 == Walk(g0)
           g2 == Walk(g1)
           g3 == Walk(g2)
           g4 == Walk(g3)
<1>2. Agree(g0, g1, 0)
  BY RankFacts
<1>3. g4 = [o \in Objects |-> g4[o]] /\ Walk(g4) = [o \in Objects |-> Walk(g4)[o]]
  OBVIOUS
<1> HIDE DEF Agree, Walk, g0
<1>4. Agree(g1, g2, 1)
  BY <1>1, <1>2
<1> HIDE DEF g1
<1>5. Agree(g2, g3, 2)
  BY <1>1, <1>4
<1> HIDE DEF g2
<1>6. Agree(g3, g4, 3)
  BY <1>1, <1>5
<1> HIDE DEF g3
<1>7. Agree(g4, Walk(g4), 4)
  BY <1>1, <1>6
<1> HIDE DEF g4
<1>8. g4 = Walk(g4)
  <2>1. \A o \in Objects : g4[o] = Walk(g4)[o]
    BY <1>7, RankFacts DEF Agree
  <2> QED
    BY <1>3, <2>1
<1>9. CpusUnder = CHOOSE g : g = Walk(g)
  BY DEF CpusUnder, Walk
<1>10. CpusUnder = Walk(CpusUnder)
  <2>1. \E g : g = Walk(g)
    BY <1>8
  <2> QED
    BY <1>9, <2>1
<1>11. \A o \in Objects : Walk(CpusUnder)[o] =
          IF obj_type[o] = "CPU" THEN <<o>>
          ELSE FlattenSeq([k \in DOMAIN children[o] |-> CpusUnder[children[o][k]]])
  BY DEF Walk
<1> QED
  BY <1>10, <1>11

\* The walk does not leave a part of the tree that is closed downwards.
LEMMA WalkStays ==
    ASSUME NEW B \in SUBSET Objects, \A o \in B : Range(children[o]) \subseteq B
    PROVE  \A o \in B : Range(CpusUnder[o]) \subseteq B
<1> DEFINE T == { r \in Nat : \A o \in B : Rank(obj_type[o]) <= r => CpusUnder[o] \in Seq(B) }
<1>1. 0 \in T
  <2> SUFFICES ASSUME NEW o \in B, Rank(obj_type[o]) <= 0 PROVE CpusUnder[o] \in Seq(B)
    OBVIOUS
  <2>1. obj_type[o] = "CPU"
    BY RankFacts
  <2>2. CpusUnder[o] = <<o>>
    BY <2>1, WalkDefined
  <2> QED
    BY <2>2
<1>2. ASSUME NEW r \in Nat, r \in T
      PROVE  r + 1 \in T
  <2> SUFFICES ASSUME NEW o \in B, Rank(obj_type[o]) <= r + 1
               PROVE  CpusUnder[o] \in Seq(B)
    OBVIOUS
  <2>1. CASE obj_type[o] = "CPU"
    <3>1. CpusUnder[o] = <<o>>
      BY <2>1, WalkDefined
    <3> QED
      BY <3>1
  <2>2. CASE obj_type[o] # "CPU"
    <3> DEFINE ss == [k \in DOMAIN children[o] |-> CpusUnder[children[o][k]]]
    <3>1. ASSUME NEW k \in DOMAIN children[o]
          PROVE  CpusUnder[children[o][k]] \in Seq(B)
      <4>1. children[o][k] \in Range(children[o])
        BY DEF Range
      <4>2. children[o][k] \in B /\ Rank(obj_type[children[o][k]]) <= r
        BY <4>1, RankFacts
      <4> QED
        BY <1>2, <4>2
    <3>2. /\ children[o] \in Seq(Objects)
      BY TreeAssumption
    <3>3. ss \in Seq(Seq(B))
      BY <3>1, <3>2
    <3>4. CpusUnder[o] = FlattenSeq(ss)
      BY <2>2, WalkDefined
    <3> HIDE DEF ss
    <3> QED
      BY <3>3, <3>4, FlattenFacts
  <2> QED
    BY <2>1, <2>2
<1>3. Nat \subseteq T
  <2> HIDE DEF T
  <2> QED
    BY <1>1, <1>2, SetInduction
<1> SUFFICES ASSUME NEW o \in B PROVE Range(CpusUnder[o]) \subseteq B
  OBVIOUS
<1>4. Rank(obj_type[o]) \in Nat
  BY RankFacts
<1>5. CpusUnder[o] \in Seq(B)
  BY <1>3, <1>4
<1> QED
  BY <1>5 DEF Range

\* The parent walk of try_fallback_cpu does not leave the node, if it finds anything.
LEMMA AncestorStays ==
    ASSUME Mirrored, NEW n \in Objects, obj_type[n] = "NODE", NEW o \in Below(n), o # n,
           NEW type \in {"PACKAGE", "CACHE"}
    PROVE  Ancestor(o, type) \in Below(n) \cup {NULL}
<1> DEFINE Up(g) == [p \in Holders |->
                        IF p = NULL \/ obj_type[p] = type THEN p ELSE g[parent[p]]]
           Agree(g, h, r) == /\ g[NULL] = h[NULL]
                             /\ \A p \in Objects : Rank(obj_type[p]) >= r => g[p] = h[p]
<1>1. /\ \A p \in Objects : parent[p] = NULL \/
            (parent[p] \in Objects /\ Rank(obj_type[p]) + 1 <= Rank(obj_type[parent[p]]))
      /\ \A p \in Objects : Rank(obj_type[p]) \in 0 .. 3
  <2> SUFFICES ASSUME NEW p \in Objects, parent[p] # NULL
               PROVE  /\ parent[p] \in Objects
                      /\ Rank(obj_type[p]) + 1 <= Rank(obj_type[parent[p]])
    BY RankFacts
  <2>1. parent[p] \in Objects
    BY TreeAssumption
  <2>2. p \in Range(children[parent[p]])
    BY <2>1 DEF Mirrored
  <2> QED
    BY <2>1, <2>2, RankFacts
<1>2. ASSUME NEW g, NEW h, NEW r \in Nat, Agree(g, h, r + 1)
      PROVE  Agree(Up(g), Up(h), r)
  <2>1. Up(g)[NULL] = Up(h)[NULL]
    BY ObjectFacts
  <2>2. ASSUME NEW p \in Objects, Rank(obj_type[p]) >= r
        PROVE  g[parent[p]] = h[parent[p]]
    BY <1>1, <1>2, <2>2
  <2>3. ASSUME NEW p \in Objects, Rank(obj_type[p]) >= r
        PROVE  Up(g)[p] = Up(h)[p]
    BY <2>2, <2>3, ObjectFacts
  <2> QED
    BY <2>1, <2>3
<1> DEFINE g0 == [p \in Holders |-> NULL]
           g1 == Up(g0)
           g2 == Up(g1)
           g3 == Up(g2)
           g4 == Up(g3)
<1>3. Agree(g0, g1, 3 + 1)
  BY <1>1, ObjectFacts
<1>4. g4 = [p \in Holders |-> g4[p]] /\ Up(g4) = [p \in Holders |-> Up(g4)[p]]
  OBVIOUS
<1> HIDE DEF Agree, Up, g0
<1>5. Agree(g1, g2, 3)
  BY <1>2, <1>3
<1> HIDE DEF g1
<1>6. Agree(g2, g3, 2)
  BY <1>2, <1>5
<1> HIDE DEF g2
<1>7. Agree(g3, g4, 1)
  BY <1>2, <1>6
<1> HIDE DEF g3
<1>8. Agree(g4, Up(g4), 0)
  BY <1>2, <1>7
<1> HIDE DEF g4
<1>9. g4 = Up(g4)
  <2>1. \A p \in Holders : g4[p] = Up(g4)[p]
    BY <1>1, <1>8, ObjectFacts DEF Agree
  <2> QED
    BY <1>4, <2>1
<1> DEFINE up == CHOOSE g : g = Up(g)
<1>10. Ancestor(o, type) = up[parent[o]]
  BY DEF Ancestor, Up
<1>11. up = Up(up)
  <2>1. \E g : g = Up(g)
    BY <1>9
  <2> QED
    BY <2>1
<1> HIDE DEF up
<1>12. \A p \in Holders :
          up[p] = IF p = NULL \/ obj_type[p] = type THEN p ELSE up[parent[p]]
  BY <1>11 DEF Up
<1>13. /\ n \in Objects /\ parent[n] = NULL /\ Below(n) \subseteq Objects
       /\ \A p \in Below(n) : p = n \/ parent[p] \in Below(n)
  <2>1. parent[n] = NULL
    BY <1>1, RankFacts
  <2>2. ASSUME NEW p \in Below(n), p # n
        PROVE  parent[p] \in Below(n)
    <3>1. PICK b \in Below(n) : p \in Range(children[b])
      BY <2>2, BelowClosed
    <3> QED
      BY <2>2, <3>1, BelowClosed DEF Mirrored
  <2> QED
    BY <2>1, <2>2, BelowClosed
<1> DEFINE Fine(p) == up[p] \in Below(n) \cup {NULL}
<1>14. Fine(NULL)
  BY <1>12, ObjectFacts
<1>15. ASSUME NEW r \in Nat, \A p \in Below(n) : Rank(obj_type[p]) >= r + 1 => Fine(p)
       PROVE  \A p \in Below(n) : Rank(obj_type[p]) >= r => Fine(p)
  <2> SUFFICES ASSUME NEW p \in Below(n), Rank(obj_type[p]) >= r PROVE Fine(p)
    OBVIOUS
  <2>1. p \in Holders /\ p \in Objects /\ p # NULL
    BY <1>13, ObjectFacts
  <2>2. CASE obj_type[p] = type
    BY <1>12, <2>1, <2>2
  <2>3. CASE obj_type[p] # type
    <3>1. up[p] = up[parent[p]]
      BY <1>12, <2>1, <2>3
    <3>2. parent[p] = NULL \/ (parent[p] \in Below(n) /\ Rank(obj_type[parent[p]]) >= r + 1)
      BY <1>1, <1>13, <2>1
    <3>3. Fine(parent[p])
      <4> HIDE DEF Fine
      <4> QED
        BY <1>14, <1>15, <3>2
    <3> QED
      BY <3>1, <3>3
  <2> QED
    BY <2>2, <2>3
<1>16. \A p \in Below(n) : Rank(obj_type[p]) >= 3 + 1 => Fine(p)
  BY <1>1, <1>13
<1> HIDE DEF Fine
<1>17. \A p \in Below(n) : Rank(obj_type[p]) >= 2 + 1 => Fine(p)
  BY <1>15, <1>16
<1>18. \A p \in Below(n) : Rank(obj_type[p]) >= 1 + 1 => Fine(p)
  BY <1>15, <1>17
<1>19. \A p \in Below(n) : Rank(obj_type[p]) >= 0 + 1 => Fine(p)
  BY <1>15, <1>18
<1>20. \A p \in Below(n) : Rank(obj_type[p]) >= 0 => Fine(p)
  BY <1>15, <1>19
<1>21. Fine(parent[o])
  BY <1>1, <1>13, <1>20
<1> QED
  BY <1>10, <1>21 DEF Fine

\* An irq with a node of its own is on it or below it, whichever list it is on.
NumaInv ==
    \A i \in Irqs :
        /\ numa_node[i] # NoNode
        /\ mask[numa_node[i]] \cap unbanned_cpus # {}
        /\ assigned_obj[i] # NULL
        => assigned_obj[i] \in Below(numa_node[i])

\* The cpus try_fallback_cpu looks at are on the node too.
LEMMA FallbackLocal ==
    ASSUME Mirrored, IInv, NEW i \in Irqs, NEW n \in Objects, obj_type[n] = "NODE",
           assigned_obj[i] \in Below(n)
    PROVE  Fallbacks(i) \subseteq Below(n)
<1> DEFINE o == assigned_obj[i]
<1>1. level[i] \in Levels /\ NULL \notin Objects
  BY NullAssumption DEF IInv, TypeOK
<1>2. Below(n) \subseteq Objects /\ \A b \in Below(n) : Range(children[b]) \subseteq Below(n)
  BY BelowClosed
<1>3. \A b \in Below(n) : Range(CpusUnder[b]) \subseteq Below(n)
  BY <1>2, WalkStays
<1>4. FallbackScope(i) \in Below(n) \cup {NULL}
  <2>1. CASE level[i] \in {"CORE", "NONE"}
    BY <2>1 DEF FallbackScope
  <2>2. CASE level[i] \notin {"CORE", "NONE"} /\ obj_type[o] # "CPU"
    BY <2>2 DEF FallbackScope
  <2>3. CASE level[i] \notin {"CORE", "NONE"} /\ obj_type[o] = "CPU"
    <3>1. level[i] \in {"PACKAGE", "CACHE"} /\ o # n
      BY <1>1, <2>3 DEF Levels
    <3>2. Ancestor(o, level[i]) \in Below(n) \cup {NULL}
      BY <3>1, AncestorStays
    <3> QED
      BY <2>3, <3>2 DEF FallbackScope
  <2> QED
    BY <2>1, <2>2, <2>3
<1> QED
  BY <1>3, <1>4 DEF Fallbacks

\* No step takes an irq off its node.
LEMMA NumaNext ==
    ASSUME Mirrored, IInv, Unplaced, NumaInv, Next
    PROVE  NumaInv'
<1> SUFFICES ASSUME NEW i \in Irqs, numa_node[i] # NoNode,
                    mask[numa_node[i]] \cap unbanned_cpus # {}, assigned_obj'[i] # NULL
             PROVE  assigned_obj'[i] \in Below(numa_node[i])
  BY DEF NumaInv
<1> DEFINE n == numa_node[i]
<1>1. n \in Objects /\ obj_type[n] = "NODE"
  BY PolicyAssumption, LayerAssumption, ObjectFacts
<1>2. n \in Below(n) /\ \A o \in Below(n) : Range(children[o]) \subseteq Below(n)
  BY <1>1, BelowClosed
<1>3. assigned_obj[i] # NULL => assigned_obj[i] \in Below(n)
  BY DEF NumaInv
<1>4. CASE Stays(i)
  BY <1>3, <1>4 DEF Stays
<1>5. CASE ToNode(i)
  BY <1>2, <1>5 DEF ToNode, HasNode
<1>6. CASE ToChild(i)
  <2>1. Head(objs) \in Objects /\ assigned_obj[i] = Head(objs)
    BY <1>6, ChildChange DEF ToChild
  <2>2. Head(objs) \in Below(n)
    BY <1>3, <2>1, ObjectFacts
  <2> QED
    BY <1>2, <1>6, <2>2 DEF ToChild
<1>7. CASE ToFallback(i)
  BY <1>1, <1>3, <1>7, FallbackLocal DEF ToFallback
<1> QED
  BY <1>4, <1>5, <1>6, <1>7, EveryChange

\* An irq of a device with a NUMA node of its own is never placed anywhere else: not by
\* place_irq_in_node, not on the way down, and not by try_fallback_cpu when a cpu runs out
\* of vectors.
THEOREM NumaAlwaysLocal == Mirrored => (Spec => []NumaLocal)
<1>1. Init => NumaInv
  BY DEF Init, NumaInv
<1>2. ASSUME Mirrored
      PROVE  IInv /\ CycleInv /\ NumaInv /\ [Next]_vars => NumaInv'
  <2> SUFFICES ASSUME IInv, CycleInv, NumaInv, [Next]_vars PROVE NumaInv'
    OBVIOUS
  <2>1. CASE UNCHANGED vars
    BY <2>1 DEF NumaInv, vars, irqVars
  <2> QED
    BY <1>2, <2>1, NumaNext DEF CycleInv
<1>3. IInv /\ NumaInv => NumaLocal
  <2> SUFFICES ASSUME IInv, NumaInv PROVE NumaLocal
    OBVIOUS
  <2>1. Range(interrupts_db) \subseteq Irqs
    BY ListTypes, ObjectFacts DEF IInv
  <2> QED
    BY <2>1 DEF NumaInv, NumaLocal
<1>4. CASE Mirrored
  <2>1. IInv /\ CycleInv /\ NumaInv /\ [Next]_vars => NumaInv'
    BY <1>2, <1>4
  <2> QED
    BY <1>1, <1>3, <2>1, Inductive, CycleInductive, PTL DEF Spec
<1> QED
  BY <1>4

-----------------------------------------------------------------------------
(* Sums                                                                    *)

\* The sum of a list of numbers, an entry at a time.
LEMMA TotalTrace ==
    ASSUME NEW n \in Nat, NEW s \in [1 .. n -> Nat]
    PROVE  \E g : /\ g[0] = 0
                  /\ \A i \in 1 .. n : g[i] = g[i - 1] + s[i]
                  /\ \A i \in 0 .. n : g[i] \in Nat
                  /\ Total(s) = g[n]
<1>1. DOMAIN s = 1 .. n
  OBVIOUS
<1> DEFINE Step(h, m) == [t \in SUBSET (1 .. m) |->
                             IF t = {} THEN 0 ELSE h[t \ {Max(t)}] + s[Max(t)]]
           f == CHOOSE h : h = Step(h, n)
<1>2. Total(s) = f[1 .. n]
  BY <1>1 DEF Total, FoldLeft, MapThenFoldSet
<1>3. \E h : h = Step(h, n)
  <2> DEFINE T == { m \in Nat : \E h : h = Step(h, m) }
  <2>1. 0 \in T
    <3> DEFINE e == [t \in SUBSET (1 .. 0) |-> 0]
    <3>1. SUBSET (1 .. 0) = {{}}
      OBVIOUS
    <3>2. e = Step(e, 0)
      BY <3>1
    <3> HIDE DEF e, Step
    <3> QED
      BY <3>2
  <2>2. ASSUME NEW m \in Nat, m \in T PROVE m + 1 \in T
    <3>1. PICK h : h = Step(h, m)
      BY <2>2
    <3> DEFINE k == [t \in SUBSET (1 .. m + 1) |->
                       IF m + 1 \in t THEN h[t \ {m + 1}] + s[m + 1] ELSE h[t]]
    <3>2. ASSUME NEW t \in SUBSET (1 .. m + 1)
          PROVE  k[t] = IF t = {} THEN 0 ELSE k[t \ {Max(t)}] + s[Max(t)]
      <4>1. CASE m + 1 \in t
        <5>1. Max(t) \in t /\ \A x \in t : x <= Max(t)
          <6>1. t \subseteq 0 .. m + 1 /\ t # {} /\ m + 1 \in Int
            BY <4>1
          <6> QED
            BY <6>1, MaxFacts
        <5>2. Max(t) = m + 1
          <6>1. Max(t) \in 1 .. m + 1 /\ m + 1 <= Max(t)
            BY <4>1, <5>1
          <6> QED
            BY <6>1
        <5>3. t \ {m + 1} \in SUBSET (1 .. m + 1) /\ m + 1 \notin t \ {m + 1}
          OBVIOUS
        <5>4. k[t \ {m + 1}] = h[t \ {m + 1}] /\ k[t] = h[t \ {m + 1}] + s[m + 1]
          BY <4>1, <5>3
        <5> HIDE DEF k
        <5> QED
          BY <4>1, <5>2, <5>4
      <4>2. CASE m + 1 \notin t
        <5>1. t \in SUBSET (1 .. m) /\ t \ {Max(t)} \in SUBSET (1 .. m)
          <6>1. ASSUME NEW x \in t PROVE x \in 1 .. m
            <7>1. x \in 1 .. m + 1 /\ x # m + 1
              BY <4>2
            <7> QED
              BY <7>1
          <6> QED
            BY <6>1
        <5>2. m + 1 \notin t \ {Max(t)} /\ t \ {Max(t)} \in SUBSET (1 .. m + 1)
          BY <4>2
        <5>3. k[t] = h[t] /\ k[t \ {Max(t)}] = h[t \ {Max(t)}]
          BY <4>2, <5>2
        <5>4. h[t] = IF t = {} THEN 0 ELSE h[t \ {Max(t)}] + s[Max(t)]
          BY <3>1, <5>1
        <5> HIDE DEF k
        <5> QED
          BY <5>3, <5>4
      <4> QED
        BY <4>1, <4>2
    <3>3. k = Step(k, m + 1)
      <4> SUFFICES \A t \in SUBSET (1 .. m + 1) :
                      k[t] = IF t = {} THEN 0 ELSE k[t \ {Max(t)}] + s[Max(t)]
        BY Zenon
      <4> HIDE DEF k
      <4> QED
        BY <3>2
    <3> HIDE DEF k, Step
    <3> QED
      BY <3>3
  <2>3. Nat \subseteq T
    <3> HIDE DEF T
    <3> QED
      BY <2>1, <2>2, SetInduction
  <2> QED
    BY <2>3
<1>4. f = Step(f, n)
  <2> HIDE DEF Step
  <2> QED
    BY <1>3
<1> HIDE DEF f
<1>5. \A t \in SUBSET (1 .. n) : f[t] = IF t = {} THEN 0 ELSE f[t \ {Max(t)}] + s[Max(t)]
  BY <1>4
<1> DEFINE g == [i \in 0 .. n |-> f[1 .. i]]
<1>6. g[0] = 0
  <2>1. 1 .. 0 = {} /\ {} \in SUBSET (1 .. n) /\ g[0] = f[1 .. 0]
    OBVIOUS
  <2> QED
    BY <1>5, <2>1
<1>7. ASSUME NEW i \in 1 .. n
      PROVE  g[i] = g[i - 1] + s[i]
  <2>0. 1 \in 1 .. i /\ \A x \in 1 .. i : x \in 1 .. n /\ x \in 0 .. i
    OBVIOUS
  <2>1. /\ 1 .. i \in SUBSET (1 .. n) /\ 1 .. i # {} /\ 1 .. i \subseteq 0 .. i
        /\ i \in Int
    <3>1. i \in Int
      OBVIOUS
    <3> QED
      BY <2>0, <3>1, Zenon
  <2>2. Max(1 .. i) \in 1 .. i /\ \A x \in 1 .. i : x <= Max(1 .. i)
    BY <2>1, MaxFacts
  <2>3. Max(1 .. i) = i
    <3>1. i \in 1 .. i
      OBVIOUS
    <3> QED
      BY <2>2, <3>1
  <2>4. (1 .. i) \ {i} = 1 .. (i - 1)
    OBVIOUS
  <2>5. g[i] = f[1 .. i] /\ g[i - 1] = f[1 .. (i - 1)]
    OBVIOUS
  <2> HIDE DEF g
  <2> QED
    BY <1>5, <2>1, <2>3, <2>4, <2>5
<1>8. g[n] = Total(s)
  BY <1>2
<1> HIDE DEF g
<1> DEFINE T == { i \in 0 .. n : g[i] \in Nat }
<1>9. 0 \in T
  BY <1>6
<1>10. ASSUME NEW i \in 1 .. n, i - 1 \in T PROVE i \in T
  BY <1>7, <1>10
<1>11. \A i \in 0 .. n : i \in T
  <2> HIDE DEF T
  <2> QED
    BY <1>9, <1>10, InductionUpTo
<1> QED
  BY <1>6, <1>7, <1>8, <1>11

\* Larger entries, larger sum.
LEMMA TotalMonotone ==
    ASSUME NEW n \in Nat, NEW s \in [1 .. n -> Nat], NEW t \in [1 .. n -> Nat],
           \A k \in 1 .. n : s[k] <= t[k]
    PROVE  Total(s) \in Nat /\ Total(t) \in Nat /\ Total(s) <= Total(t)
<1>1. PICK g : /\ g[0] = 0 /\ \A i \in 1 .. n : g[i] = g[i - 1] + s[i]
               /\ \A i \in 0 .. n : g[i] \in Nat
               /\ Total(s) = g[n]
  BY TotalTrace
<1>2. PICK h : /\ h[0] = 0 /\ \A i \in 1 .. n : h[i] = h[i - 1] + t[i]
               /\ \A i \in 0 .. n : h[i] \in Nat
               /\ Total(t) = h[n]
  BY TotalTrace
<1> DEFINE T == { i \in 0 .. n : g[i] <= h[i] }
<1>3. 0 \in T
  BY <1>1, <1>2
<1>4. ASSUME NEW i \in 1 .. n, i - 1 \in T PROVE i \in T
  <2>1. /\ i \in 0 .. n /\ i - 1 \in 0 .. n /\ g[i - 1] <= h[i - 1] /\ s[i] <= t[i]
        /\ s[i] \in Nat /\ t[i] \in Nat
    BY <1>4
  <2> QED
    BY <1>1, <1>2, <2>1
<1>5. \A i \in 0 .. n : i \in T
  <2> HIDE DEF T
  <2> QED
    BY <1>3, <1>4, InductionUpTo
<1> QED
  BY <1>1, <1>2, <1>5

\* One entry that grows.
LEMMA TotalBump ==
    ASSUME NEW n \in Nat, NEW s \in [1 .. n -> Nat], NEW t \in [1 .. n -> Nat],
           NEW j \in 1 .. n, NEW d \in Nat, t[j] = s[j] + d,
           \A k \in 1 .. n : k # j => t[k] = s[k]
    PROVE  Total(t) = Total(s) + d
<1>1. PICK g : /\ g[0] = 0 /\ \A i \in 1 .. n : g[i] = g[i - 1] + s[i]
               /\ \A i \in 0 .. n : g[i] \in Nat
               /\ Total(s) = g[n]
  BY TotalTrace
<1>2. PICK h : /\ h[0] = 0 /\ \A i \in 1 .. n : h[i] = h[i - 1] + t[i]
               /\ \A i \in 0 .. n : h[i] \in Nat
               /\ Total(t) = h[n]
  BY TotalTrace
<1> DEFINE T == { i \in 0 .. n : h[i] = g[i] + IF j <= i THEN d ELSE 0 }
<1>3. 0 \in T
  BY <1>1, <1>2
<1>4. ASSUME NEW i \in 1 .. n, i - 1 \in T PROVE i \in T
  <2>1. /\ i \in 0 .. n /\ i - 1 \in 0 .. n
        /\ h[i - 1] = g[i - 1] + IF j <= i - 1 THEN d ELSE 0
        /\ s[i] \in Nat /\ t[i] \in Nat
    BY <1>4
  <2>2. h[i] = h[i - 1] + t[i] /\ g[i] = g[i - 1] + s[i] /\ g[i - 1] \in Nat
    BY <1>1, <1>2, <2>1
  <2>3. t[i] = s[i] + IF i = j THEN d ELSE 0
    BY <2>1
  <2> QED
    BY <2>1, <2>2, <2>3
<1>5. \A i \in 0 .. n : i \in T
  <2> HIDE DEF T
  <2> QED
    BY <1>3, <1>4, InductionUpTo
<1>6. n \in 0 .. n /\ n \in T /\ j <= n
  BY <1>5
<1> QED
  BY <1>1, <1>2, <1>6

\* All entries times the same number.
LEMMA TotalScaled ==
    ASSUME NEW n \in Nat, NEW s \in [1 .. n -> Nat], NEW t \in [1 .. n -> Nat],
           NEW c \in Nat, \A k \in 1 .. n : t[k] = c * s[k]
    PROVE  Total(t) = c * Total(s)
<1>1. PICK g : /\ g[0] = 0 /\ \A i \in 1 .. n : g[i] = g[i - 1] + s[i]
               /\ \A i \in 0 .. n : g[i] \in Nat
               /\ Total(s) = g[n]
  BY TotalTrace
<1>2. PICK h : /\ h[0] = 0 /\ \A i \in 1 .. n : h[i] = h[i - 1] + t[i]
               /\ \A i \in 0 .. n : h[i] \in Nat
               /\ Total(t) = h[n]
  BY TotalTrace
<1>a. \A a, b \in Nat : c * (a + b) = c * a + c * b
  BY SMT
<1> DEFINE T == { i \in 0 .. n : h[i] = c * g[i] }
<1>3. 0 \in T
  BY <1>1, <1>2
<1>4. ASSUME NEW i \in 1 .. n, i - 1 \in T PROVE i \in T
  <2>1. /\ i \in 0 .. n /\ i - 1 \in 0 .. n /\ h[i - 1] = c * g[i - 1]
        /\ s[i] \in Nat /\ t[i] = c * s[i] /\ g[i - 1] \in Nat
    BY <1>1, <1>4
  <2>2. h[i] = h[i - 1] + t[i] /\ g[i] = g[i - 1] + s[i]
    BY <1>1, <1>2
  <2>3. c * (g[i - 1] + s[i]) = c * g[i - 1] + c * s[i]
    BY <1>a, <2>1
  <2> QED
    BY <2>1, <2>2, <2>3, Zenon
<1>5. \A i \in 0 .. n : i \in T
  <2> HIDE DEF T
  <2> QED
    BY <1>3, <1>4, InductionUpTo
<1>6. n \in 0 .. n
  OBVIOUS
<1> QED
  BY <1>1, <1>2, <1>5, <1>6, Zenon

-----------------------------------------------------------------------------
(* The weight of a set of irqs                                             *)

\* The irqs in some order.
Numbering == CHOOSE e \in Seq(Irqs) : IsInjective(e) /\ Range(e) = Irqs

\* There are finitely many.
LEMMA NumberingFacts ==
    Numbering \in Seq(Irqs) /\ IsInjective(Numbering) /\ Range(Numbering) = Irqs
<1>1. PICK n \in Nat : ExistsBijection(1 .. n, Irqs)
  BY IrqAssumption, FS_NatBijection
<1>2. PICK e \in [1 .. n -> Irqs] :
          /\ \A a, b \in 1 .. n : e[a] = e[b] => a = b
          /\ \A i \in Irqs : \E a \in 1 .. n : e[a] = i
  BY <1>1 DEF ExistsBijection, Bijection, Injection, Surjection, IsInjective
<1>3. e \in Seq(Irqs) /\ IsInjective(e) /\ Range(e) = Irqs
  <2>1. e \in Seq(Irqs) /\ DOMAIN e = 1 .. n
    BY <1>2, FunctionIsSeq
  <2> QED
    BY <1>2, <2>1 DEF IsInjective, Range
<1> QED
  BY <1>3 DEF Numbering

\* What the irqs of a set weigh together.
Weight(w, S) ==
    Total([k \in 1 .. Len(Numbering) |->
              IF Numbering[k] \in S THEN w[Numbering[k]] ELSE 0])

\* A part of a set weighs less, the more so with smaller weights.
LEMMA WeightMonotone ==
    ASSUME NEW w \in [Irqs -> Nat], NEW v \in [Irqs -> Nat],
           NEW S \in SUBSET Irqs, NEW T, S \subseteq T,
           \A i \in S : w[i] <= v[i]
    PROVE  Weight(w, S) \in Nat /\ Weight(v, T) \in Nat /\ Weight(w, S) <= Weight(v, T)
<1> DEFINE n == Len(Numbering)
           s == [k \in 1 .. n |-> IF Numbering[k] \in S THEN w[Numbering[k]] ELSE 0]
           t == [k \in 1 .. n |-> IF Numbering[k] \in T THEN v[Numbering[k]] ELSE 0]
<1>1. n \in Nat /\ \A k \in 1 .. n : Numbering[k] \in Irqs
  BY NumberingFacts
<1>2. s \in [1 .. n -> Nat] /\ t \in [1 .. n -> Nat] /\ \A k \in 1 .. n : s[k] <= t[k]
  BY <1>1
<1>3. Weight(w, S) = Total(s) /\ Weight(v, T) = Total(t)
  BY DEF Weight
<1> HIDE DEF n, s, t
<1> QED
  BY <1>1, <1>2, <1>3, TotalMonotone

\* One more irq.
LEMMA WeightAdd ==
    ASSUME NEW w \in [Irqs -> Nat], NEW S \in SUBSET Irqs, NEW x \in Irqs, x \notin S
    PROVE  Weight(w, S \cup {x}) = Weight(w, S) + w[x]
<1> DEFINE n == Len(Numbering)
           T == S \cup {x}
           s == [k \in 1 .. n |-> IF Numbering[k] \in S THEN w[Numbering[k]] ELSE 0]
           t == [k \in 1 .. n |-> IF Numbering[k] \in T THEN w[Numbering[k]] ELSE 0]
<1>1. /\ n \in Nat /\ \A k \in 1 .. n : Numbering[k] \in Irqs
      /\ \A a, b \in 1 .. n : Numbering[a] = Numbering[b] => a = b
      /\ \E j \in 1 .. n : Numbering[j] = x
  BY NumberingFacts DEF IsInjective, Range
<1>2. PICK j \in 1 .. n : Numbering[j] = x
  BY <1>1
<1>3. /\ s \in [1 .. n -> Nat] /\ t \in [1 .. n -> Nat] /\ w[x] \in Nat
      /\ s[j] = 0 /\ t[j] = w[x]
      /\ \A k \in 1 .. n : k # j => t[k] = s[k]
  BY <1>1, <1>2
<1>4. Weight(w, S) = Total(s) /\ Weight(w, T) = Total(t)
  BY DEF Weight
<1> HIDE DEF n, s, t
<1>5. t[j] = s[j] + w[x]
  BY <1>3
<1>6. /\ n \in Nat /\ s \in [1 .. n -> Nat] /\ t \in [1 .. n -> Nat] /\ w[x] \in Nat
      /\ j \in 1 .. n /\ \A k \in 1 .. n : k # j => t[k] = s[k]
  BY <1>1, <1>2, <1>3
<1> HIDE DEF T
<1>7. Weight(w, T) = Weight(w, S) + w[x]
  <2>1. Total(t) = Total(s) + w[x]
    BY <1>5, <1>6, TotalBump, Zenon
  <2> QED
    BY <1>4, <2>1
<1> QED
  BY <1>7 DEF T

\* No weight is more than the same multiple of another one.
LEMMA WeightScaled ==
    ASSUME NEW w \in [Irqs -> Nat], NEW v \in [Irqs -> Nat], NEW S \in SUBSET Irqs,
           NEW c \in Nat, \A i \in S : v[i] <= c * w[i]
    PROVE  Weight(w, S) \in Nat /\ Weight(v, S) \in Nat /\ Weight(v, S) <= c * Weight(w, S)
<1> DEFINE u == [i \in Irqs |-> c * w[i]]
           n == Len(Numbering)
           s == [k \in 1 .. n |-> IF Numbering[k] \in S THEN w[Numbering[k]] ELSE 0]
           t == [k \in 1 .. n |-> IF Numbering[k] \in S THEN u[Numbering[k]] ELSE 0]
<1>0. \A a \in Nat : c * a \in Nat /\ c * 0 = 0
  BY SMT
<1>1. n \in Nat /\ \A k \in 1 .. n : Numbering[k] \in Irqs
  BY NumberingFacts
<1>2. u \in [Irqs -> Nat] /\ \A i \in S : v[i] <= u[i]
  BY <1>0
<1>3. s \in [1 .. n -> Nat]
  BY <1>1
<1>4. t \in [1 .. n -> Nat]
  BY <1>1, <1>2
<1>5. ASSUME NEW k \in 1 .. n PROVE t[k] = c * s[k]
  <2>1. CASE Numbering[k] \in S
    BY <1>1, <2>1
  <2>2. CASE Numbering[k] \notin S
    BY <1>0, <2>2
  <2> QED
    BY <2>1, <2>2
<1>6. Weight(w, S) = Total(s) /\ Weight(u, S) = Total(t)
  BY DEF Weight
<1> HIDE DEF n, s, t, u
<1>7. Weight(u, S) = c * Weight(w, S)
  <2>1. \A k \in 1 .. n : t[k] = c * s[k]
    BY <1>5
  <2>2. Total(t) = c * Total(s)
    BY <1>1, <1>3, <1>4, <2>1, TotalScaled
  <2> QED
    BY <1>6, <2>2
<1>8. Weight(v, S) \in Nat /\ Weight(v, S) <= Weight(u, S)
  BY <1>2, WeightMonotone
<1>9. Weight(w, S) \in Nat
  <2>1. \A i \in S : w[i] <= w[i]
    OBVIOUS
  <2> QED
    BY <2>1, WeightMonotone
<1> QED
  BY <1>7, <1>8, <1>9

\* The irqs of a list weigh no more than its entries add up to.
LEMMA WeightOfList ==
    ASSUME NEW w \in [Irqs -> Nat], NEW l \in Seq(Irqs)
    PROVE  /\ Total([k \in DOMAIN l |-> w[l[k]]]) \in Nat
           /\ Weight(w, Range(l)) <= Total([k \in DOMAIN l |-> w[l[k]]])
<1> DEFINE n == Len(l)
           s == [k \in 1 .. n |-> w[l[k]]]
           First(i) == { l[k] : k \in 1 .. i }
<1>1. n \in Nat /\ DOMAIN l = 1 .. n /\ \A k \in 1 .. n : l[k] \in Irqs
  OBVIOUS
<1>2. s \in [1 .. n -> Nat] /\ \A k \in 1 .. n : s[k] = w[l[k]]
  BY <1>1
<1>3. PICK g : /\ g[0] = 0 /\ \A i \in 1 .. n : g[i] = g[i - 1] + s[i]
               /\ \A i \in 0 .. n : g[i] \in Nat
               /\ Total(s) = g[n]
  <2> HIDE DEF n, s
  <2> QED
    BY <1>1, <1>2, TotalTrace
<1>4. \A S \in SUBSET Irqs : Weight(w, S) \in Nat
  <2>1. \A i \in Irqs : w[i] <= w[i]
    OBVIOUS
  <2> QED
    BY <2>1, WeightMonotone
<1> HIDE DEF s
<1> DEFINE T == { i \in 0 .. n : Weight(w, First(i)) <= g[i] }
<1>5. 0 \in T
  <2>1. First(0) = {} /\ 0 \in 0 .. n
    BY <1>1
  <2>2. Weight(w, {}) <= 0
    <3> DEFINE z == [i \in Irqs |-> 0]
    <3>1. z \in [Irqs -> Nat] /\ {} \in SUBSET Irqs /\ \A i \in {} : w[i] <= 0 * z[i]
      OBVIOUS
    <3> HIDE DEF z
    <3>2. Weight(w, {}) <= 0 * Weight(z, {}) /\ Weight(z, {}) \in Nat
      BY <3>1, WeightScaled
    <3> QED
      BY <3>2
  <2> QED
    BY <1>3, <2>1, <2>2
<1>6. ASSUME NEW i \in 1 .. n, i - 1 \in T PROVE i \in T
  <2>1. /\ i - 1 \in 0 .. n /\ i \in 0 .. n /\ Weight(w, First(i - 1)) <= g[i - 1]
        /\ First(i - 1) \in SUBSET Irqs /\ l[i] \in Irqs /\ w[l[i]] \in Nat
    BY <1>1, <1>6
  <2>2. First(i) = First(i - 1) \cup {l[i]}
    <3>1. 1 .. i = (1 .. (i - 1)) \cup {i}
      OBVIOUS
    <3> QED
      BY <3>1
  <2>3. Weight(w, First(i)) <= Weight(w, First(i - 1)) + w[l[i]]
    <3> HIDE DEF First
    <3>1. Weight(w, First(i - 1)) \in Nat
      BY <1>4, <2>1
    <3>2. CASE l[i] \in First(i - 1)
      <4>1. First(i) = First(i - 1)
        BY <2>2, <3>2
      <4> QED
        BY <2>1, <3>1, <4>1
    <3>3. CASE l[i] \notin First(i - 1)
      <4>1. Weight(w, First(i)) = Weight(w, First(i - 1)) + w[l[i]]
        BY <2>1, <2>2, <3>3, WeightAdd
      <4> QED
        BY <2>1, <3>1, <4>1
    <3> QED
      BY <3>2, <3>3
  <2>4. First(i) \in SUBSET Irqs
    BY <2>1, <2>2
  <2>5. Weight(w, First(i)) \in Nat /\ Weight(w, First(i - 1)) \in Nat
    BY <1>4, <2>1, <2>4
  <2>6. g[i] = g[i - 1] + w[l[i]] /\ g[i - 1] \in Nat
    BY <1>2, <1>3, <2>1
  <2> HIDE DEF First
  <2> QED
    BY <2>1, <2>3, <2>5, <2>6
<1>7. \A i \in 0 .. n : i \in T
  <2> HIDE DEF T
  <2> QED
    BY <1>1, <1>5, <1>6, InductionUpTo
<1>8. First(n) = Range(l) /\ n \in 0 .. n
  BY <1>1 DEF Range
<1>9. [k \in DOMAIN l |-> w[l[k]]] = s
  BY <1>1 DEF s
<1> HIDE DEF First
<1> QED
  BY <1>3, <1>7, <1>8, <1>9

-----------------------------------------------------------------------------
(* The walks of parse_proc_stat                                            *)

\* A walk that computes a number for an object from those for objects of lower height
\* computes one for every object: the tree has four levels.
LEMMA WalkEnds ==
    ASSUME NEW height \in [Objects -> 0 .. 3],
           NEW W \in [[Objects -> Nat] -> [Objects -> Nat]],
           \A r \in Nat : \A g, h \in [Objects -> Nat] :
               (\A o \in Objects : height[o] < r => g[o] = h[o])
               => (\A o \in Objects : height[o] < r + 1 => W[g][o] = W[h][o])
    PROVE  \E g \in [Objects -> Nat] : g = W[g]
<1> DEFINE Agree(g, h, r) == \A o \in Objects : height[o] < r => g[o] = h[o]
           g0 == [o \in Objects |-> 0]
           g1 == W[g0]
           g2 == W[g1]
           g3 == W[g2]
           g4 == W[g3]
<1>1. ASSUME NEW g \in [Objects -> Nat], NEW h \in [Objects -> Nat],
             NEW r \in Nat, NEW q \in Nat, q = r + 1, Agree(g, h, r)
      PROVE  Agree(W[g], W[h], q)
  BY <1>1
<1>0. 1 = 0 + 1 /\ 2 = 1 + 1 /\ 3 = 2 + 1 /\ 4 = 3 + 1
  OBVIOUS
<1>2. Agree(g0, g1, 0)
  OBVIOUS
<1>3. g0 \in [Objects -> Nat]
  OBVIOUS
<1> HIDE DEF g0
<1>4. g1 \in [Objects -> Nat]
  BY <1>3
<1>5. g2 \in [Objects -> Nat]
  BY <1>4
<1>6. g3 \in [Objects -> Nat]
  BY <1>5
<1>7. g4 \in [Objects -> Nat] /\ W[g4] \in [Objects -> Nat]
  BY <1>6
<1>8. /\ \A g, h \in [Objects -> Nat] : Agree(g, h, 4) => g = h
  BY DEF Agree
<1> HIDE DEF Agree
<1>9. Agree(g1, g2, 1)
  BY <1>0, <1>1, <1>2, <1>3, <1>4
<1> HIDE DEF g1
<1>10. Agree(g2, g3, 2)
  BY <1>0, <1>1, <1>4, <1>5, <1>9
<1> HIDE DEF g2
<1>11. Agree(g3, g4, 3)
  BY <1>0, <1>1, <1>5, <1>6, <1>10
<1> HIDE DEF g3
<1>12. Agree(g4, W[g4], 4)
  BY <1>0, <1>1, <1>6, <1>7, <1>11
<1> HIDE DEF g4
<1> QED
  BY <1>7, <1>8, <1>12

\* And what it computes are numbers.
LEMMA WalkNumbers ==
    ASSUME NEW height \in [Objects -> 0 .. 3], NEW f,
           \A r \in Nat : (\A o \in Objects : height[o] < r => f[o] \in Nat)
                         => (\A o \in Objects : height[o] < r + 1 => f[o] \in Nat)
    PROVE  \A o \in Objects : f[o] \in Nat
<1> DEFINE T == { r \in Nat : \A o \in Objects : height[o] < r => f[o] \in Nat }
<1>1. 0 \in T
  OBVIOUS
<1>2. ASSUME NEW r \in Nat, r \in T PROVE r + 1 \in T
  BY <1>2
<1>3. Nat \subseteq T
  <2> HIDE DEF T
  <2> QED
    BY <1>1, <1>2, SetInduction
<1>4. 4 \in T
  BY <1>3
<1> QED
  BY <1>4

\* The height of an object, and its depth.
Height == [o \in Objects |-> Rank(obj_type[o])]
Depth == [o \in Objects |-> 3 - Rank(obj_type[o])]

\* Children are lower, the parent is less deep and has children.
LEMMA HeightFacts ==
    /\ Height \in [Objects -> 0 .. 3] /\ Depth \in [Objects -> 0 .. 3]
    /\ \A o \in Objects : \A c \in Range(children[o]) : c \in Objects /\ Height[c] < Height[o]
    /\ \A o \in Objects : parent[o] # NULL =>
          /\ parent[o] \in Objects /\ Depth[parent[o]] < Depth[o]
          /\ Len(children[parent[o]]) \in Nat \ {0}
<1>1. Height \in [Objects -> 0 .. 3] /\ Depth \in [Objects -> 0 .. 3]
  BY RankFacts DEF Height, Depth
<1>2. \A o \in Objects : \A c \in Range(children[o]) : c \in Objects /\ Height[c] < Height[o]
  BY RankFacts DEF Height
<1>3. ASSUME NEW o \in Objects, parent[o] # NULL
      PROVE  /\ parent[o] \in Objects /\ Depth[parent[o]] < Depth[o]
             /\ Len(children[parent[o]]) \in Nat \ {0}
  <2>1. parent[o] \in Objects /\ o \in Range(children[parent[o]])
    BY <1>3, TreeAssumption, LayerAssumption
  <2>2. Rank(obj_type[o]) < Rank(obj_type[parent[o]]) /\ Rank(obj_type[o]) \in 0 .. 3
        /\ Rank(obj_type[parent[o]]) \in 0 .. 3
    BY <2>1, RankFacts
  <2>3. Depth[parent[o]] < Depth[o]
    BY <2>1, <2>2 DEF Depth
  <2>4. children[parent[o]] \in Seq(Objects) /\ children[parent[o]] # <<>>
    BY <2>1, TreeAssumption DEF Range
  <2> QED
    BY <2>1, <2>3, <2>4
<1> QED
  BY <1>1, <1>2, <1>3

\* The sum over the children of an object.
ChildTotal(g, o) == Total([k \in DOMAIN children[o] |-> g[children[o][k]]])

\* It is a number if the children have numbers, and depends on nothing else.
LEMMA ChildTotalFacts ==
    ASSUME NEW o \in Objects, NEW g, \A c \in Range(children[o]) : g[c] \in Nat
    PROVE  /\ ChildTotal(g, o) \in Nat
           /\ \A h : (\A c \in Range(children[o]) : g[c] = h[c])
                    => ChildTotal(g, o) = ChildTotal(h, o)
<1> DEFINE n == Len(children[o])
           s == [k \in 1 .. n |-> g[children[o][k]]]
<1>1. n \in Nat /\ DOMAIN children[o] = 1 .. n
  BY TreeAssumption
<1>2. \A k \in 1 .. n : children[o][k] \in Range(children[o])
  BY <1>1 DEF Range
<1>3. s \in [1 .. n -> Nat] /\ \A k \in 1 .. n : s[k] <= s[k]
  BY <1>2
<1>4. ChildTotal(g, o) = Total(s)
  BY <1>1 DEF ChildTotal
<1>5. ChildTotal(g, o) \in Nat
  <2> HIDE DEF n, s
  <2> QED
    BY <1>1, <1>3, <1>4, TotalMonotone
<1>6. ASSUME NEW h, \A c \in Range(children[o]) : g[c] = h[c]
      PROVE  ChildTotal(g, o) = ChildTotal(h, o)
  <2>1. [k \in DOMAIN children[o] |-> g[children[o][k]]]
          = [k \in DOMAIN children[o] |-> h[children[o][k]]]
    BY <1>1, <1>2, <1>6
  <2> QED
    BY <2>1 DEF ChildTotal
<1> QED
  BY <1>5, <1>6

\* set_load gives every object a load.
LEMMA SetLoadFacts ==
    ASSUME NEW l \in [Objects -> Nat]
    PROVE  set_load(l) \in [Objects -> Nat]
<1> DEFINE Body(g) == [o \in Objects |-> IF o \notin Reachable \/ children[o] = <<>> THEN l[o]
                                        ELSE ChildTotal(g, o)]
           f == CHOOSE g : g = Body(g)
           W == [g \in [Objects -> Nat] |-> Body(g)]
<1>1. set_load(l) = f
  BY DEF set_load, SumOver, ChildTotal
<1>2. ASSUME NEW g, NEW h, NEW r \in Nat,
             \A o \in Objects : Height[o] < r => g[o] \in Nat /\ g[o] = h[o],
             NEW o \in Objects, Height[o] < r + 1
      PROVE  Body(g)[o] \in Nat /\ Body(g)[o] = Body(h)[o]
  <2>1. ASSUME NEW c \in Range(children[o]) PROVE g[c] \in Nat /\ g[c] = h[c]
    <3>1. c \in Objects /\ Height[c] < Height[o] /\ Height[c] \in Int /\ Height[o] \in Int
      BY HeightFacts
    <3>2. Height[c] < r
      BY <1>2, <3>1
    <3> QED
      BY <1>2, <3>1, <3>2
  <2>2. ChildTotal(g, o) \in Nat /\ ChildTotal(g, o) = ChildTotal(h, o)
    BY <2>1, ChildTotalFacts
  <2> QED
    BY <2>2
<1>3. W \in [[Objects -> Nat] -> [Objects -> Nat]]
  <2> SUFFICES ASSUME NEW g \in [Objects -> Nat], NEW o \in Objects PROVE Body(g)[o] \in Nat
    OBVIOUS
  <2>1. Height[o] \in 0 .. 3
    BY HeightFacts
  <2> HIDE DEF Body
  <2> QED
    BY <1>2, <2>1
<1>4. ASSUME NEW r \in Nat, NEW g \in [Objects -> Nat], NEW h \in [Objects -> Nat],
             \A o \in Objects : Height[o] < r => g[o] = h[o],
             NEW o \in Objects, Height[o] < r + 1
      PROVE  W[g][o] = W[h][o]
  <2>1. W[g] = Body(g) /\ W[h] = Body(h)
    OBVIOUS
  <2> HIDE DEF Body, W
  <2> QED
    BY <1>2, <1>4, <2>1
<1>5. \E g \in [Objects -> Nat] : g = W[g]
  <2> HIDE DEF W
  <2> QED
    BY <1>3, <1>4, HeightFacts, WalkEnds
<1>6. f = Body(f)
  <2>1. \E g : g = Body(g)
    BY <1>5
  <2> HIDE DEF Body
  <2> QED
    BY <2>1
<1>7. \A o \in Objects : f[o] \in Nat
  <2>1. ASSUME NEW r \in Nat, \A o \in Objects : Height[o] < r => f[o] \in Nat,
               NEW o \in Objects, Height[o] < r + 1
        PROVE  f[o] \in Nat
    <3> HIDE DEF Body, f
    <3>1. Body(f)[o] \in Nat
      BY <1>2, <2>1
    <3> QED
      BY <1>6, <3>1
  <2> HIDE DEF f
  <2> QED
    BY <2>1, HeightFacts, WalkNumbers
<1> HIDE DEF f
<1> QED
  BY <1>1, <1>6, <1>7

\* get_children_branch_irq_count gives every object a count.
LEMMA BranchCountFacts ==
    ASSUME NEW count \in [Objects -> Nat]
    PROVE  ChildrenBranchCount(count) \in [Objects -> Nat]
<1> DEFINE Body(g) == [o \in Objects |-> count[o] + ChildTotal(g, o)]
           f == CHOOSE g : g = Body(g)
           W == [g \in [Objects -> Nat] |-> Body(g)]
<1>1. ChildrenBranchCount(count) = f
  BY DEF ChildrenBranchCount, SumOver, ChildTotal
<1>2. ASSUME NEW g, NEW h, NEW r \in Nat,
             \A o \in Objects : Height[o] < r => g[o] \in Nat /\ g[o] = h[o],
             NEW o \in Objects, Height[o] < r + 1
      PROVE  Body(g)[o] \in Nat /\ Body(g)[o] = Body(h)[o]
  <2>1. ASSUME NEW c \in Range(children[o]) PROVE g[c] \in Nat /\ g[c] = h[c]
    <3>1. c \in Objects /\ Height[c] < Height[o] /\ Height[c] \in Int /\ Height[o] \in Int
      BY HeightFacts
    <3>2. Height[c] < r
      BY <1>2, <3>1
    <3> QED
      BY <1>2, <3>1, <3>2
  <2>2. ChildTotal(g, o) \in Nat /\ ChildTotal(g, o) = ChildTotal(h, o)
    BY <2>1, ChildTotalFacts
  <2> QED
    BY <2>2
<1>3. W \in [[Objects -> Nat] -> [Objects -> Nat]]
  <2> SUFFICES ASSUME NEW g \in [Objects -> Nat], NEW o \in Objects PROVE Body(g)[o] \in Nat
    OBVIOUS
  <2>1. Height[o] \in 0 .. 3
    BY HeightFacts
  <2> HIDE DEF Body
  <2> QED
    BY <1>2, <2>1
<1>4. ASSUME NEW r \in Nat, NEW g \in [Objects -> Nat], NEW h \in [Objects -> Nat],
             \A o \in Objects : Height[o] < r => g[o] = h[o],
             NEW o \in Objects, Height[o] < r + 1
      PROVE  W[g][o] = W[h][o]
  <2>1. W[g] = Body(g) /\ W[h] = Body(h)
    OBVIOUS
  <2> HIDE DEF Body, W
  <2> QED
    BY <1>2, <1>4, <2>1
<1>5. \E g \in [Objects -> Nat] : g = W[g]
  <2> HIDE DEF W
  <2> QED
    BY <1>3, <1>4, HeightFacts, WalkEnds
<1>6. f = Body(f)
  <2>1. \E g : g = Body(g)
    BY <1>5
  <2> HIDE DEF Body
  <2> QED
    BY <2>1
<1>7. \A o \in Objects : f[o] \in Nat
  <2>1. ASSUME NEW r \in Nat, \A o \in Objects : Height[o] < r => f[o] \in Nat,
               NEW o \in Objects, Height[o] < r + 1
        PROVE  f[o] \in Nat
    <3> HIDE DEF Body, f
    <3>1. Body(f)[o] \in Nat
      BY <1>2, <2>1
    <3> QED
      BY <1>6, <3>1
  <2> HIDE DEF f
  <2> QED
    BY <2>1, HeightFacts, WalkNumbers
<1> HIDE DEF f
<1> QED
  BY <1>1, <1>6, <1>7

\* get_parent_branch_irq_count_share gives every object its own count and part of what its
\* ancestors have.
LEMMA BranchShareFacts ==
    ASSUME NEW count \in [Objects -> Nat]
    PROVE  /\ ParentBranchShare(count) \in [Objects -> Nat]
           /\ \A o \in Objects : count[o] <= ParentBranchShare(count)[o]
<1> DEFINE Body(g) == [o \in Objects |->
                          count[o] + IF parent[o] = NULL THEN 0
                                     ELSE g[parent[o]] \div Len(children[parent[o]])]
           f == CHOOSE g : g = Body(g)
           W == [g \in [Objects -> Nat] |-> Body(g)]
<1>1. ParentBranchShare(count) = f
  BY DEF ParentBranchShare, SumOver, ChildTotal
<1>2. ASSUME NEW g, NEW h, NEW r \in Nat,
             \A o \in Objects : Depth[o] < r => g[o] \in Nat /\ g[o] = h[o],
             NEW o \in Objects, Depth[o] < r + 1
      PROVE  Body(g)[o] \in Nat /\ Body(g)[o] = Body(h)[o]
  <2>1. CASE parent[o] = NULL
    BY <2>1
  <2>2. CASE parent[o] # NULL
    <3>1. /\ parent[o] \in Objects /\ Depth[parent[o]] < Depth[o]
          /\ Depth[parent[o]] \in Int /\ Depth[o] \in Int
          /\ Len(children[parent[o]]) \in Nat \ {0}
      BY <2>2, HeightFacts
    <3>2. Depth[parent[o]] < r
      BY <1>2, <3>1
    <3>3. g[parent[o]] \in Nat /\ g[parent[o]] = h[parent[o]]
      BY <1>2, <3>1, <3>2
    <3>4. g[parent[o]] \div Len(children[parent[o]]) \in Nat
      <4>1. \A a \in Nat : \A b \in Nat \ {0} : a \div b \in Nat
        BY SMT
      <4> QED
        BY <3>1, <3>3, <4>1, Zenon
    <3> QED
      BY <2>2, <3>3, <3>4
  <2> QED
    BY <2>1, <2>2
<1>3. W \in [[Objects -> Nat] -> [Objects -> Nat]]
  <2> SUFFICES ASSUME NEW g \in [Objects -> Nat], NEW o \in Objects PROVE Body(g)[o] \in Nat
    OBVIOUS
  <2>1. Depth[o] \in 0 .. 3
    BY HeightFacts
  <2> HIDE DEF Body
  <2> QED
    BY <1>2, <2>1
<1>4. ASSUME NEW r \in Nat, NEW g \in [Objects -> Nat], NEW h \in [Objects -> Nat],
             \A o \in Objects : Depth[o] < r => g[o] = h[o],
             NEW o \in Objects, Depth[o] < r + 1
      PROVE  W[g][o] = W[h][o]
  <2>1. W[g] = Body(g) /\ W[h] = Body(h)
    OBVIOUS
  <2> HIDE DEF Body, W
  <2> QED
    BY <1>2, <1>4, <2>1
<1>5. \E g \in [Objects -> Nat] : g = W[g]
  <2> HIDE DEF W
  <2> QED
    BY <1>3, <1>4, HeightFacts, WalkEnds
<1>6. f = Body(f)
  <2>1. \E g : g = Body(g)
    BY <1>5
  <2> HIDE DEF Body
  <2> QED
    BY <2>1
<1>7. \A o \in Objects : f[o] \in Nat
  <2>1. ASSUME NEW r \in Nat, \A o \in Objects : Depth[o] < r => f[o] \in Nat,
               NEW o \in Objects, Depth[o] < r + 1
        PROVE  f[o] \in Nat
    <3> HIDE DEF Body, f
    <3>1. Body(f)[o] \in Nat
      BY <1>2, <2>1
    <3> QED
      BY <1>6, <3>1
  <2> HIDE DEF f
  <2> QED
    BY <2>1, HeightFacts, WalkNumbers
<1>8. ASSUME NEW o \in Objects PROVE count[o] <= f[o]
  <2>1. f[o] = count[o] + IF parent[o] = NULL THEN 0
                          ELSE f[parent[o]] \div Len(children[parent[o]])
    <3> HIDE DEF f
    <3> QED
      BY <1>6
  <2> HIDE DEF f
  <2>2. CASE parent[o] = NULL
    BY <2>1, <2>2
  <2>3. CASE parent[o] # NULL
    <3>1. f[parent[o]] \in Nat /\ Len(children[parent[o]]) \in Nat \ {0}
      BY <1>7, <2>3, HeightFacts
    <3>2. f[parent[o]] \div Len(children[parent[o]]) \in Nat
      BY <3>1
    <3> QED
      BY <2>1, <2>3, <3>2
  <2> QED
    BY <2>2, <2>3
<1> HIDE DEF f
<1>9. f \in [Objects -> Nat]
  BY <1>6, <1>7
<1> QED
  BY <1>1, <1>8, <1>9

\* The load one interrupt stands for, times the interrupts an object had itself, is no
\* more than the load of the object.
LEMMA SliceFacts ==
    ASSUME NEW l \in [Objects -> Nat], NEW count \in [Objects -> Nat], NEW o \in Objects
    PROVE  /\ LoadSlice(l, count, o) \in Nat
           /\ count[o] # 0 => LoadSlice(l, count, o) * count[o] <= l[o]
<1> DEFINE below == ChildrenBranchCount(count)
           local == ParentBranchShare(count)[o] + ChildTotal(below, o)
           q == l[o] \div local
<1>1. below \in [Objects -> Nat]
  BY BranchCountFacts
<1>2. ChildTotal(below, o) \in Nat
  <2>1. \A c \in Range(children[o]) : below[c] \in Nat
    BY <1>1, ObjectFacts
  <2> HIDE DEF below
  <2> QED
    BY <2>1, ChildTotalFacts
<1>3. ParentBranchShare(count)[o] \in Nat /\ count[o] <= ParentBranchShare(count)[o]
  BY BranchShareFacts
<1>4. LoadSlice(l, count, o) = IF local = 0 THEN 1 ELSE q
  BY DEF LoadSlice, SumOver, ChildTotal
<1> HIDE DEF below
<1>5. local \in Nat /\ count[o] <= local /\ count[o] \in Nat /\ l[o] \in Nat
  BY <1>2, <1>3
<1> HIDE DEF local
<1>6. CASE local = 0
  BY <1>4, <1>5, <1>6
<1>7. CASE local # 0
  <2>1. q \in Nat /\ q * local <= l[o]
    BY <1>5, <1>7
  <2> HIDE DEF q
  <2>2. q * count[o] <= q * local
    <3>1. \A a, b, c \in Nat : a <= b => c * a <= c * b
      BY SMT
    <3> QED
      BY <1>5, <2>1, <3>1
  <2>3. q * count[o] \in Nat /\ q * local \in Nat
    BY <1>5, <2>1
  <2>4. q * count[o] <= l[o]
    BY <1>5, <2>1, <2>2, <2>3
  <2> QED
    BY <1>4, <1>7, <2>1, <2>4
<1> QED
  BY <1>6, <1>7

\* The part of an irq in the load of the object that holds it, as move_candidate_irqs
\* counts it: a load of 1 stands for none.
SharesOf(l) == [i \in Irqs |-> IF l[i] > 1 THEN l[i] ELSE 0]

\* The shares parse_proc_stat hands out add up to no more than the load of the object.
LEMMA SharesFit ==
    ASSUME NEW lists \in [Holders -> Seq(Irqs)], NEW diff \in [Irqs -> Nat],
           NEW l \in [Objects -> Nat], NEW old \in [Irqs -> Nat],
           \A o, p \in Objects : \A i \in Range(lists[o]) : i \in Range(lists[p]) => p = o,
           \A o \in Objects \ Reachable : lists[o] = <<>>
    PROVE  /\ IrqLoads(lists, diff, l, old) \in [Irqs -> Nat]
           /\ \A o \in Objects :
                 Weight(SharesOf(IrqLoads(lists, diff, l, old)), Range(lists[o])) <= l[o]
<1> DEFINE count == accumulate_interrupts(lists, diff)
           new == IrqLoads(lists, diff, l, old)
<1>1. ASSUME NEW o \in Objects
      PROVE  /\ lists[o] \in Seq(Irqs) /\ Range(lists[o]) \in SUBSET Irqs
             /\ count[o] \in Nat
             /\ o \in Reachable => Weight(diff, Range(lists[o])) <= count[o]
  <2>1. lists[o] \in Seq(Irqs)
    BY ObjectFacts
  <2>2. Range(lists[o]) \in SUBSET Irqs
    BY <2>1 DEF Range
  <2>3. /\ Total([k \in DOMAIN lists[o] |-> diff[lists[o][k]]]) \in Nat
        /\ Weight(diff, Range(lists[o])) <= Total([k \in DOMAIN lists[o] |-> diff[lists[o][k]]])
    BY <2>1, WeightOfList
  <2>4. count[o] = IF o \in Reachable
                   THEN Total([k \in DOMAIN lists[o] |-> diff[lists[o][k]]]) ELSE 0
    BY DEF accumulate_interrupts, SumOver
  <2> HIDE DEF count
  <2> QED
    BY <2>1, <2>2, <2>3, <2>4
<1>2. count \in [Objects -> Nat]
  <2>1. count = [o \in Objects |-> count[o]]
    BY DEF accumulate_interrupts
  <2> HIDE DEF count
  <2> QED
    BY <1>1, <2>1
<1>3. \A a, b \in Nat : SliceOf(a, b) \in Nat
  BY SMT DEF SliceOf
<1>4. ASSUME NEW o \in Objects, NEW i \in Range(lists[o])
      PROVE  i \in Irqs /\ new[i] = SliceOf(diff[i], LoadSlice(l, count, o))
  <2>1. i \in Irqs
    BY <1>1
  <2>2. o = CHOOSE p \in Objects : i \in Range(lists[p])
    BY <1>4
  <2> QED
    BY <2>1, <2>2 DEF IrqLoads
<1>5. new \in [Irqs -> Nat]
  <2>1. new = [i \in Irqs |-> new[i]]
    BY DEF IrqLoads
  <2>2. ASSUME NEW i \in Irqs PROVE new[i] \in Nat
    <3>1. CASE \E o \in Objects : i \in Range(lists[o])
      <4>1. PICK o \in Objects : i \in Range(lists[o])
        BY <3>1
      <4>2. LoadSlice(l, count, o) \in Nat
        <5> HIDE DEF count
        <5> QED
          BY <1>2, SliceFacts
      <4>3. new[i] = SliceOf(diff[i], LoadSlice(l, count, o)) /\ diff[i] \in Nat
        BY <1>4, <4>1
      <4> HIDE DEF count, new
      <4> QED
        BY <1>3, <4>2, <4>3
    <3>2. CASE ~ \E o \in Objects : i \in Range(lists[o])
      <4>1. new[i] = old[i]
        BY <3>2 DEF IrqLoads
      <4> QED
        BY <4>1
    <3> QED
      BY <3>1, <3>2
  <2> HIDE DEF new
  <2> QED
    BY <2>1, <2>2
<1> HIDE DEF count, new
<1>6. ASSUME NEW o \in Objects
      PROVE  Weight(SharesOf(new), Range(lists[o])) <= l[o]
  <2> DEFINE S == Range(lists[o])
             slice == LoadSlice(l, count, o)
             w == SharesOf(new)
  <2>1. slice \in Nat /\ (count[o] # 0 => slice * count[o] <= l[o])
    BY <1>2, SliceFacts
  <2>2. w \in [Irqs -> Nat] /\ S \in SUBSET Irqs /\ l[o] \in Nat /\ count[o] \in Nat
    BY <1>1, <1>5 DEF SharesOf
  <2>3. ASSUME NEW i \in S PROVE w[i] <= slice * diff[i]
    <3>1. i \in Irqs /\ new[i] = SliceOf(diff[i], slice)
      BY <1>4
    <3>2. w[i] = IF new[i] > 1 THEN new[i] ELSE 0
      BY <3>1 DEF SharesOf
    <3> HIDE DEF S, slice, w
    <3>3. diff[i] \in Nat
      BY <3>1
    <3>4. \A a, b \in Nat : a * b = b * a /\ a * b \in Nat
      BY SMT
    <3>5. diff[i] * slice = slice * diff[i] /\ slice * diff[i] \in Nat
      BY <2>1, <3>3, <3>4
    <3>6. new[i] = IF slice * diff[i] = 0 THEN 1 ELSE slice * diff[i]
      BY <3>1, <3>5 DEF SliceOf
    <3> QED
      BY <3>2, <3>5, <3>6
  <2> HIDE DEF slice, w
  <2>4. /\ Weight(diff, S) \in Nat /\ Weight(w, S) \in Nat
        /\ Weight(w, S) <= slice * Weight(diff, S)
    <3> HIDE DEF S
    <3> QED
      BY <2>1, <2>2, <2>3, WeightScaled
  <2>5. \A a, b, c \in Nat : a <= b => c * a <= c * b /\ c * a \in Nat /\ c * b \in Nat
    BY SMT
  <2>6. CASE o \in Reachable
    <3>1. Weight(diff, S) <= count[o]
      BY <1>1, <2>6
    <3> HIDE DEF S
    <3>2. /\ slice * Weight(diff, S) <= slice * count[o]
          /\ slice * Weight(diff, S) \in Nat /\ slice * count[o] \in Nat
      BY <2>1, <2>2, <2>4, <2>5, <3>1
    <3>3. slice * count[o] <= l[o]
      <4>1. count[o] = 0 => slice * count[o] = 0
        BY <2>1
      <4> QED
        BY <2>1, <2>2, <4>1
    <3>4. Weight(w, S) <= l[o]
      BY <2>2, <2>4, <3>2, <3>3
    <3> QED
      BY <3>4 DEF S, w
  <2>7. CASE o \notin Reachable
    <3>1. S = {}
      BY <2>7 DEF Range
    <3>2. \A i \in S : w[i] <= 0 * diff[i]
      BY <3>1
    <3>3. Weight(w, S) <= 0 * Weight(diff, S)
      <4> HIDE DEF S
      <4> QED
        BY <2>2, <3>2, WeightScaled
    <3> HIDE DEF S
    <3>4. Weight(w, S) <= l[o]
      BY <2>2, <2>4, <3>3
    <3> QED
      BY <3>4 DEF S, w
  <2> QED
    BY <2>6, <2>7
<1> QED
  BY <1>5, <1>6 DEF new

-----------------------------------------------------------------------------
(* The loads during a cycle                                                *)

\* No irq is on an object that accumulate_interrupts does not reach.
OnReached == \A i \in Irqs : assigned_obj[i] \in Reachable \cup {NULL}

\* What can be reached is below some node.
LEMMA ReachedBelow ==
    /\ \A n \in Range(numa_nodes) : Below(n) \subseteq Reachable
    /\ \A o \in Reachable : \E n \in Range(numa_nodes) : o \in Below(n)
<1> DEFINE n == Range(numa_nodes)
           p == ChildSet(n)
           q == ChildSet(p)
           u == ChildSet(q)
<1>1. Reachable = n \cup p \cup q \cup u
  BY DEF Reachable
<1>2. \A m \in n : m \in Objects
  BY ObjectFacts
<1>3. \A m \in n : Below(m) \subseteq Reachable
  <2> SUFFICES ASSUME NEW m \in n PROVE Below(m) \subseteq Reachable
    OBVIOUS
  <2> DEFINE a == Range(children[m])
             b == ChildSet(a)
             c == ChildSet(b)
  <2>1. Below(m) = {m} \cup a \cup b \cup c
    BY DEF Below
  <2>2. a \subseteq p
    BY DEF ChildSet
  <2>3. b \subseteq q
    BY <2>2 DEF ChildSet
  <2>4. c \subseteq u
    BY <2>3 DEF ChildSet
  <2> HIDE DEF a, b, c, n, p, q, u
  <2> QED
    BY <1>1, <2>1, <2>2, <2>3, <2>4
<1> DEFINE Found(o) == \E m \in n : o \in Below(m)
<1>4. \A o \in n : Found(o)
  BY <1>2, BelowClosed
<1>5. ASSUME NEW S, \A o \in S : Found(o)
      PROVE  \A c \in ChildSet(S) : Found(c)
  <2> SUFFICES ASSUME NEW c \in ChildSet(S) PROVE Found(c)
    OBVIOUS
  <2>1. PICK o \in S : c \in Range(children[o])
    BY DEF ChildSet
  <2>2. PICK m \in n : o \in Below(m)
    BY <1>5
  <2>3. c \in Below(m)
    BY <1>2, <2>1, <2>2, BelowClosed
  <2> QED
    BY <2>3
<1> HIDE DEF Found
<1>6. \A o \in p : Found(o)
  BY <1>4, <1>5
<1>7. \A o \in q : Found(o)
  BY <1>5, <1>6
<1>8. \A o \in u : Found(o)
  BY <1>5, <1>7
<1> QED
  BY <1>1, <1>3, <1>4, <1>6, <1>7, <1>8 DEF Found

\* No step takes an irq to an object that is not reached.
LEMMA ReachedNext ==
    ASSUME Mirrored \/ CpusReached, IInv, Unplaced, OnReached, Next
    PROVE  OnReached'
<1> SUFFICES ASSUME NEW i \in Irqs PROVE assigned_obj'[i] \in Reachable \cup {NULL}
  BY DEF OnReached
<1>1. assigned_obj[i] \in Reachable \cup {NULL}
  BY DEF OnReached
<1>2. CASE Stays(i)
  BY <1>1, <1>2 DEF Stays
<1>3. CASE ToNode(i)
  BY <1>3, ReachClosed DEF ToNode
<1>4. CASE ToChild(i)
  <2>1. Head(objs) \in Objects /\ assigned_obj[i] = Head(objs)
        /\ assigned_obj'[i] \in Range(children[Head(objs)])
    BY <1>4, ChildChange DEF ToChild
  <2>2. Head(objs) \in Reachable
    BY <1>1, <2>1, ObjectFacts
  <2> QED
    BY <2>1, <2>2, ReachClosed
<1>5. CASE ToFallback(i)
  <2>1. assigned_obj[i] # NULL /\ assigned_obj'[i] \in Fallbacks(i)
    BY <1>5 DEF ToFallback
  <2>2. CASE CpusReached
    BY <2>1, <2>2 DEF CpusReached, Fallbacks, is_valid_fallback
  <2>3. CASE Mirrored
    <3>1. PICK n \in Range(numa_nodes) : assigned_obj[i] \in Below(n)
      BY <1>1, <2>1, ReachedBelow
    <3>2. n \in Objects /\ obj_type[n] = "NODE"
      BY LayerAssumption, ObjectFacts
    <3> QED
      BY <2>1, <2>3, <3>1, <3>2, FallbackLocal, ReachedBelow
  <2> QED
    BY <2>2, <2>3
<1> QED
  BY <1>2, <1>3, <1>4, <1>5, EveryChange

\* An object the code reads out or walks over holds only irqs that point back to it.
LEMMA HeldFacts ==
    ASSUME IInv, OnReached
    PROVE  /\ \A o, p \in Objects : \A i \in Range(interrupts[o]) :
                 i \in Range(interrupts[p]) => p = o
           /\ \A o \in Objects \ Reachable : interrupts[o] = <<>>
           /\ \A o \in Objects : \A i \in Range(interrupts[o]) : o \in Reachable
<1>1. TypeOK /\ ListsAgree
  BY DEF IInv, ListInv
<1>2. \A o \in Objects : \A i \in Range(interrupts[o]) : i \in Irqs /\ assigned_obj[i] = o
  BY <1>1, ListTypes, ObjectFacts DEF ListsAgree
<1>3. \A o \in Objects : \A i \in Range(interrupts[o]) : o \in Reachable
  BY <1>2, ObjectFacts DEF OnReached
<1>4. ASSUME NEW o \in Objects \ Reachable PROVE interrupts[o] = <<>>
  <2>1. interrupts[o] \in Seq(Irqs)
    BY <1>1, ListTypes, ObjectFacts
  <2>2. interrupts[o] # <<>> => Head(interrupts[o]) \in Range(interrupts[o])
    BY <2>1, TailFacts
  <2> QED
    BY <1>3, <2>2
<1> QED
  BY <1>2, <1>3, <1>4

\* Loads and counts are numbers.
LoadTypes ==
    /\ load \in [Objects -> Nat]
    /\ irq_load \in [Irqs -> Nat]
    /\ irq_diff \in [Irqs -> Nat]

\* Steps that leave them alone.
CalmStep ==
    \/ ClearSlots \/ LineMismatch \/ HotplugFails \/ NoMemory \/ EndParse \/ KeepExisting
    \/ ClearBanned \/ RequestRescan \/ Gather \/ PassObject \/ OpenObject \/ KeepCandidate
    \/ EndCandidates \/ EnterPowersave \/ EndPowersave \/ EndObjects \/ SortRebalance
    \/ NotPlaced \/ EndPlace \/ OpenDomain \/ StayHere \/ CloseDomain \/ EndDomains
    \/ SkipActivation \/ AlreadyApplied \/ WriteSucceeds \/ WriteFailsForNow
    \/ WriteFailsForGood \/ NoSpace \/ FallbackFull \/ FallbackRefused \/ EndScan

\* They do.
LEMMA CalmFacts == CalmStep => UNCHANGED <<load, irq_load, irq_diff>>
<1> USE DEF dbVars, objVars
<1> DEFINE Calm == UNCHANGED <<load, irq_load, irq_diff>>
<1>1. ClearSlots \/ LineMismatch \/ HotplugFails \/ NoMemory \/ EndParse => Calm
  BY DEF ClearSlots, LineMismatch, HotplugFails, NoMemory, EndParse
<1>2. KeepExisting \/ ClearBanned \/ RequestRescan \/ Gather \/ PassObject => Calm
  BY DEF KeepExisting, ClearBanned, RequestRescan, Gather, PassObject
<1>3. OpenObject \/ KeepCandidate \/ EndCandidates \/ EnterPowersave => Calm
  BY DEF OpenObject, KeepCandidate, EndCandidates, EnterPowersave
<1>4. EndPowersave \/ EndObjects \/ SortRebalance \/ NotPlaced \/ EndPlace => Calm
  BY DEF EndPowersave, EndObjects, SortRebalance, NotPlaced, EndPlace
<1>5. OpenDomain \/ StayHere \/ CloseDomain \/ EndDomains \/ SkipActivation => Calm
  BY DEF OpenDomain, StayHere, CloseDomain, EndDomains, SkipActivation
<1>6. AlreadyApplied \/ WriteSucceeds \/ WriteFailsForNow \/ WriteFailsForGood => Calm
  BY DEF AlreadyApplied, WriteSucceeds, WriteFailsForNow, WriteFailsForGood
<1>7. NoSpace \/ FallbackFull \/ FallbackRefused \/ EndScan => Calm
  BY DEF NoSpace, FallbackFull, FallbackRefused, EndScan
<1> QED
  BY <1>1, <1>2, <1>3, <1>4, <1>5, <1>6, <1>7 DEF CalmStep

\* Steps that may move an irq.
CarryStep ==
    \/ ForceAll \/ MoveCandidate \/ EmptyPowersave \/ PlaceInNode \/ PushDown
    \/ FallbackSucceeds \/ GiveUp

\* They add the load of one irq to that of the object it goes to.
LEMMA CarryFacts ==
    ASSUME IInv, LoadTypes, CarryStep
    PROVE  UNCHANGED <<irq_load, irq_diff>> /\ load' \in [Objects -> Nat]
<1>1. UNCHANGED <<irq_load, irq_diff>>
  BY DEF CarryStep, ForceAll, MoveCandidate, EmptyPowersave, PlaceInNode, PushDown,
         FallbackSucceeds, GiveUp, dbVars
<1>2. Head(work) \in Irqs
  <2>1. TypeOK /\ LoopOK
    BY DEF IInv
  <2>2. work # <<>>
    BY <2>1 DEF CarryStep, ForceAll, MoveCandidate, EmptyPowersave, PlaceInNode, PushDown,
                FallbackSucceeds, GiveUp, MayTry, LoopOK
  <2> QED
    BY <2>1, <2>2, LoopFacts
<1> DEFINE i == Head(work)
<1>3. load \in [Objects -> Nat] /\ irq_load[i] \in Nat
  BY <1>2 DEF LoadTypes
<1>4. CASE ForceAll \/ MoveCandidate \/ EmptyPowersave
  <2>1. force_rebalance_irq(i)
    BY <1>4 DEF ForceAll, MoveCandidate, EmptyPowersave
  <2>2. load' = load \/ load' = LoadAfter(assigned_obj[i], NULL, i)
    BY <2>1 DEF force_rebalance_irq, migrate_irq_obj
  <2> QED
    BY <1>1, <1>3, <2>2 DEF LoadAfter
<1>5. CASE PlaceInNode
  <2>1. \/ load' = LoadAfter(assigned_obj[i], numa_node[i], i)
        \/ \E k \in DOMAIN numa_nodes : load' = LoadAfter(assigned_obj[i], numa_nodes[k], i)
    BY <1>5 DEF PlaceInNode, migrate_irq_obj
  <2> QED
    BY <1>1, <1>3, <2>1 DEF LoadAfter
<1>6. CASE PushDown
  <2>1. PICK k \in DOMAIN children[Head(objs)] :
            load' = LoadAfter(Head(objs), children[Head(objs)][k], i)
    BY <1>6 DEF PushDown, migrate_irq_obj
  <2> QED
    BY <1>1, <1>3, <2>1 DEF LoadAfter
<1>7. CASE FallbackSucceeds
  <2>1. PICK c \in Objects : load' = LoadAfter(assigned_obj[i], c, i)
    BY <1>7 DEF FallbackSucceeds
  <2> QED
    BY <1>1, <1>3, <2>1 DEF LoadAfter
<1>8. CASE GiveUp
  <2>1. load' = load \/ load' = LoadAfter(assigned_obj[i], NULL, i)
    BY <1>8 DEF GiveUp
  <2> QED
    BY <1>1, <1>3, <2>1 DEF LoadAfter
<1> QED
  BY <1>1, <1>4, <1>5, <1>6, <1>7, <1>8 DEF CarryStep

\* parse_proc_stat reads numbers.
LEMMA CpuLoadsFacts ==
    ASSUME LoadTypes, NEW sample \in StatSamples, NEW seen, seen \subseteq Range(cpus)
    PROVE  CpuLoads(load, sample, seen, cycle_count) \in [Objects -> Nat]
<1>1. \A o \in Range(cpus) : sample[o] \in Nat
  BY IrqAssumption DEF Range
<1>2. \A a \in Nat : a * NsPerTick \in Nat
  BY NsPerTickAssumption
<1>3. \A o \in seen : sample[o] * NsPerTick \in Nat
  BY <1>1, <1>2
<1> QED
  BY <1>3 DEF CpuLoads, LoadTypes

\* They are and stay numbers.
LEMMA LoadTypesNext ==
    ASSUME IInv, LoadTypes, OnReached, Next
    PROVE  LoadTypes'
<1>1. /\ load \in [Objects -> Nat] /\ irq_load \in [Irqs -> Nat]
      /\ irq_diff \in [Irqs -> Nat]
  BY DEF LoadTypes
<1>2. TypeOK
  BY DEF IInv
<1>3. CASE CalmStep
  BY <1>1, <1>3, CalmFacts DEF LoadTypes
<1>4. CASE CarryStep
  BY <1>1, <1>4, CarryFacts DEF LoadTypes
<1>5. CASE Build
  BY <1>5 DEF Build, LoadTypes
<1>6. CASE StartScan
  <2>1. ClearedLoads \in [Irqs -> Nat]
    BY <1>1 DEF ClearedLoads
  <2> QED
    BY <1>1, <1>6, <2>1 DEF StartScan, LoadTypes, dbVars, objVars
<1>7. CASE ParseLine
  <2>1. PICK d \in IrqDiffs : irq_diff' = [irq_diff EXCEPT ![Head(work)] = d]
    BY <1>7 DEF ParseLine
  <2>2. d \in Nat
    BY IrqAssumption
  <2> QED
    BY <1>1, <1>7, <2>1, <2>2 DEF ParseLine, LoadTypes, objVars
<1>8. CASE RemoveNoExisting
  BY <1>1, <1>8 DEF RemoveNoExisting, LoadTypes
<1>9. CASE ParseProcStat
  <2>1. PICK sample \in StatSamples :
            LET total == set_load(CpuLoads(load, sample, Range(cpus), cycle_count))
            IN  /\ load' = total
                /\ irq_load' = IrqLoads(interrupts, irq_diff, total, irq_load)
    BY <1>9 DEF ParseProcStat
  <2>2. load' \in [Objects -> Nat]
    BY <2>1, CpuLoadsFacts, SetLoadFacts
  <2>3. irq_load' = IrqLoads(interrupts, irq_diff, load', irq_load)
    BY <2>1
  <2>4. interrupts \in [Holders -> Seq(Irqs)]
    BY <1>2 DEF TypeOK
  <2>5. irq_load' \in [Irqs -> Nat]
    BY <1>1, <2>2, <2>3, <2>4, HeldFacts, SharesFit
  <2> QED
    BY <1>1, <1>9, <2>2, <2>5 DEF ParseProcStat, LoadTypes, dbVars
<1>10. CASE StatFails
  <2>1. PICK sample \in StatSamples, n \in 0 .. Len(cpus) - 1 :
            load' = CpuLoads(load, sample, Range(SubSeq(cpus, 1, n)), cycle_count)
    BY <1>10 DEF StatFails
  <2>2. Range(SubSeq(cpus, 1, n)) \subseteq Range(cpus)
    BY <2>1, ListAssumption DEF Range
  <2>3. load' \in [Objects -> Nat]
    BY <2>1, <2>2, CpuLoadsFacts
  <2> QED
    BY <1>1, <1>10, <2>3 DEF StatFails, LoadTypes, dbVars
<1> QED
  BY <1>3, <1>4, <1>5, <1>6, <1>7, <1>8, <1>9, <1>10
     DEF Next, Cycle, Rebuilding, Parsing, Selecting, Placing, Activating, CalmStep, CarryStep

\* Before parse_proc_stat hands out new shares the irqs on the objects have none.
Cleared ==
    /\ pc = "force" => \A i \in Irqs : irq_load[i] = 0
    /\ pc \in {"parse", "clear", "stat"} =>
          \A o \in Objects : \A i \in Range(interrupts[o]) : irq_load[i] = 0

\* The steps after that.
LEMMA LaterSteps ==
    ParseProcStat \/ StatFails \/ Selecting \/ Placing \/ Activating \/ RequestRescan
        => pc' \notin {"force", "parse", "clear", "stat"}
<1> USE DEF loopVars, MayTry, AfterStat
<1> DEFINE Later == pc' \notin {"force", "parse", "clear", "stat"}
<1>1. ParseProcStat \/ StatFails \/ RequestRescan => Later
  BY DEF ParseProcStat, StatFails, RequestRescan
<1>2. Gather \/ PassObject \/ OpenObject \/ MoveCandidate \/ KeepCandidate => Later
  BY DEF Gather, PassObject, OpenObject, MoveCandidate, KeepCandidate
<1>3. EndCandidates \/ EnterPowersave \/ EmptyPowersave \/ EndPowersave \/ EndObjects => Later
  BY DEF EndCandidates, EnterPowersave, EmptyPowersave, EndPowersave, EndObjects
<1>4. SortRebalance \/ PlaceInNode \/ NotPlaced \/ EndPlace \/ OpenDomain => Later
  BY DEF SortRebalance, PlaceInNode, NotPlaced, EndPlace, OpenDomain
<1>5. PushDown \/ StayHere \/ CloseDomain \/ EndDomains => Later
  BY DEF PushDown, StayHere, CloseDomain, EndDomains
<1>6. SkipActivation \/ AlreadyApplied \/ WriteSucceeds \/ WriteFailsForNow => Later
  BY DEF SkipActivation, AlreadyApplied, WriteSucceeds, WriteFailsForNow
<1>7. WriteFailsForGood \/ NoSpace \/ FallbackSucceeds \/ FallbackFull => Later
  BY DEF WriteFailsForGood, NoSpace, FallbackSucceeds, FallbackFull
<1>8. FallbackRefused \/ GiveUp \/ EndScan => Later
  BY DEF FallbackRefused, GiveUp, EndScan
<1> QED
  BY <1>1, <1>2, <1>3, <1>4, <1>5, <1>6, <1>7, <1>8 DEF Selecting, Placing, Activating

\* clear_work_stats clears every irq an object holds, and nothing gives one a share
\* before parse_proc_stat does.
LEMMA ClearedNext ==
    ASSUME IInv, OnReached, Cleared, Next
    PROVE  Cleared'
<1>1. TypeOK /\ ListsAgree
  BY DEF IInv, ListInv
<1>2. /\ interrupts \in [Holders -> Seq(Irqs)] /\ Objects \subseteq Holders
      /\ \A o \in Objects : Range(interrupts[o]) \subseteq Irqs
  BY <1>1, ListTypes, ObjectFacts DEF TypeOK
<1>3. CASE Build
  BY <1>3 DEF Build, Cleared
<1>4. CASE ForceAll
  BY <1>4 DEF ForceAll, Cleared
<1>5. CASE ClearSlots
  BY <1>2, <1>5 DEF ClearSlots, Cleared, irqVars
<1>6. CASE StartScan
  <2>1. /\ interrupts' = interrupts /\ irq_load' = ClearedLoads /\ pc' = "parse"
    BY <1>6 DEF StartScan, irqVars
  <2>2. ASSUME NEW o \in Objects, NEW i \in Range(interrupts[o]) PROVE ClearedLoads[i] = 0
    <3>1. i \in Irqs /\ o \in Reachable
      BY <1>2, HeldFacts
    <3> QED
      BY <3>1 DEF ClearedLoads
  <2> QED
    BY <2>1, <2>2 DEF Cleared
<1>7. CASE ParseLine \/ LineMismatch
  <2>1. /\ pc = "parse" /\ pc' = "parse" /\ irq_load' = irq_load
        /\ \/ interrupts' = interrupts
           \/ interrupts' = [interrupts EXCEPT ![NULL] = Append(@, Head(work))]
    BY <1>7 DEF ParseLine, LineMismatch, FindOrAdd, proc_irq_hotplug
  <2>2. \A o \in Objects : interrupts'[o] = interrupts[o]
    BY <1>2, <2>1, ObjectFacts
  <2> QED
    BY <2>1, <2>2 DEF Cleared
<1>8. CASE HotplugFails \/ NoMemory \/ EndParse \/ KeepExisting \/ ClearBanned
  <2>1. /\ UNCHANGED <<interrupts, irq_load>> /\ pc \in {"parse", "clear"}
        /\ pc' # "force"
    BY <1>8 DEF HotplugFails, NoMemory, EndParse, KeepExisting, ClearBanned, irqVars
  <2> QED
    BY <2>1 DEF Cleared
<1>9. CASE RemoveNoExisting
  <2>1. /\ pc = "clear" /\ pc' = "clear" /\ interrupts' = RemovedFrom(Head(work))
        /\ irq_load' = [irq_load EXCEPT ![Head(work)] = 0]
    BY <1>9 DEF RemoveNoExisting
  <2>2. ASSUME NEW o \in Objects PROVE Range(interrupts'[o]) \subseteq Range(interrupts[o])
    <3>1. /\ interrupts[o] \in Seq(Irqs) /\ IsInjective(interrupts[o])
          /\ interrupts'[o] \in {interrupts[o], RemoveFirst(interrupts[o], Head(work))}
      BY <1>1, <1>2, <2>1 DEF ListsAgree, RemovedFrom
    <3> QED
      BY <3>1, RemoveFirstFacts
  <2>3. \A o \in Objects : \A i \in Range(interrupts[o]) : i \in Irqs /\ irq_load[i] = 0
    BY <1>2, <2>1 DEF Cleared
  <2>4. \A i : irq_load'[i] = irq_load[i] \/ irq_load'[i] = 0
    BY <2>1
  <2> QED
    BY <2>1, <2>2, <2>3, <2>4 DEF Cleared
<1>10. CASE ParseProcStat \/ StatFails \/ Selecting \/ Placing \/ Activating \/ RequestRescan
  BY <1>10, LaterSteps DEF Cleared
<1> QED
  BY <1>3, <1>4, <1>5, <1>6, <1>7, <1>8, <1>9, <1>10 DEF Next, Cycle, Rebuilding, Parsing

-----------------------------------------------------------------------------
(* The subtractions of move_candidate_irqs                                 *)

\* The shares of the irqs an object holds do not exceed its load.
SharesWithin(w, l, lists) ==
    \A o \in Objects : Weight(SharesOf(w), Range(lists[o])) <= l[o]

\* update_migration_status only compares loads that hold their shares, and the irqs
\* move_candidate_irqs has still to look at are in what is left of the load of the object.
Fits ==
    /\ pc \in {"gather", "objects", "candidates", "powersave"} =>
          SharesWithin(irq_load, load, interrupts)
    /\ pc \in {"objects", "candidates"} => lb.min \in Nat
    /\ pc = "candidates" =>
          /\ lb.adj \in Nat /\ lb.min <= lb.adj
          /\ Weight(SharesOf(irq_load), Range(work)) <= lb.adj

\* Lists that lose irqs still fit.
LEMMA FitsLess ==
    ASSUME NEW w \in [Irqs -> Nat], NEW l \in [Objects -> Nat],
           NEW old \in [Holders -> Seq(Irqs)], NEW new,
           \A o \in Objects : Range(new[o]) \subseteq Range(old[o]),
           SharesWithin(w, l, old)
    PROVE  SharesWithin(w, l, new)
<1> SUFFICES ASSUME NEW o \in Objects
             PROVE  Weight(SharesOf(w), Range(new[o])) <= l[o]
  BY DEF SharesWithin
<1> DEFINE S == Range(new[o])
           T == Range(old[o])
           v == SharesOf(w)
<1>1. T \subseteq Irqs
  BY ObjectFacts DEF Range
<1>2. S \in SUBSET Irqs /\ S \subseteq T
  BY <1>1
<1>3. v \in [Irqs -> Nat] /\ \A i \in S : v[i] <= v[i]
  BY <1>2 DEF SharesOf
<1>4. Weight(v, T) <= l[o] /\ l[o] \in Nat
  BY DEF SharesWithin
<1> HIDE DEF S, T, v
<1>5. Weight(v, S) \in Nat /\ Weight(v, T) \in Nat /\ Weight(v, S) <= Weight(v, T)
  BY <1>2, <1>3, WeightMonotone
<1>6. Weight(v, S) <= l[o]
  BY <1>4, <1>5
<1> QED
  BY <1>6 DEF S, v

\* Irqs without a load fit anywhere.
LEMMA FitsCleared ==
    ASSUME NEW w \in [Irqs -> Nat], NEW l \in [Objects -> Nat],
           NEW lists \in [Holders -> Seq(Irqs)],
           \A o \in Objects : \A i \in Range(lists[o]) : w[i] = 0
    PROVE  SharesWithin(w, l, lists)
<1> SUFFICES ASSUME NEW o \in Objects
             PROVE  Weight(SharesOf(w), Range(lists[o])) <= l[o]
  BY DEF SharesWithin
<1> DEFINE S == Range(lists[o])
           v == SharesOf(w)
<1>1. S \in SUBSET Irqs
  BY ObjectFacts DEF Range
<1>2. v \in [Irqs -> Nat] /\ \A i \in S : v[i] = 0
  BY <1>1 DEF SharesOf
<1> HIDE DEF S, v
<1>3. \A i \in S : v[i] <= 0 * v[i]
  BY <1>1, <1>2
<1>4. Weight(v, S) \in Nat /\ Weight(v, S) <= 0 * Weight(v, S)
  BY <1>1, <1>2, <1>3, WeightScaled
<1>5. Weight(v, S) = 0
  BY <1>4
<1>6. l[o] \in Nat
  OBVIOUS
<1> QED
  BY <1>5, <1>6 DEF S, v

\* The first irq of a list and the others.
LEMMA FitsHead ==
    ASSUME NEW w \in [Irqs -> Nat], NEW S \in SUBSET Irqs, NEW x \in Irqs, x \notin S
    PROVE  /\ Weight(SharesOf(w), S) \in Nat
           /\ Weight(SharesOf(w), S \cup {x}) \in Nat
           /\ Weight(SharesOf(w), S) <= Weight(SharesOf(w), S \cup {x})
           /\ w[x] > 1 => Weight(SharesOf(w), S) + w[x] = Weight(SharesOf(w), S \cup {x})
<1> DEFINE v == SharesOf(w)
<1>1. v \in [Irqs -> Nat] /\ (w[x] > 1 => v[x] = w[x]) /\ v[x] \in Nat
  BY DEF SharesOf
<1> HIDE DEF v
<1>2. \A i \in S : v[i] <= v[i]
  BY <1>1
<1>3. Weight(v, S) \in Nat
  BY <1>1, <1>2, WeightMonotone
<1>4. Weight(v, S \cup {x}) = Weight(v, S) + v[x]
  BY <1>1, WeightAdd
<1> QED
  BY <1>1, <1>3, <1>4 DEF v

\* gather_load_stats finds the least load of a list.
LEMMA GatheredFacts ==
    ASSUME LoadTypes, NEW k \in 1 .. 4
    PROVE  LoadStats(k).min \in Nat
<1>1. ObjLists[k] \in Seq(Objects)
  BY ListAssumption DEF ObjLists
<1>2. LoadStats(k).min = IF ObjLists[k] = <<>> THEN 0
                         ELSE Min({ load[o] : o \in Range(ObjLists[k]) })
  BY SMT DEF LoadStats, NoInfo
<1>3. ASSUME ObjLists[k] # <<>>
      PROVE  Min({ load[o] : o \in Range(ObjLists[k]) }) \in Nat
  <2> DEFINE T == { load[o] : o \in Range(ObjLists[k]) }
  <2>1. Range(ObjLists[k]) \subseteq Objects
    BY <1>1 DEF Range
  <2>2. Head(ObjLists[k]) \in Range(ObjLists[k])
    BY <1>1, <1>3, TailFacts
  <2>3. T \subseteq Nat /\ T # {}
    BY <2>1, <2>2 DEF LoadTypes
  <2> HIDE DEF T
  <2>4. T \subseteq Int /\ 0 \in Int /\ \A x \in T : 0 <= x
    BY <2>3
  <2>5. \E m \in T : \A y \in T : m <= y
    BY <2>3, <2>4, LeastNumber, Zenon
  <2>6. Min(T) \in T
    BY <2>5 DEF Min
  <2> QED
    BY <2>3, <2>6 DEF T
<1> QED
  BY <1>2, <1>3

\* What the steps of update_migration_status do to the two sides.
LEMMA SidesFacts ==
    ASSUME LoopOK, LoadTypes, lb.min \in Nat
    PROVE  /\ \A o \in Objects : Counted(o).min = lb.min
           /\ \A o \in Objects : LET c == [Counted(o) EXCEPT !.adj = load[o]]
                                 IN  c.min = lb.min /\ c.adj = load[o]
           /\ \A i \in Irqs : lb.adj \in Nat /\ irq_load[i] <= lb.adj =>
                 /\ Taken(i).adj = lb.adj - irq_load[i]
                 /\ Taken(i).min \in Nat /\ Taken(i).min <= Taken(i).adj
<1>1. DOMAIN lb = DOMAIN NoInfo
  BY DEF LoopOK
<1>2. \A o \in Objects : Counted(o).min = lb.min /\ DOMAIN Counted(o) = DOMAIN NoInfo
  BY <1>1, SMT DEF Counted, NoInfo
<1>3. \A o \in Objects : LET c == [Counted(o) EXCEPT !.adj = load[o]]
                         IN  c.min = lb.min /\ c.adj = load[o]
  BY <1>2, SMT DEF NoInfo
<1>4. ASSUME NEW i \in Irqs, lb.adj \in Nat, irq_load[i] <= lb.adj
      PROVE  /\ Taken(i).adj = lb.adj - irq_load[i]
             /\ Taken(i).min \in Nat /\ Taken(i).min <= Taken(i).adj
  <2>1. irq_load[i] \in Nat
    BY DEF LoadTypes
  <2>2. /\ Taken(i).adj = lb.adj - irq_load[i]
        /\ Taken(i).min = IF lb.min + irq_load[i] > lb.adj - irq_load[i]
                          THEN lb.adj - irq_load[i] ELSE lb.min + irq_load[i]
    BY <1>1, SMT DEF Taken, NoInfo
  <2> QED
    BY <1>4, <2>1, <2>2
<1> QED
  BY <1>2, <1>3, <1>4

\* The steps outside update_migration_status.
LEMMA OtherSteps ==
    Rebuilding \/ Placing \/ Activating \/ RequestRescan \/ (Parsing /\ pc # "stat")
        => pc' \notin {"gather", "objects", "candidates", "powersave"}
<1> USE DEF loopVars, MayTry
<1> DEFINE Other == pc' \notin {"gather", "objects", "candidates", "powersave"}
<1>1. Build \/ ForceAll \/ ClearSlots \/ StartScan \/ RequestRescan => Other
  BY DEF Build, ForceAll, ClearSlots, StartScan, RequestRescan
<1>2. ParseLine \/ LineMismatch \/ HotplugFails \/ NoMemory \/ EndParse => Other
  BY DEF ParseLine, LineMismatch, HotplugFails, NoMemory, EndParse
<1>3. KeepExisting \/ RemoveNoExisting \/ ClearBanned => Other
  BY DEF KeepExisting, RemoveNoExisting, ClearBanned
<1>4. ParseProcStat \/ StatFails => pc = "stat"
  BY DEF ParseProcStat, StatFails
<1>5. SortRebalance \/ PlaceInNode \/ NotPlaced \/ EndPlace \/ OpenDomain => Other
  BY DEF SortRebalance, PlaceInNode, NotPlaced, EndPlace, OpenDomain
<1>6. PushDown \/ StayHere \/ CloseDomain \/ EndDomains => Other
  BY DEF PushDown, StayHere, CloseDomain, EndDomains
<1>7. SkipActivation \/ AlreadyApplied \/ WriteSucceeds \/ WriteFailsForNow => Other
  BY DEF SkipActivation, AlreadyApplied, WriteSucceeds, WriteFailsForNow
<1>8. WriteFailsForGood \/ NoSpace \/ FallbackSucceeds \/ FallbackFull => Other
  BY DEF WriteFailsForGood, NoSpace, FallbackSucceeds, FallbackFull
<1>9. FallbackRefused \/ GiveUp \/ EndScan => Other
  BY DEF FallbackRefused, GiveUp, EndScan
<1> QED
  BY <1>1, <1>2, <1>3, <1>4, <1>5, <1>6, <1>7, <1>8, <1>9
     DEF Rebuilding, Parsing, Placing, Activating

\* force_rebalance_irq, called by update_migration_status, adds nothing to any object.
LEMMA ForcedFacts ==
    ASSUME IInv, LoadTypes, MoveCandidate \/ EmptyPowersave
    PROVE  /\ load' = load /\ irq_load' = irq_load
           /\ \A o \in Objects : Range(interrupts'[o]) \subseteq Range(interrupts[o])
<1> DEFINE i == Head(work)
<1>1. TypeOK /\ ListsAgree /\ PhaseOK
  BY DEF IInv, ListInv
<1>2. /\ work # <<>> /\ pc \in {"candidates", "powersave"} /\ irq_load' = irq_load
      /\ force_rebalance_irq(i)
  BY DEF MoveCandidate, EmptyPowersave
<1>3. i \in Irqs /\ assigned_obj[i] # NULL
  BY <1>1, <1>2, HeadFacts DEF PhaseOK
<1>4. assigned_obj[i] \in Objects
  BY <1>1, <1>3, ObjectFacts DEF TypeOK
<1>5. /\ interrupts \in [Holders -> Seq(Irqs)] /\ NULL \notin Objects /\ NULL \in Holders
      /\ Objects \subseteq Holders
  BY <1>1, ObjectFacts DEF TypeOK
<1>6. CASE level[i] = "NONE"
  BY <1>2, <1>6 DEF force_rebalance_irq
<1>7. CASE level[i] # "NONE"
  <2>1. /\ load' = LoadAfter(assigned_obj[i], NULL, i)
        /\ interrupts' = ListsAfter(assigned_obj[i], NULL, i)
    BY <1>2, <1>3, <1>7 DEF force_rebalance_irq, migrate_irq_obj
  <2>2. load' = load
    BY <1>5, <2>1 DEF LoadAfter, LoadTypes
  <2>3. ASSUME NEW o \in Objects PROVE Range(interrupts'[o]) \subseteq Range(interrupts[o])
    <3>1. /\ interrupts[o] \in Seq(Irqs) /\ IsInjective(interrupts[o])
          /\ interrupts'[o] \in {interrupts[o], RemoveFirst(interrupts[o], i)}
      BY <1>1, <1>4, <1>5, <2>1 DEF ListsAgree, ListsAfter
    <3> QED
      BY <3>1, RemoveFirstFacts
  <2> QED
    BY <1>2, <2>2, <2>3
<1> QED
  BY <1>6, <1>7

\* parse_proc_stat hands out shares that fit, and no step takes one beyond what is left.
LEMMA FitsNext ==
    ASSUME IInv, LoadTypes, LoadTypes', OnReached, Cleared, Fits, Next
    PROVE  Fits'
<1>1. TypeOK /\ LoopOK /\ ListsAgree
  BY DEF IInv, ListInv
<1>2. /\ interrupts \in [Holders -> Seq(Irqs)] /\ Objects \subseteq Holders
      /\ work \in Seq(Irqs) /\ objs \in Seq(Objects)
  BY <1>1, ObjectFacts DEF TypeOK
<1>3. /\ load \in [Objects -> Nat] /\ irq_load \in [Irqs -> Nat]
      /\ load' \in [Objects -> Nat] /\ irq_load' \in [Irqs -> Nat]
      /\ irq_diff \in [Irqs -> Nat]
  BY DEF LoadTypes
<1>4. CASE Rebuilding \/ Placing \/ Activating \/ RequestRescan \/ (Parsing /\ pc # "stat")
  BY <1>4, OtherSteps DEF Fits
<1>5. CASE ParseProcStat
  <2>1. /\ irq_load' = IrqLoads(interrupts, irq_diff, load', irq_load)
        /\ interrupts' = interrupts /\ pc' \notin {"objects", "candidates"}
    BY <1>5 DEF ParseProcStat, irqVars, AfterStat
  <2>2. SharesWithin(irq_load', load', interrupts)
    BY <1>2, <1>3, <2>1, HeldFacts, SharesFit DEF SharesWithin
  <2> QED
    BY <2>1, <2>2 DEF Fits
<1>6. CASE StatFails
  <2>1. /\ irq_load' = irq_load /\ interrupts' = interrupts
        /\ pc = "stat" /\ pc' \notin {"objects", "candidates"}
    BY <1>6 DEF StatFails, irqVars, AfterStat
  <2>2. \A o \in Objects : \A i \in Range(interrupts[o]) : irq_load[i] = 0
    BY <2>1 DEF Cleared
  <2>3. SharesWithin(irq_load, load', interrupts)
    BY <1>2, <1>3, <2>2, FitsCleared
  <2> QED
    BY <2>1, <2>3 DEF Fits
<1>7. CASE Gather
  <2>1. /\ pc = "gather" /\ pc' = "objects" /\ lb' = LoadStats(lb.list + 1)
        /\ UNCHANGED <<load, irq_load, interrupts>>
    BY <1>7 DEF Gather, irqVars, objVars
  <2>2. lb.list + 1 \in 1 .. 4
    BY <1>1, <2>1 DEF LoopOK
  <2>3. lb'.min \in Nat
    BY <2>1, <2>2, GatheredFacts
  <2> QED
    BY <2>1, <2>3 DEF Fits
<1>8. CASE PassObject
  <2>1. /\ pc = "objects" /\ pc' = "objects" /\ lb' = Counted(Head(objs)) /\ objs # <<>>
        /\ UNCHANGED <<load, irq_load, interrupts>>
    BY <1>8 DEF PassObject, irqVars, objVars
  <2>2. Head(objs) \in Objects /\ lb.min \in Nat
    BY <1>2, <2>1, TailFacts DEF Fits
  <2>3. lb'.min = lb.min
    BY <1>1, <2>1, <2>2, SidesFacts
  <2> QED
    BY <2>1, <2>2, <2>3 DEF Fits
<1>9. CASE OpenObject
  <2> DEFINE o == Head(objs)
  <2>1. /\ pc = "objects" /\ pc' = "candidates" /\ objs # <<>> /\ load[o] > lb.min
        /\ lb' = [Counted(o) EXCEPT !.adj = load[o]]
        /\ UNCHANGED <<load, irq_load>>
    BY <1>9 DEF OpenObject, objVars, HasCandidates
  <2>2. o \in Objects /\ lb.min \in Nat /\ load[o] \in Nat
    BY <1>2, <1>3, <2>1, TailFacts DEF Fits
  <2>3. lb'.min = lb.min /\ lb'.adj = load[o]
    BY <1>1, <2>1, <2>2, SidesFacts
  <2>4. PICK s \in SortedLists(interrupts[o]) :
            interrupts' = [interrupts EXCEPT ![o] = s] /\ work' = s
    BY <1>9 DEF OpenObject
  <2>5. interrupts[o] \in Seq(Irqs)
    BY <1>2, <2>2
  <2>6. Range(s) = Range(interrupts[o])
    BY <2>4, <2>5, SortedFacts
  <2>7. \A p \in Objects : Range(interrupts'[p]) = Range(interrupts[p])
    BY <1>2, <2>2, <2>4, <2>6
  <2>8. SharesWithin(irq_load, load, interrupts)
    BY <2>1 DEF Fits
  <2>9. SharesWithin(irq_load, load, interrupts')
    BY <2>7, <2>8 DEF SharesWithin
  <2>10. Weight(SharesOf(irq_load), Range(work')) <= load[o]
    BY <2>2, <2>4, <2>6, <2>8 DEF SharesWithin
  <2>11. lb'.min \in Nat /\ lb'.adj \in Nat /\ lb'.min <= lb'.adj
    BY <2>1, <2>2, <2>3
  <2> QED
    BY <2>1, <2>3, <2>9, <2>10, <2>11 DEF Fits
<1>10. CASE MoveCandidate
  <2> DEFINE i == Head(work)
             S == Range(Tail(work))
  <2>1. /\ pc = "candidates" /\ pc' = "candidates" /\ work # <<>> /\ work' = Tail(work)
        /\ lb' = Taken(i) /\ irq_load[i] > 1
    BY <1>10 DEF MoveCandidate, Movable
  <2>2. /\ i \in Irqs /\ i \notin S /\ Range(work) = S \cup {i} /\ S \in SUBSET Irqs
        /\ irq_load[i] > 1
    BY <1>1, <1>2, <2>1, HeadFacts, ListTypes, ObjectFacts
  <2>3. /\ lb.min \in Nat /\ lb.adj \in Nat /\ SharesWithin(irq_load, load, interrupts)
        /\ Weight(SharesOf(irq_load), S \cup {i}) <= lb.adj
    BY <2>1, <2>2 DEF Fits
  <2>4. /\ load' = load /\ irq_load' = irq_load
        /\ \A o \in Objects : Range(interrupts'[o]) \subseteq Range(interrupts[o])
    BY <1>10, ForcedFacts
  <2>5. SharesWithin(irq_load, load, interrupts')
    BY <1>2, <1>3, <2>3, <2>4, FitsLess
  <2>6. /\ Weight(SharesOf(irq_load), S) \in Nat /\ irq_load[i] \in Nat
        /\ Weight(SharesOf(irq_load), S) + irq_load[i] <= lb.adj
    <3>1. /\ Weight(SharesOf(irq_load), S) \in Nat
          /\ Weight(SharesOf(irq_load), S) + irq_load[i]
                = Weight(SharesOf(irq_load), S \cup {i})
      BY <1>3, <2>2, FitsHead
    <3>2. irq_load[i] \in Nat
      BY <1>3, <2>2
    <3> HIDE DEF S, i
    <3> QED
      BY <2>3, <3>1, <3>2
  <2>7. irq_load[i] <= lb.adj
    <3> HIDE DEF S, i
    <3> QED
      BY <2>3, <2>6
  <2>8. /\ lb'.adj = lb.adj - irq_load[i] /\ lb'.min \in Nat /\ lb'.min <= lb'.adj
    BY <1>1, <2>1, <2>2, <2>3, <2>7, SidesFacts
  <2>9. lb'.adj \in Nat /\ Weight(SharesOf(irq_load), Range(work')) <= lb'.adj
    <3>1. Weight(SharesOf(irq_load), Range(work')) = Weight(SharesOf(irq_load), S)
      BY <2>1
    <3> HIDE DEF S, i
    <3> QED
      BY <2>3, <2>6, <2>7, <2>8, <3>1
  <2> QED
    BY <2>1, <2>4, <2>5, <2>8, <2>9 DEF Fits
<1>11. CASE KeepCandidate
  <2> DEFINE i == Head(work)
             S == Range(Tail(work))
  <2>1. /\ pc = "candidates" /\ pc' = "candidates" /\ work # <<>> /\ work' = Tail(work)
        /\ UNCHANGED <<lb, load, irq_load, interrupts>>
    BY <1>11 DEF KeepCandidate, irqVars, objVars
  <2>2. i \in Irqs /\ i \notin S /\ Range(work) = S \cup {i} /\ S \in SUBSET Irqs
    BY <1>1, <1>2, <2>1, HeadFacts, ListTypes, ObjectFacts
  <2>3. lb.adj \in Nat /\ Weight(SharesOf(irq_load), S \cup {i}) <= lb.adj
    BY <2>1, <2>2 DEF Fits
  <2>4. Weight(SharesOf(irq_load), S) <= lb.adj
    <3>1. /\ Weight(SharesOf(irq_load), S) \in Nat
          /\ Weight(SharesOf(irq_load), S \cup {i}) \in Nat
          /\ Weight(SharesOf(irq_load), S) <= Weight(SharesOf(irq_load), S \cup {i})
      BY <1>3, <2>2, FitsHead
    <3> HIDE DEF S, i
    <3> QED
      BY <2>3, <3>1
  <2>5. Weight(SharesOf(irq_load), Range(work')) <= lb.adj
    BY <2>1, <2>4
  <2> QED
    BY <2>1, <2>5 DEF Fits
<1>12. CASE EndCandidates \/ EnterPowersave \/ EndPowersave \/ EndObjects
  <2>1. /\ pc \in {"objects", "candidates", "powersave"}
        /\ UNCHANGED <<load, irq_load, interrupts>>
        /\ pc' # "candidates"
        /\ pc' = "objects" => pc = "candidates" /\ lb' = lb
    BY <1>12 DEF EndCandidates, EnterPowersave, EndPowersave, EndObjects, irqVars, objVars
  <2> QED
    BY <2>1 DEF Fits
<1>13. CASE EmptyPowersave
  <2>1. pc = "powersave" /\ pc' = "powersave"
    BY <1>13 DEF EmptyPowersave
  <2>2. SharesWithin(irq_load, load, interrupts)
    BY <2>1 DEF Fits
  <2>3. /\ load' = load /\ irq_load' = irq_load
        /\ \A o \in Objects : Range(interrupts'[o]) \subseteq Range(interrupts[o])
    BY <1>13, ForcedFacts
  <2>4. SharesWithin(irq_load, load, interrupts')
    BY <1>2, <1>3, <2>2, <2>3, FitsLess
  <2> QED
    BY <2>1, <2>3, <2>4 DEF Fits
<1>14. Parsing => pc # "stat" \/ ParseProcStat \/ StatFails
  BY DEF Parsing, StartScan, ParseLine, LineMismatch, HotplugFails, NoMemory, EndParse,
         KeepExisting, RemoveNoExisting, ClearBanned
<1> QED
  BY <1>4, <1>5, <1>6, <1>7, <1>8, <1>9, <1>10, <1>11, <1>12, <1>13, <1>14
     DEF Next, Cycle, Selecting

\* What the cycle knows about loads.
LoadInv == LoadTypes /\ OnReached /\ Cleared /\ Fits

\* It holds while no step is taken.
LEMMA LoadStutter == LoadInv /\ UNCHANGED vars => LoadInv'
<1> SUFFICES ASSUME LoadInv, UNCHANGED vars PROVE LoadInv'
  OBVIOUS
<1>1. UNCHANGED <<pc, work, lb, interrupts, assigned_obj, irq_diff, irq_load, load>>
  BY DEF vars, loopVars, dbVars, irqVars, objVars
<1>2. LoadTypes' /\ OnReached' /\ Cleared'
  BY <1>1 DEF LoadInv, LoadTypes, OnReached, Cleared
<1>3. Fits'
  BY <1>1 DEF LoadInv, Fits, SharesWithin
<1> QED
  BY <1>2, <1>3 DEF LoadInv

\* Whatever the kernel reports and whichever irqs have moved, gone or come since the last
\* sample, the unsigned subtractions of move_candidate_irqs do not wrap: an irq is never
\* worth more than what is left of the load of its object.  It is enough that a fallback
\* cannot put an irq on a cpu that the walk down from the nodes does not reach.
THEOREM LoadsNeverWrap == Mirrored \/ CpusReached => (Spec => []NoWrap)
<1>1. Init => LoadInv
  <2> SUFFICES ASSUME Init PROVE LoadInv
    OBVIOUS
  <2>1. LoadTypes /\ OnReached
    BY DEF Init, LoadTypes, OnReached
  <2>2. Cleared /\ Fits
    BY DEF Init, Cleared, Fits
  <2> QED
    BY <2>1, <2>2 DEF LoadInv
<1>2. ASSUME Mirrored \/ CpusReached
      PROVE  IInv /\ CycleInv /\ LoadInv /\ [Next]_vars => LoadInv'
  <2> SUFFICES ASSUME IInv, CycleInv, LoadInv, [Next]_vars PROVE LoadInv'
    OBVIOUS
  <2>1. CASE UNCHANGED vars
    BY <2>1, LoadStutter
  <2>2. CASE Next
    <3>1. LoadTypes /\ OnReached /\ Cleared /\ Fits /\ Unplaced
      BY DEF LoadInv, CycleInv
    <3>2. LoadTypes' /\ OnReached' /\ Cleared'
      BY <1>2, <2>2, <3>1, LoadTypesNext, ReachedNext, ClearedNext
    <3>3. Fits'
      BY <2>2, <3>1, <3>2, FitsNext
    <3> QED
      BY <3>2, <3>3 DEF LoadInv
  <2> QED
    BY <2>1, <2>2
<1>3. IInv /\ LoadInv => NoWrap
  <2> SUFFICES ASSUME IInv, LoadInv, pc = "candidates"
               PROVE  /\ lb.min <= lb.adj
                      /\ work # <<>> /\ Movable(Head(work)) => irq_load[Head(work)] <= lb.adj
    BY DEF NoWrap
  <2>1. /\ lb.adj \in Nat /\ lb.min <= lb.adj /\ irq_load \in [Irqs -> Nat]
        /\ Weight(SharesOf(irq_load), Range(work)) <= lb.adj
    BY DEF LoadInv, Fits, LoadTypes
  <2>2. ASSUME work # <<>>, Movable(Head(work)) PROVE irq_load[Head(work)] <= lb.adj
    <3> DEFINE i == Head(work)
               S == Range(Tail(work))
    <3>1. i \in Irqs /\ i \notin S /\ Range(work) = S \cup {i} /\ irq_load[i] > 1
      BY <2>2, HeadFacts DEF Movable
    <3>2. S \in SUBSET Irqs
      BY <3>1, ListTypes, ObjectFacts DEF IInv
    <3>3. /\ Weight(SharesOf(irq_load), S) \in Nat /\ irq_load[i] \in Nat
          /\ Weight(SharesOf(irq_load), S) + irq_load[i]
                = Weight(SharesOf(irq_load), S \cup {i})
      BY <2>1, <3>1, <3>2, FitsHead
    <3>4. Weight(SharesOf(irq_load), S \cup {i}) <= lb.adj
      BY <2>1, <3>1
    <3> HIDE DEF S, i
    <3>5. irq_load[i] <= lb.adj
      BY <2>1, <3>3, <3>4
    <3> QED
      BY <3>5 DEF i
  <2> QED
    BY <2>1, <2>2
<1>4. CASE Mirrored \/ CpusReached
  <2>1. IInv /\ CycleInv /\ LoadInv /\ [Next]_vars => LoadInv'
    BY <1>2, <1>4
  <2> QED
    BY <1>1, <1>3, <2>1, Inductive, CycleInductive, PTL DEF Spec
<1> QED
  BY <1>4
=============================================================================
