--------------------------- MODULE ThermalProofs ----------------------------
(***************************************************************************)
(* Proofs about Thermal, for every machine and every behaviour of the      *)
(* kernel.                                                                 *)
(***************************************************************************)
EXTENDS Thermal, SequenceFacts, FiniteSetTheorems

\* The cpus a set of records reports incapable.
HotIn(W) == { r.cpu : r \in { s \in W : Incapable(s) } }

\* The ban under construction is what the open window says.
MaskInv == banmask = HotIn(window)

\* One more record adds its cpu to the cpus a window reports hot, or not.
LEMMA HotInAdds ==
    ASSUME NEW W, NEW r
    PROVE  HotIn(W \cup {r}) = IF Incapable(r) THEN HotIn(W) \cup {r.cpu} ELSE HotIn(W)
<1>1. CASE Incapable(r)
  <2>1. { s \in W \cup {r} : Incapable(s) } = { s \in W : Incapable(s) } \cup {r}
    BY <1>1
  <2> QED
    BY <1>1, <2>1, Zenon DEF HotIn
<1>2. CASE ~Incapable(r)
  <2>1. { s \in W \cup {r} : Incapable(s) } = { s \in W : Incapable(s) }
    BY <1>2
  <2> QED
    BY <1>2, <2>1 DEF HotIn
<1> QED
  BY <1>1, <1>2

\* Only a record changes the masks.
LEMMA MasksKept ==
    ASSUME [Next]_vars, ~HandleRecord
    PROVE  UNCHANGED <<banmask, itrmask, thermal_banned_cpus, window>>
<1>1. CASE SettingUp
  BY <1>1 DEF SettingUp, Prepare, Establish, GroupReply, AckReply, ErrorReply,
              NoReply, Register, SetNonblocking, SetUp, maskVars
<1>2. CASE Reading
  BY <1>2 DEF Reading, Poll, Ignore, Receive, ReceiveFails, EndMessage, maskVars
<1>3. CASE Rescan
  BY <1>3 DEF Rescan
<1>4. CASE CapabilityChange
  BY <1>4 DEF CapabilityChange, maskVars
<1>5. CASE OtherEvent
  BY <1>5 DEF OtherEvent, maskVars
<1>6. CASE CpuHotplug
  BY <1>6 DEF CpuHotplug, maskVars
<1>7. CASE Idle \/ UNCHANGED vars
  BY <1>7 DEF Idle, vars, maskVars
<1> QED
  BY <1>1, <1>2, <1>3, <1>4, <1>5, <1>6, <1>7 DEF Next

\* What a record does: the window either closes, and its bans become the bans, or
\* takes the record in.
LEMMA RecordFacts ==
    ASSUME MaskInv, HandleRecord
    PROVE  /\ MaskInv'
           /\ thermal_banned_cpus' # thermal_banned_cpus =>
                 thermal_banned_cpus' = HotIn(window \cup {Head(records)})
<1> DEFINE r == Head(records)
           ban == IF Incapable(r) THEN banmask \cup {r.cpu} ELSE banmask
<1>1. CASE ~(r.cpu <= NR_CPUS)
  BY <1>1 DEF HandleRecord, maskVars, MaskInv
<1>2. CASE r.cpu <= NR_CPUS
  <2>1. update_banned_cpus(r.cpu, Incapable(r))
    BY <1>2 DEF HandleRecord
  <2>2. ban = HotIn(window \cup {r})
    BY HotInAdds DEF MaskInv
  <2>3. HotIn({}) = {}
    BY DEF HotIn
  <2>4. \/ banmask' = {} /\ window' = {}
        \/ banmask' = ban /\ window' = window \cup {r}
    BY <2>1 DEF update_banned_cpus
  <2>5. thermal_banned_cpus' # thermal_banned_cpus => thermal_banned_cpus' = ban
    BY <2>1 DEF update_banned_cpus
  <2>6. MaskInv'
    BY <2>2, <2>3, <2>4 DEF MaskInv
  <2> QED
    BY <2>2, <2>5, <2>6
<1> QED
  BY <1>1, <1>2

\* update_banned_cpus never bans a cpu for a report of an earlier window, nor
\* forgets one of the present window.
THEOREM WindowAlwaysSound == Spec => WindowSound
<1>1. Init => MaskInv
  BY DEF Init, MaskInv, HotIn
<1>2. MaskInv /\ [Next]_vars => MaskInv'
  <2> SUFFICES ASSUME MaskInv, [Next]_vars
               PROVE  MaskInv'
    OBVIOUS
  <2>1. CASE HandleRecord
    BY <2>1, RecordFacts
  <2>2. CASE ~HandleRecord
    BY <2>2, MasksKept DEF MaskInv
  <2> QED
    BY <2>1, <2>2
<1>3. MaskInv /\ [Next]_vars =>
        [thermal_banned_cpus' # thermal_banned_cpus =>
            thermal_banned_cpus' = HotIn(window \cup {Head(records)})]_vars
  <2> SUFFICES ASSUME MaskInv, [Next]_vars,
                      thermal_banned_cpus' # thermal_banned_cpus
               PROVE  thermal_banned_cpus' = HotIn(window \cup {Head(records)})
    OBVIOUS
  <2>1. HandleRecord
    BY MasksKept
  <2> QED
    BY <2>1, RecordFacts
<1> QED
  BY <1>1, <1>2, <1>3, PTL DEF Spec, WindowSound, HotIn

-----------------------------------------------------------------------------
(* Types                                                                   *)

\* The constants, one by one.
LEMMA ConstantFacts ==
    /\ IsFiniteSet(CpuIds) /\ BootCpus \subseteq CpuIds
    /\ MessageSize \in Nat /\ MessageSize > 0
    /\ BufferSize \in Nat /\ MaxEvents \in Nat
    /\ \A c \in Capabilities : c[1] \in Nat /\ c[2] \in Nat
<1>1. /\ IsFiniteSet(CpuIds) /\ BootCpus \subseteq CpuIds
      /\ MessageSize \in Nat \ {0} /\ BufferSize \in Nat /\ MaxEvents \in Nat
      /\ Capabilities \subseteq Nat \X Nat
  BY ThermalAssumption, Zenon
<1>2. MessageSize \in Nat /\ MessageSize > 0
  <2>1. MessageSize \in Nat /\ MessageSize # 0
    BY <1>1, Zenon
  <2> QED
    BY <2>1
<1>3. ASSUME NEW c \in Capabilities PROVE c[1] \in Nat /\ c[2] \in Nat
  <2>1. c \in Nat \X Nat
    BY <1>1, <1>3, Zenon
  <2> QED
    BY <2>1
<1>4. /\ IsFiniteSet(CpuIds) /\ BootCpus \subseteq CpuIds
      /\ BufferSize \in Nat /\ MaxEvents \in Nat
  BY <1>1, Zenon
<1> QED
  BY <1>2, <1>3, <1>4, Zenon

\* What the kernel reports about a cpu.
Records == [cpu : CpuIds, perf : Nat, effi : Nat]

\* The types, what is in the messages, and that a socket reported as readable still is
\* when receive_thermal_event gets to read it.
TypeInv ==
    /\ TypeOK
    /\ queue \in Seq(Seq(Records)) /\ records \in Seq(Records)
    /\ stage = "dispatch" /\ "IN" \in condition => queue # <<>>

\* The messages of an event are lists of records.
LEMMA MessageTypes ==
    ASSUME TypeInv, NEW cap \in [online -> Capabilities], NEW cpus \in OnlineInOrder
    PROVE  Messages(cap, cpus) \in Seq(Seq(Records))
<1> DEFINE all == [k \in 1 .. Len(cpus) |->
                      [cpu |-> cpus[k], perf |-> cap[cpus[k]][1], effi |-> cap[cpus[k]][2]]]
           n == (Len(all) + MessageSize - 1) \div MessageSize
           last(m) == IF m * MessageSize < Len(all) THEN m * MessageSize ELSE Len(all)
           msg == [m \in 1 .. n |-> SubSeq(all, (m - 1) * MessageSize + 1, last(m))]
<1>1. online \subseteq CpuIds /\ IsFiniteSet(online)
  BY ConstantFacts, FS_Subset DEF TypeInv, TypeOK
<1>2. Cardinality(online) \in Nat
  BY <1>1, FS_CardinalityType
<1>3. cpus \in [1 .. Cardinality(online) -> online]
  BY DEF OnlineInOrder, SetToSeqs
<1>4. cpus \in Seq(online)
  BY <1>2, <1>3, FunctionIsSeq
<1>5. \A k \in 1 .. Len(cpus) : cpus[k] \in CpuIds /\ cap[cpus[k]] \in Capabilities
  BY <1>1, <1>4
<1>6. all \in Seq(Records) /\ Len(all) \in Nat
  BY <1>4, <1>5, ConstantFacts DEF Records
<1> HIDE DEF all
<1>7. n \in Nat
  <2>1. MessageSize \in Nat /\ MessageSize > 0
    BY ConstantFacts
  <2> QED
    BY <1>6, <2>1
<1>8. ASSUME NEW m \in 1 .. n
      PROVE  SubSeq(all, (m - 1) * MessageSize + 1, last(m)) \in Seq(Records)
  <2>1. /\ (m - 1) * MessageSize \in Nat /\ m * MessageSize \in Nat
    BY <1>7, ConstantFacts
  <2>2. last(m) \in 0 .. Len(all)
    BY <1>6, <2>1
  <2> HIDE DEF last
  <2>3. \A a \in Nat, b \in 0 .. Len(all) : SubSeq(all, a + 1, b) \in Seq(Records)
    BY <1>6
  <2> QED
    BY <2>1, <2>2, <2>3
<1> HIDE DEF n, last
<1>9. msg \in Seq(Seq(Records))
  BY <1>7, <1>8
<1> QED
  BY <1>9 DEF Messages, all, n, last

\* No step leaves them: every record is about a cpu of the machine, a message is only taken
\* from a queue that has one, and a failure to read is counted or ends the connection.
LEMMA TypesNext == TypeInv /\ [Next]_vars => TypeInv'
<1> SUFFICES ASSUME TypeInv, [Next]_vars PROVE TypeInv'
  OBVIOUS
<1> USE DEF TypeInv, TypeOK, MAX_RECV_ERRS
<1>1. CASE SettingUp
  <2>1. /\ stage' \in {"establish", "reply", "register", "nonblocking", "loop", "off", "blocked"}
        /\ stage # "off" /\ group_id' \in BOOLEAN
        /\ UNCHANGED <<readVars, maskVars, kernelVars, retry, banned_cpus>>
    BY <1>1 DEF SettingUp, Prepare, Establish, GroupReply, AckReply, ErrorReply, NoReply,
                Register, SetNonblocking, SetUp, Reply
  <2>2. retry' \in 0 .. 2
    BY <2>1
  <2> QED
    BY <2>1, <2>2 DEF readVars, maskVars, kernelVars
<1>2. CASE Poll \/ Ignore \/ EndMessage
  BY <1>2 DEF Poll, Ignore, EndMessage, readVars, maskVars, kernelVars
<1>3. CASE Receive
  <2>1. queue # <<>>
    BY <1>3 DEF Receive
  <2>2. /\ Head(queue) \in Seq(Records) /\ Tail(queue) \in Seq(Seq(Records))
        /\ Len(Tail(queue)) <= BufferSize
    BY <2>1, ConstantFacts
  <2> QED
    BY <1>3, <2>2 DEF Receive, maskVars
<1>4. CASE ReceiveFails
  <2>1. /\ retry' = retry + 1 /\ stage' = IF retry + 1 <= 2 THEN "loop" ELSE "off"
        /\ stage = "dispatch" /\ overrun' = FALSE /\ condition' = {}
        /\ UNCHANGED <<group_id, records, maskVars, banned_cpus, online, queue, sent, events>>
    BY <1>4 DEF ReceiveFails
  <2>2. retry \in 0 .. 2
    BY <2>1
  <2>3. retry' \in 0 .. (IF stage' = "off" THEN 2 + 1 ELSE 2)
    BY <2>1, <2>2
  <2> QED
    BY <2>1, <2>3 DEF maskVars
<1>5. CASE HandleRecord
  <2>1. Head(records).cpu \in CpuIds /\ Tail(records) \in Seq(Records)
    <3>1. records # <<>>
      BY <1>5 DEF HandleRecord
    <3>2. Head(records) \in Records /\ Tail(records) \in Seq(Records)
      BY <3>1
    <3> QED
      BY <3>2 DEF Records
  <2>2. /\ banmask' \subseteq CpuIds /\ itrmask' \subseteq CpuIds
        /\ thermal_banned_cpus' \subseteq CpuIds /\ need_rescan' \in BOOLEAN
    BY <1>5, <2>1 DEF HandleRecord, update_banned_cpus, maskVars
  <2> QED
    BY <1>5, <2>1, <2>2 DEF HandleRecord, kernelVars
<1>6. CASE Rescan
  BY <1>6 DEF Rescan, readVars, kernelVars
<1>7. CASE CapabilityChange
  <2>1. PICK cap \in [online -> Capabilities], cpus \in OnlineInOrder :
            LET msgs == queue \o Messages(cap, cpus)
                fits == Len(msgs) <= BufferSize
            IN  /\ queue' = SubSeq(msgs, 1, IF fits THEN Len(msgs) ELSE BufferSize)
                /\ overrun' = (overrun \/ ~fits)
                /\ sent' = { c \in online : cap[c] = <<0, 0>> }
    BY <1>7 DEF CapabilityChange
  <2> DEFINE msgs == queue \o Messages(cap, cpus)
  <2>2. msgs \in Seq(Seq(Records)) /\ Len(msgs) >= Len(queue)
    <3>1. Messages(cap, cpus) \in Seq(Seq(Records))
      BY MessageTypes
    <3> QED
      BY <3>1
  <2>3. /\ queue' = SubSeq(msgs, 1, IF Len(msgs) <= BufferSize THEN Len(msgs) ELSE BufferSize)
        /\ overrun' \in BOOLEAN /\ sent' \subseteq CpuIds
    BY <2>1
  <2> HIDE DEF msgs
  <2> DEFINE k == IF Len(msgs) <= BufferSize THEN Len(msgs) ELSE BufferSize
  <2>4. /\ queue' = SubSeq(msgs, 1, k) /\ k \in Nat /\ k <= BufferSize
        /\ k <= Len(msgs) /\ Len(queue) <= k
    <3>1. Len(queue) \in Nat /\ Len(queue) <= BufferSize /\ Len(msgs) \in Nat
      BY <2>2
    <3> QED
      BY <2>2, <2>3, <3>1, ConstantFacts
  <2> HIDE DEF k
  <2>5. queue' \in Seq(Seq(Records)) /\ Len(queue') = k
    BY <2>2, <2>4
  <2>6. Len(queue') <= BufferSize /\ (queue # <<>> => queue' # <<>>)
    <3>1. queue # <<>> => Len(queue) >= 1
      OBVIOUS
    <3>2. Len(queue') >= 1 => queue' # <<>>
      BY <2>5
    <3>3. Len(queue') <= BufferSize
      BY <2>4, <2>5
    <3>4. queue # <<>> => Len(queue') >= 1
      <4>1. Len(queue) \in Nat /\ Len(queue) <= Len(queue') /\ Len(queue') \in Nat
        BY <2>4, <2>5
      <4> QED
        BY <3>1, <4>1
    <3> QED
      BY <3>2, <3>3, <3>4
  <2>7. events' \in 0 .. MaxEvents
    BY <1>7, ConstantFacts DEF CapabilityChange, Event
  <2> QED
    BY <1>7, <2>3, <2>5, <2>6, <2>7 DEF CapabilityChange, readVars, maskVars
<1>8. CASE OtherEvent
  <2>1. /\ queue' = Append(queue, <<>>) /\ Len(queue) < BufferSize
        /\ events' \in 0 .. MaxEvents
    BY <1>8, ConstantFacts DEF OtherEvent, Event
  <2>2. queue' \in Seq(Seq(Records)) /\ Len(queue') <= BufferSize /\ queue' # <<>>
    BY <2>1, ConstantFacts
  <2> QED
    BY <1>8, <2>1, <2>2 DEF OtherEvent, readVars, maskVars
<1>9. CASE CpuHotplug
  <2>1. events' \in 0 .. MaxEvents /\ online' \subseteq CpuIds
    BY <1>9, ConstantFacts DEF CpuHotplug, Event
  <2> QED
    BY <1>9, <2>1 DEF CpuHotplug, readVars, maskVars
<1>10. CASE Idle \/ UNCHANGED vars
  BY <1>10 DEF Idle, vars, readVars, maskVars, kernelVars
<1> QED
  BY <1>1, <1>2, <1>3, <1>4, <1>5, <1>6, <1>7, <1>8, <1>9, <1>10 DEF Next, Reading

\* Whatever is lost and whoever comes or goes: update_banned_cpus bans only cpus of the
\* machine, and receive_thermal_event keeps the connection over two failures and not over a
\* third.
THEOREM ThermalTypeCorrect == Spec => []TypeOK
<1>1. Init => TypeInv
  <2> SUFFICES ASSUME Init PROVE TypeInv
    OBVIOUS
  <2>1. /\ queue = <<>> /\ records = <<>> /\ retry = 0 /\ events = MaxEvents
        /\ stage = "prepare" /\ online = BootCpus
    BY DEF Init
  <2>2. /\ queue \in Seq(Seq(Records)) /\ Len(queue) <= BufferSize
        /\ records \in Seq(Records) /\ events \in 0 .. MaxEvents /\ online \subseteq CpuIds
    BY <2>1, ConstantFacts
  <2>3. retry \in 0 .. (IF stage = "off" THEN MAX_RECV_ERRS + 1 ELSE MAX_RECV_ERRS)
    BY <2>1 DEF MAX_RECV_ERRS
  <2> QED
    BY <2>1, <2>2, <2>3 DEF Init, TypeInv, TypeOK
<1>2. TypeInv => TypeOK
  BY DEF TypeInv
<1> QED
  BY <1>1, <1>2, TypesNext, PTL DEF Spec
=============================================================================
