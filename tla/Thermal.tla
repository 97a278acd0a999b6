------------------------------ MODULE Thermal -------------------------------
(***************************************************************************)
(* Thermal events (thermal.c).  The kernel reports the capabilities of all *)
(* online cpus after each change, in several netlink messages.  The daemon *)
(* collects the reports until it has seen as many cpus as are online, then *)
(* bans those that can do no work and asks for a rescan.                   *)
(*                                                                         *)
(* The kernel's side is external: it goes on while the daemon reads, cpus  *)
(* come and go, and messages that find the socket's buffer full are lost.  *)
(***************************************************************************)
EXTENDS Naturals, Sequences, FiniteSets, SequencesExt

CONSTANTS
    CpuIds,          \* cpus of the machine
    BootCpus,        \* the ones that are online at first
    NR_CPUS,         \* the width of a cpumask_t
    Capabilities,    \* what a cpu may be reported with: <<performance, efficiency>>
    MessageSize,     \* records the kernel puts in a message
    BufferSize,      \* messages the socket holds
    Replies,         \* answers to the request for the thermal family
    MaxEvents        \* bound: events and hotplugs

\* Failures passed over before the connection is given up.
MAX_RECV_ERRS == 2

ASSUME ThermalAssumption ==
    /\ IsFiniteSet(CpuIds)
    /\ CpuIds \subseteq 0 .. NR_CPUS - 1
    /\ BootCpus \subseteq CpuIds
    /\ Capabilities \subseteq Nat \X Nat
    /\ MessageSize \in Nat \ {0}
    /\ Replies \subseteq {"group", "other group", "ack", "missing", "refused", "error"}
    /\ NR_CPUS \in Nat /\ BufferSize \in Nat /\ MaxEvents \in Nat

VARIABLES
    stage,           \* where init_thermal or the main loop is
    group_id,        \* the reply named the group of thermal events
    condition,       \* what poll reported of the socket
    records,         \* what is left of the message being handled
    banmask, itrmask, thermal_banned_cpus, need_rescan, retry,
    banned_cpus,     \* the thermal part of the bans of the tree
    online, queue,
    overrun,         \* a message was lost since the last read
    sent,            \* cpus without capability in the last event the daemon is told of
    window,          \* records seen since a mask was last decided
    aligned,         \* no message was lost and no cpu came or went so far
    events           \* what is left of MaxEvents

readVars == <<condition, records>>
maskVars == <<banmask, itrmask, thermal_banned_cpus, need_rescan, window>>
kernelVars == <<online, queue, overrun, sent, aligned, events>>
vars == <<stage, group_id, readVars, maskVars, kernelVars, retry, banned_cpus>>

\* main() calls init_thermal.
Init ==
    /\ stage = "prepare" /\ group_id = FALSE
    /\ condition = {} /\ records = <<>>
    /\ banmask = {} /\ itrmask = {} /\ thermal_banned_cpus = {}
    /\ need_rescan = FALSE /\ window = {}
    /\ retry = 0 /\ banned_cpus = {}
    /\ online = BootCpus /\ queue = <<>> /\ overrun = FALSE /\ sent = {}
    /\ aligned = TRUE /\ events = MaxEvents

-----------------------------------------------------------------------------
(* The kernel (external)                                                   *)

Event == events > 0 /\ events' = events - 1

\* The socket has joined the group of thermal events.
Joined == stage \in {"register", "nonblocking", "loop", "dispatch", "handle"}

\* The online cpus, each of them once, in the order of their numbers.
OnlineInOrder ==
    { s \in SetToSeqs(online) : \A a, b \in DOMAIN s : a < b => s[a] < s[b] }

\* The messages of an event: a record for each of the cpus, MessageSize at a time.
Messages(cap, cpus) ==
    LET all == [k \in 1 .. Len(cpus) |->
                   [cpu |-> cpus[k], perf |-> cap[cpus[k]][1], effi |-> cap[cpus[k]][2]]]
        n == (Len(all) + MessageSize - 1) \div MessageSize
    IN  [m \in 1 .. n |->
            SubSeq(all, (m - 1) * MessageSize + 1,
                   IF m * MessageSize < Len(all) THEN m * MessageSize ELSE Len(all))]

\* A cpu with no performance and no efficiency cannot handle interrupts.
Incapable(r) == r.perf = 0 /\ r.effi = 0

\* The capabilities change.  What does not fit into the buffer is lost.
CapabilityChange ==
    /\ Joined
    /\ Event
    /\ \E cap \in [online -> Capabilities], cpus \in OnlineInOrder :
          LET msgs == queue \o Messages(cap, cpus)
              fits == Len(msgs) <= BufferSize
          IN  /\ queue' = SubSeq(msgs, 1, IF fits THEN Len(msgs) ELSE BufferSize)
              /\ overrun' = (overrun \/ ~fits)
              /\ aligned' = (aligned /\ fits)
              /\ sent' = { c \in online : cap[c] = <<0, 0>> }
    /\ UNCHANGED <<stage, group_id, readVars, maskVars, retry, banned_cpus, online>>

\* An event of another kind; its message has no records for this handler.
OtherEvent ==
    /\ Joined
    /\ Event
    /\ Len(queue) < BufferSize
    /\ queue' = Append(queue, <<>>)
    /\ UNCHANGED <<stage, group_id, readVars, maskVars, retry, banned_cpus, online,
                   overrun, sent, aligned>>

CpuHotplug ==
    /\ Event
    /\ \E c \in CpuIds :
          online' = IF c \in online THEN online \ {c} ELSE online \cup {c}
    /\ online' # {}
    /\ aligned' = FALSE
    /\ UNCHANGED <<stage, group_id, readVars, maskVars, retry, banned_cpus, queue,
                   overrun, sent>>

-----------------------------------------------------------------------------
(* init_thermal                                                            *)

\* The step `here' of init_thermal; a failure goes to deinit_thermal and main()
\* carries on without thermal events.
SetUp(here, next) ==
    /\ stage = here
    /\ stage' \in {next, "off"}
    /\ UNCHANGED <<group_id, readVars, maskVars, kernelVars, retry, banned_cpus>>

\* prepare_netlink
Prepare == SetUp("prepare", "establish")

\* establish_netlink up to the loop that waits for the reply
Establish == SetUp("establish", "reply")

\* A message of the reply to the request for the thermal family.
Reply(r) == stage = "reply" /\ r \in Replies

\* handle_groupid: the message may or may not have the group of thermal events.
GroupReply ==
    /\ \/ Reply("group") /\ group_id' = TRUE
       \/ Reply("other group") /\ UNCHANGED group_id
    /\ UNCHANGED <<stage, readVars, maskVars, kernelVars, retry, banned_cpus>>

\* handle_end, after which establish_netlink joins the group.
AckReply ==
    /\ Reply("ack")
    /\ \/ group_id /\ stage' = "register"
       \/ stage' = "off"
    /\ UNCHANGED <<group_id, readVars, maskVars, kernelVars, retry, banned_cpus>>

\* handle_error: for ENOENT, which has the number of NLE_INTR, NL_STOP makes
\* nl_recvmsgs fail; after any other error callback_rc is not 0 and the next read
\* waits for a message that never comes.
ErrorReply ==
    /\ \/ Reply("missing") /\ stage' = "off"
       \/ Reply("refused") /\ stage' = "blocked"
    /\ UNCHANGED <<group_id, readVars, maskVars, kernelVars, retry, banned_cpus>>

\* nl_recvmsgs itself fails.
NoReply ==
    /\ Reply("error")
    /\ stage' = "off"
    /\ UNCHANGED <<group_id, readVars, maskVars, kernelVars, retry, banned_cpus>>

\* register_netlink_handler
Register == SetUp("register", "nonblocking")

\* set_netlink_nonblocking; main() then enters the loop.
SetNonblocking == SetUp("nonblocking", "loop")

-----------------------------------------------------------------------------
(* The main loop                                                           *)

\* GLib (external) finds the socket readable or in error.
Poll ==
    /\ stage = "loop"
    /\ condition' = (IF queue # <<>> THEN {"IN"} ELSE {})
                        \cup (IF overrun THEN {"ERR"} ELSE {})
    /\ condition' # {}
    /\ stage' = "dispatch"
    /\ UNCHANGED <<group_id, records, maskVars, kernelVars, retry, banned_cpus>>

\* receive_thermal_event with anything but G_IO_IN alone: nothing is read.
Ignore ==
    /\ stage = "dispatch"
    /\ condition # {"IN"}
    /\ stage' = "loop"
    /\ condition' = {}
    /\ UNCHANGED <<group_id, records, maskVars, kernelVars, retry, banned_cpus>>

\* nl_recvmsgs reads a message.
Receive ==
    /\ stage = "dispatch"
    /\ condition = {"IN"}
    /\ ~overrun
    /\ records' = Head(queue)
    /\ queue' = Tail(queue)
    /\ stage' = "handle"
    /\ condition' = {}
    /\ UNCHANGED <<group_id, maskVars, retry, banned_cpus, online, overrun, sent,
                   aligned, events>>

\* nl_recvmsgs fails: the buffer overran after poll.  retry counts all failures,
\* also those with successful reads between them.
ReceiveFails ==
    /\ stage = "dispatch"
    /\ condition = {"IN"}
    /\ overrun
    /\ overrun' = FALSE
    /\ retry' = retry + 1
    /\ stage' = IF retry + 1 <= MAX_RECV_ERRS THEN "loop" ELSE "off"
    /\ condition' = {}
    /\ UNCHANGED <<group_id, records, maskVars, banned_cpus, online, queue, sent,
                   aligned, events>>

\* Faulty variant: a window that leaves the bans as they are is not closed.
update_banned_cpus_KeepsMask(c, need_to_ban) ==
    LET ban == IF need_to_ban THEN banmask \cup {c} ELSE banmask
        itr == itrmask \cup {c}
        closes == Cardinality(itr) >= Cardinality(online)
        changes == closes /\ ban # thermal_banned_cpus
    IN  /\ banmask' = IF changes THEN {} ELSE ban
        /\ itrmask' = IF closes THEN {} ELSE itr
        /\ thermal_banned_cpus' = IF changes THEN ban ELSE thermal_banned_cpus
        /\ need_rescan' = (need_rescan \/ changes)
        /\ window' = IF closes THEN {} ELSE window \cup {Head(records)}

\* Faulty variant: the window waits for one cpu more than there are.
update_banned_cpus_Waits(c, need_to_ban) ==
    LET ban == IF need_to_ban THEN banmask \cup {c} ELSE banmask
        itr == itrmask \cup {c}
        closes == Cardinality(itr) > Cardinality(online)
        changes == closes /\ ban # thermal_banned_cpus
    IN  /\ banmask' = IF closes THEN {} ELSE ban
        /\ itrmask' = IF closes THEN {} ELSE itr
        /\ thermal_banned_cpus' = IF changes THEN ban ELSE thermal_banned_cpus
        /\ need_rescan' = (need_rescan \/ changes)
        /\ window' = IF closes THEN {} ELSE window \cup {Head(records)}

\* The window closes once it has as many cpus as are online at this moment.
update_banned_cpus(c, need_to_ban) ==
    LET ban == IF need_to_ban THEN banmask \cup {c} ELSE banmask
        itr == itrmask \cup {c}
        closes == Cardinality(itr) >= Cardinality(online)
        changes == closes /\ ban # thermal_banned_cpus
    IN  /\ banmask' = IF closes THEN {} ELSE ban
        /\ itrmask' = IF closes THEN {} ELSE itr
        /\ thermal_banned_cpus' = IF changes THEN ban ELSE thermal_banned_cpus
        /\ need_rescan' = (need_rescan \/ changes)
        /\ window' = IF closes THEN {} ELSE window \cup {Head(records)}

\* A record of handle_thermal_event; an invalid one is passed over.
HandleRecord ==
    /\ stage = "handle"
    /\ records # <<>>
    /\ IF Head(records).cpu <= NR_CPUS
       THEN update_banned_cpus(Head(records).cpu, Incapable(Head(records)))
       ELSE UNCHANGED maskVars
    /\ records' = Tail(records)
    /\ UNCHANGED <<stage, group_id, condition, kernelVars, retry, banned_cpus>>

EndMessage ==
    /\ stage = "handle"
    /\ records = <<>>
    /\ stage' = "loop"
    /\ UNCHANGED <<group_id, readVars, maskVars, kernelVars, retry, banned_cpus>>

\* The next scan() rebuilds the tree; setup_banned_cpus adds the thermal bans.
Rescan ==
    /\ stage \in {"loop", "off"}
    /\ need_rescan
    /\ need_rescan' = FALSE
    /\ banned_cpus' = thermal_banned_cpus
    /\ UNCHANGED <<stage, group_id, readVars, banmask, itrmask, thermal_banned_cpus,
                   window, kernelVars, retry>>

\* A scan() with nothing to rescan, or the read that never returns.
Idle ==
    /\ stage \in {"loop", "off", "blocked"}
    /\ UNCHANGED vars

SettingUp == \/ Prepare \/ Establish \/ GroupReply \/ AckReply \/ ErrorReply
             \/ NoReply \/ Register \/ SetNonblocking

Reading == Poll \/ Ignore \/ Receive \/ ReceiveFails \/ HandleRecord \/ EndMessage

Next == \/ SettingUp \/ Reading \/ Rescan \/ Idle
        \/ CapabilityChange \/ OtherEvent \/ CpuHotplug

\* The thread runs: the socket is read when it has something, and the timer fires.
Spec == Init /\ [][Next]_vars /\ WF_vars(SettingUp) /\ WF_vars(Reading)
             /\ WF_vars(Rescan)

-----------------------------------------------------------------------------
(* Properties                                                              *)

\* Every variable has the type of what it stands for.
TypeOK ==
    /\ stage \in {"prepare", "establish", "reply", "register", "nonblocking",
                  "loop", "dispatch", "handle", "off", "blocked"}
    /\ group_id \in BOOLEAN /\ need_rescan \in BOOLEAN /\ overrun \in BOOLEAN
    /\ condition \subseteq {"IN", "ERR"}
    /\ banmask \subseteq CpuIds /\ itrmask \subseteq CpuIds
    /\ thermal_banned_cpus \subseteq CpuIds /\ banned_cpus \subseteq CpuIds
    /\ online \subseteq CpuIds /\ sent \subseteq CpuIds
    /\ retry \in 0 .. (IF stage = "off" THEN MAX_RECV_ERRS + 1 ELSE MAX_RECV_ERRS)
    /\ Len(queue) <= BufferSize
    /\ events \in 0 .. MaxEvents

\* update_banned_cpus decides on nothing but the reports of one window: when the
\* bans change, they are the cpus reported incapable since the last decision,
\* whatever was lost and whoever came or went meanwhile.
WindowSound ==
    [][thermal_banned_cpus' # thermal_banned_cpus =>
          thermal_banned_cpus' =
              { r.cpu : r \in { s \in window \cup {Head(records)} : Incapable(s) } }]_vars

\* Every event takes effect: while no message is lost and no cpu comes or goes, the
\* tree ends up without exactly the cpus last reported incapable.
EventTakesEffect ==
    (aligned /\ banned_cpus # sent) ~> (banned_cpus = sent \/ ~aligned \/ stage = "off")

\* An overrun is noticed: the comment of receive_thermal_event has a failure passed
\* over a few times and the connection turned off if failures go on, so a socket in
\* error is read, which clears the error, or given up.
OverrunHandled == overrun ~> (~overrun \/ stage = "off")
=============================================================================
