------------------------------ MODULE Console -------------------------------
(***************************************************************************)
(* irqbalance-ui at work on the daemon: the screens and editors of the     *)
(* text user interface (ui/), the requests it sends over the control       *)
(* socket, sock_handle on the other side, and the rescans that make a      *)
(* setting take effect (MainLoop has those in detail; here a rescan is one *)
(* step).  Another client, and thermal events, change the daemon's         *)
(* settings as well.                                                       *)
(*                                                                         *)
(* The interface is one thread that waits for an answer where it asks for  *)
(* data and for none where it sends a setting.  Its copies of the settings *)
(* and of the tree are as old as the last screen that fetched them: the    *)
(* timer that should renew them (rescan_tree) never runs, since key_loop   *)
(* does not return to the main loop.                                       *)
(***************************************************************************)
EXTENDS CpuMask

CONSTANTS
    Cpus,            \* the online cpus
    IsolatedCpus,    \* banned when no list has been sent
    Irqs,            \* the interrupts
    CommandLineBans, \* --banirq
    ThermalMasks,    \* masks thermal events may ban
    ClientLists,     \* the cpus another client may list with "settings cpus"
    EarlierLists,    \* those it may have sent just before the interface opens
    SleepInputs,     \* intervals that may be typed in
    INT,             \* number of values of an int
    UINT64,          \* number of values of a uint64_t
    Backlog,         \* bound: requests of one sender waiting at the socket
    Faults,          \* whether the daemon may fail to serve a request: a BOOLEAN
    MaxEvents        \* bound: settings saved or sent, thermal changes, faults

ASSUME ConsoleAssumption ==
    /\ Cpus \subseteq 0 .. nmaskbits - 1
    /\ IsolatedCpus \subseteq Cpus /\ ThermalMasks \subseteq SUBSET Cpus
    /\ Irqs \subseteq 0 .. (INT \div 2) - 1 /\ CommandLineBans \subseteq Irqs
    /\ \A list \in ClientLists : list \in Seq(0 .. nmaskbits - 1) /\ list # <<>>
    /\ EarlierLists \subseteq ClientLists
    /\ SleepInputs \subseteq Nat \ {0}
    /\ Backlog \in Nat \ {0} /\ Faults \in BOOLEAN /\ MaxEvents \in Nat
    /\ INT \in Nat /\ INT >= 4 /\ INT % 2 = 0
    /\ UINT64 \in Nat \ {0} /\ UINT64 % INT = 0

DefaultInterval == 1

\* The word that ends every list of irqs: for strtoul it is 0.
NONE == -1

VARIABLES
    banned_cpus, cpu_ban_string, thermal_banned_cpus,
    cl_banned_irqs,
    db_banned,           \* cl_banned_irqs when the irq database was built
    sleep_interval, need_rescan,
    down,                \* the daemon has followed a null pointer
    requests,            \* connections waiting at the socket
    reply,               \* what has come back over the interface's connection
    state,               \* the screen
    editor,              \* the loop that reads keys: key_loop or one of the editors
    calls,               \* what the screen has still to do
    setup, tree,         \* the interface's copies
    all_cpus, all_irqs, tmp,
    crashed,             \* the interface has followed a null pointer
    asked,               \* ghost: what the requests that were served asked for
    fresh,               \* ghost: which answers and copies are of the last rescan,
                         \* in full, and whether both copies, and all_cpus, are of one
    events               \* what is left of MaxEvents

daemonVars == <<banned_cpus, cpu_ban_string, thermal_banned_cpus, cl_banned_irqs,
                db_banned, sleep_interval, need_rescan, down>>
screenVars == <<state, editor, calls>>
copyVars == <<setup, tree, all_cpus, all_irqs, tmp>>
vars == <<daemonVars, requests, reply, screenVars, copyVars, crashed, asked, fresh,
          events>>

Alive == ~crashed

Event == events > 0 /\ events' = events - 1

\* The numbers of a list with blanks between them, as the manual page has it.
ListText(list) ==
    FlattenSeq([k \in 1 .. Len(list) |->
                   (IF k = 1 THEN <<>> ELSE <<Blank>>) \o Decimal(list[k])])

\* The word strtok returns: blanks in front are skipped, the next one ends it.
FirstWord(text) ==
    LET starts == { i \in 1 .. Len(text) : text[i] # Blank }
        i == CHOOSE k \in starts : \A j \in starts : k <= j
        ends == { k \in i .. Len(text) : \A j \in i .. k : text[j] # Blank }
    IN  IF starts = {} THEN <<>>
        ELSE SubSeq(text, i, CHOOSE k \in ends : \A j \in ends : j <= k)

\* A word that starts with NULL is no list.
BanString(word) == IF word # <<>> /\ Head(word) = "NULL" THEN <<>> ELSE word

\* Nothing has been asked for, an answer is awaited, there was none.
Nothing == [got |-> "nothing"]
Awaited == [got |-> "awaited"]
Closed == [got |-> "closed"]

AskedOnly(cpus) == [cpus |-> cpus, lost |-> FALSE, irqs |-> CommandLineBans,
                    left_out |-> {}, sleep |-> DefaultInterval]

display_tree == <<"setup", "stats">>
settings == <<"setup", "print_all_cpus">>

\* The daemon has built its tree, and may have been sent a list of cpus since then; the
\* interface opens with the tree.
Init ==
    /\ banned_cpus = IsolatedCpus /\ thermal_banned_cpus = {}
    /\ \/ cpu_ban_string = <<>> /\ need_rescan = FALSE /\ asked = AskedOnly({})
       \/ \E list \in EarlierLists :
            /\ cpu_ban_string = BanString(FirstWord(ListText(list))) /\ need_rescan = TRUE
            /\ asked = AskedOnly(Range(list))
    /\ cl_banned_irqs = CommandLineBans /\ db_banned = CommandLineBans
    /\ sleep_interval = DefaultInterval /\ down = FALSE
    /\ requests = <<>> /\ reply = Nothing
    /\ state = "tree" /\ editor = "keys" /\ calls = display_tree
    /\ setup = [sleep |-> 0, irqs |-> {}, cpus |-> {}]
    /\ tree = [cpus |-> {}, irqs |-> {}]
    /\ all_cpus = <<>> /\ all_irqs = <<>> /\ tmp = <<>>
    /\ crashed = FALSE
    /\ fresh = [reply |-> FALSE, setup |-> FALSE, tree |-> FALSE, same |-> FALSE,
                list |-> TRUE]
    /\ events = MaxEvents

-----------------------------------------------------------------------------
(* The daemon                                                              *)

\* What is left of v in an int, and of an int in a uint64_t.
ToInt(v) == IF v % INT < INT \div 2 THEN v % INT ELSE (v % INT) - INT

ToUint64(v) == v % UINT64

\* Faulty variant: the list from the interface adds to the isolated cpus.
WantedBans_Adds ==
    thermal_banned_cpus \cup IsolatedCpus \cup
        IF cpu_ban_string # <<>> THEN cpulist_parse(cpu_ban_string) ELSE {}

\* setup_banned_cpus
WantedBans ==
    thermal_banned_cpus \cup
        IF cpu_ban_string # <<>> THEN cpulist_parse(cpu_ban_string) ELSE IsolatedCpus

\* scan() finds need_rescan set and rebuilds the tree and the irq database.  A list that
\* was lost is missed now.
Rescan ==
    /\ ~down /\ need_rescan
    /\ need_rescan' = FALSE
    /\ banned_cpus' = WantedBans
    /\ db_banned' = cl_banned_irqs
    /\ asked' = [asked EXCEPT !.cpus = IF asked.lost THEN {} ELSE @, !.lost = FALSE]
    /\ fresh' = [fresh EXCEPT !.reply = FALSE, !.setup = FALSE, !.tree = FALSE]
    /\ UNCHANGED <<cpu_ban_string, thermal_banned_cpus, cl_banned_irqs, sleep_interval,
                   down, requests, reply, screenVars, copyVars, crashed, events>>

\* update_banned_cpus, at the end of a window of thermal events
Thermal ==
    /\ Event
    /\ ~down
    /\ \E S \in ThermalMasks \ {thermal_banned_cpus} : thermal_banned_cpus' = S
    /\ need_rescan' = TRUE
    /\ UNCHANGED <<banned_cpus, cpu_ban_string, cl_banned_irqs, db_banned, sleep_interval,
                   down, requests, reply, screenVars, copyVars, crashed, asked, fresh>>

\* sock_handle serves one connection at a time.
\* (`means' of a request is what its sender wants.)
Serves(what) ==
    /\ ~down
    /\ requests # <<>> /\ Head(requests).what = what /\ requests' = Tail(requests)

Means == Head(requests).means

\* There is memory for everything, or not for what is left out.
Complete(left_out) == IF left_out = {} THEN UNCHANGED events ELSE Faults /\ Event

\* "stats": every cpu that is not banned is in the tree, every irq that is not banned in
\* the database is on an object of it.  What there is no memory for is left out, an
\* object with all that is below it, and the rest is sent as if it were the whole.
SendStats ==
    /\ Serves("stats")
    /\ \E cpus \in SUBSET (Cpus \ banned_cpus), irqs \in SUBSET (Irqs \ db_banned) :
        /\ Complete(cpus \cup irqs)
        /\ reply' = [got |-> "stats", cpus |-> Cpus \ (banned_cpus \cup cpus),
                     irqs |-> Irqs \ (db_banned \cup irqs)]
        /\ fresh' = [fresh EXCEPT !.reply = cpus = {}]
    /\ UNCHANGED <<daemonVars, screenVars, copyVars, crashed, asked>>

\* "setup": the mask is the one of the last rescan, the irqs are the ones asked for,
\* without those there is no memory for.
SendSetup ==
    /\ Serves("setup")
    /\ \E irqs \in SUBSET cl_banned_irqs :
        /\ Complete(irqs)
        /\ reply' = [got |-> "setup", sleep |-> sleep_interval,
                     irqs |-> cl_banned_irqs \ irqs, mask |-> bitmap_scnprintf(banned_cpus)]
    /\ fresh' = [fresh EXCEPT !.reply = TRUE]
    /\ UNCHANGED <<daemonVars, screenVars, copyVars, crashed, asked>>

\* "settings sleep"
SettingsSleep ==
    /\ Serves("sleep")
    /\ LET new_interval == ToInt(Head(requests).value)
       IN  sleep_interval' = IF new_interval >= 1 THEN new_interval ELSE sleep_interval
    /\ asked' = [asked EXCEPT !.sleep = Means]
    /\ UNCHANGED <<banned_cpus, cpu_ban_string, thermal_banned_cpus, cl_banned_irqs,
                   db_banned, need_rescan, down, reply, screenVars, copyVars, crashed,
                   fresh, events>>

Value(token) == IF token = NONE THEN 0 ELSE token

\* The numbers strtoul finds: the first whatever it is, the others up to a 0.
ParsedIrqs(tokens) ==
    { Value(tokens[k]) : k \in { n \in 1 .. Len(tokens) :
                                  \A j \in 2 .. n : Value(tokens[j]) # 0 } }

\* "settings ban irqs".  A list that starts with NONE clears the bans, but the
\* interface puts a blank in front.  add_banned_irq leaves out what it has no memory for.
SettingsIrqs ==
    /\ Serves("irqs")
    /\ \E left_out \in SUBSET ParsedIrqs(Head(requests).tokens) :
        /\ Complete(left_out)
        /\ cl_banned_irqs' = ParsedIrqs(Head(requests).tokens) \ left_out
        /\ asked' = [asked EXCEPT !.irqs = Means, !.left_out = left_out]
    /\ need_rescan' = TRUE
    /\ UNCHANGED <<banned_cpus, cpu_ban_string, thermal_banned_cpus, db_banned,
                   sleep_interval, down, reply, screenVars, copyVars, crashed, fresh>>

\* "settings cpus": the first word of the text is the list.
SettingsCpus ==
    /\ Serves("cpus")
    /\ cpu_ban_string' = BanString(FirstWord(Head(requests).text))
    /\ need_rescan' = TRUE
    /\ asked' = [asked EXCEPT !.cpus = Means, !.lost = FALSE]
    /\ UNCHANGED <<banned_cpus, thermal_banned_cpus, cl_banned_irqs, db_banned,
                   sleep_interval, down, reply, screenVars, copyVars, crashed, fresh,
                   events>>

\* The allocation of "settings cpus" fails.  The old list is gone by then, but no rescan
\* is asked for: until there is one, its cpus stay banned.
ListLost ==
    /\ Head(requests).what = "cpus"
    /\ cpu_ban_string' = <<>>
    /\ asked' = [asked EXCEPT !.lost = TRUE]

\* Faulty variant: the connection stays open.
OutClose_Leaks ==
    /\ Event
    /\ Faults /\ ~down /\ requests # <<>>
    /\ requests' = Tail(requests)
    /\ ListLost \/ UNCHANGED <<cpu_ban_string, asked>>
    /\ UNCHANGED <<banned_cpus, thermal_banned_cpus, cl_banned_irqs, db_banned,
                   sleep_interval, need_rescan, down, reply, screenVars, copyVars, crashed,
                   fresh>>

\* The sender of a request for data finds its connection closed.
HangUp == reply' = IF Head(requests).what \in {"stats", "setup"} THEN Closed ELSE reply

\* out_close: the request cannot be read, or an allocation fails, and the connection is
\* closed without an answer.
OutClose ==
    /\ Event
    /\ Faults /\ ~down /\ requests # <<>>
    /\ requests' = Tail(requests)
    /\ HangUp
    /\ ListLost \/ UNCHANGED <<cpu_ban_string, asked>>
    /\ UNCHANGED <<banned_cpus, thermal_banned_cpus, cl_banned_irqs, db_banned,
                   sleep_interval, need_rescan, down, screenVars, copyVars, crashed, fresh>>

\* "stats" without memory for a single object: the daemon takes the length of no string.
StatsNull ==
    /\ Event
    /\ Faults /\ Serves("stats")
    /\ down' = TRUE
    /\ HangUp
    /\ UNCHANGED <<banned_cpus, cpu_ban_string, thermal_banned_cpus, cl_banned_irqs,
                   db_banned, sleep_interval, need_rescan, screenVars, copyVars, crashed,
                   asked, fresh>>

\* Nobody listens any more.
Refused ==
    /\ down /\ requests # <<>>
    /\ requests' = Tail(requests)
    /\ HangUp
    /\ UNCHANGED <<daemonVars, screenVars, copyVars, crashed, asked, fresh, events>>

-----------------------------------------------------------------------------
(* Another client                                                          *)

\* A client means the cpus it lists.
ClientSends ==
    /\ Event
    /\ \A k \in 1 .. Len(requests) : requests[k].from # "client"
    /\ \E list \in ClientLists :
          requests' = Append(requests, [from |-> "client", what |-> "cpus",
                                        text |-> ListText(list), means |-> Range(list)])
    /\ UNCHANGED <<daemonVars, reply, screenVars, copyVars, crashed, asked, fresh>>

-----------------------------------------------------------------------------
(* The interface: asking for data                                          *)

\* There is room for another request.
Room == Cardinality({ k \in 1 .. Len(requests) : requests[k].from = "ui" }) < Backlog

\* get_data sends its request and waits.
get_data ==
    /\ Alive /\ calls # <<>> /\ Head(calls) \in {"stats", "setup"}
    /\ reply = Nothing /\ reply' = Awaited
    /\ Room
    /\ requests' = Append(requests, [from |-> "ui", what |-> Head(calls)])
    /\ UNCHANGED <<daemonVars, screenVars, copyVars, crashed, asked, fresh, events>>

\* The answer to Head(calls) is there.
Answered(call) ==
    /\ Alive /\ calls # <<>> /\ Head(calls) = call
    /\ reply \notin {Nothing, Awaited} /\ reply' = Nothing
    /\ calls' = Tail(calls)

\* parse_setup keeps the old copy when there was no answer.
parse_setup ==
    /\ Answered("setup")
    /\ \/ reply = Closed /\ UNCHANGED <<setup, fresh>>
       \/ /\ reply # Closed
          /\ setup' = [sleep |-> reply.sleep, irqs |-> reply.irqs,
                       cpus |-> parse_banned(reply.mask)]
          /\ fresh' = [fresh EXCEPT !.setup = fresh.reply,
                                          !.same = fresh.reply /\ fresh.tree]
    /\ UNCHANGED <<daemonVars, requests, state, editor, tree, all_cpus, all_irqs, tmp,
                   crashed, asked, events>>

\* parse_into_tree forgets the old copy before it looks at the answer.
parse_into_tree ==
    /\ Answered("stats")
    /\ \/ /\ reply = Closed
          /\ tree' = [cpus |-> {}, irqs |-> {}]
          /\ fresh' = [fresh EXCEPT !.tree = FALSE, !.same = FALSE]
       \/ /\ reply # Closed
          /\ tree' = [cpus |-> reply.cpus, irqs |-> reply.irqs]
          /\ fresh' = [fresh EXCEPT !.tree = fresh.reply,
                                          !.same = fresh.reply /\ fresh.setup]
    /\ UNCHANGED <<daemonVars, requests, state, editor, setup, all_cpus, all_irqs, tmp,
                   crashed, asked, events>>

\* A list with the elements of two sets, in order; what is in both is there twice.
Merged(free, banned) ==
    LET row(n, b) == <<[number |-> n, is_banned |-> b]>>
        rows(n) == (IF n \in free THEN row(n, FALSE) ELSE <<>>)
                       \o (IF n \in banned THEN row(n, TRUE) ELSE <<>>)
    IN  FlattenSeq([k \in 1 .. Max(free \cup banned \cup {0}) + 1 |-> rows(k - 1)])

\* Faulty variant: the banned cpus, which are in no tree, are left out.
CpuList_TreeOnly == Merged(tree.cpus, {})

\* get_cpu and get_banned_cpu
CpuList == Merged(tree.cpus, setup.cpus)

\* print_all_cpus makes the list when there is none; after that it is never renewed.
print_all_cpus ==
    /\ Alive /\ calls # <<>> /\ Head(calls) = "print_all_cpus"
    /\ calls' = Tail(calls)
    /\ \/ all_cpus # <<>> /\ UNCHANGED <<all_cpus, fresh>>
       \/ /\ all_cpus = <<>>
          /\ all_cpus' = CpuList
          /\ fresh' = [fresh EXCEPT !.list = fresh.same]
    /\ UNCHANGED <<daemonVars, requests, reply, state, editor, setup, tree, all_irqs, tmp,
                   crashed, asked, events>>

-----------------------------------------------------------------------------
(* The interface: keys.  'q' may end it at any time; it then asks nothing. *)

Key(loop) == Alive /\ calls = <<>> /\ editor = loop

\* get_all_irqs and its sort.  Nothing is fetched.
IrqList == Merged(tree.irqs, setup.irqs)

\* F3, F4 and F5; F4 draws the settings a second time.
Screen ==
    /\ Key("keys")
    /\ \/ state # "tree" /\ state' = "tree" /\ calls' = display_tree /\ UNCHANGED all_irqs
       \/ /\ state' = "settings" /\ UNCHANGED all_irqs
          /\ calls' = IF state = "settings" THEN settings ELSE settings \o settings
       \/ /\ state # "irqs" /\ state' = "irqs" /\ all_irqs' = IrqList
          /\ UNCHANGED calls
    /\ UNCHANGED <<daemonVars, requests, reply, editor, setup, tree, all_cpus, tmp,
                   crashed, asked, fresh, events>>

\* scroll_window
Scroll ==
    /\ Key("keys")
    /\ calls' = CASE state = "tree" -> display_tree
                  [] state = "settings" -> settings
                  [] state = "irqs" -> <<>>
    /\ all_irqs' = IF state = "irqs" THEN IrqList ELSE all_irqs
    /\ UNCHANGED <<daemonVars, requests, reply, state, editor, setup, tree, all_cpus, tmp,
                   crashed, asked, fresh, events>>

\* 'c' and 'i': an editor starts on a copy of the list.
Edit ==
    /\ Key("keys")
    /\ \/ state = "settings" /\ editor' = "cpus" /\ tmp' = all_cpus
       \/ state = "irqs" /\ editor' = "irqs" /\ tmp' = all_irqs
    /\ UNCHANGED <<daemonVars, requests, reply, state, calls, setup, tree, all_cpus,
                   all_irqs, crashed, asked, fresh, events>>

Flipped(k) == [tmp EXCEPT ![k].is_banned = ~@]

\* toggle_cpu, on row k of the list, looks for cpu number k and trusts that it is there;
\* an empty list has a row 0 as well.
toggle_cpu ==
    /\ Key("cpus")
    /\ \E row \in 0 .. Max({Len(tmp) - 1, 0}) :
        LET found == { k \in 1 .. Len(tmp) : tmp[k].number = row }
            first == CHOOSE k \in found : \A j \in found : k <= j
        IN  IF found = {} THEN crashed' = TRUE /\ UNCHANGED tmp
            ELSE tmp' = Flipped(first) /\ UNCHANGED crashed
    /\ UNCHANGED <<daemonVars, requests, reply, screenVars, setup, tree, all_cpus,
                   all_irqs, asked, fresh, events>>

\* toggle_irq takes the irq of the row.
toggle_irq ==
    /\ Key("irqs")
    /\ \E k \in 1 .. Len(tmp) : tmp' = Flipped(k)
    /\ UNCHANGED <<daemonVars, requests, reply, screenVars, setup, tree, all_cpus,
                   all_irqs, crashed, asked, fresh, events>>

\* ESC
Discard ==
    /\ editor \in {"cpus", "irqs"} /\ Key(editor)
    /\ editor' = "keys" /\ tmp' = <<>>
    /\ UNCHANGED <<daemonVars, requests, reply, state, calls, setup, tree, all_cpus,
                   all_irqs, crashed, asked, fresh, events>>

\* The numbers of the banned rows, in the order of the list.
BannedNumbers(list) ==
    FlattenSeq([k \in 1 .. Len(list) |->
                   IF list[k].is_banned THEN <<list[k].number>> ELSE <<>>])

\* 's' in handle_cpu_banning
SaveCpus ==
    /\ Event
    /\ Key("cpus") /\ Room
    /\ LET numbers == BannedNumbers(tmp)
       IN  requests' = Append(requests,
                              [from |-> "ui", what |-> "cpus", text |-> BanText(numbers),
                               means |-> Range(numbers)])
    /\ all_cpus' = tmp /\ tmp' = <<>> /\ editor' = "keys"
    /\ UNCHANGED <<daemonVars, reply, state, calls, setup, tree, all_irqs, crashed, asked,
                   fresh>>

\* 's' in handle_irq_banning.  The text is a blank, the numbers and the word NONE.
SaveIrqs ==
    /\ Event
    /\ Key("irqs") /\ Room
    /\ requests' = Append(requests, [from |-> "ui", what |-> "irqs",
                                     tokens |-> Append(BannedNumbers(tmp), NONE),
                                     means |-> Range(BannedNumbers(tmp))])
    /\ all_irqs' = tmp /\ tmp' = <<>> /\ editor' = "keys"
    /\ UNCHANGED <<daemonVars, reply, state, calls, setup, tree, all_cpus, crashed, asked,
                   fresh>>

\* handle_sleep_setting: get_valid_sleep_input returns an int, which is stored in a
\* uint64_t and sent when it differs from the copy.
SaveSleep ==
    /\ Event
    /\ Key("keys") /\ state = "settings" /\ Room
    /\ \E typed \in SleepInputs :
        LET new_sleep == ToUint64(ToInt(typed))
        IN  /\ new_sleep # setup.sleep
            /\ setup' = [setup EXCEPT !.sleep = new_sleep]
            /\ requests' = Append(requests,
                              [from |-> "ui", what |-> "sleep", value |-> new_sleep,
                               means |-> typed])
    /\ UNCHANGED <<daemonVars, reply, screenVars, tree, all_cpus, all_irqs, tmp, crashed,
                   asked, fresh>>

Serve == \/ SendStats \/ SendSetup \/ SettingsSleep \/ SettingsIrqs \/ SettingsCpus
         \/ OutClose \/ StatsNull \/ Refused

\* What the interface does by itself.
Draw == get_data \/ parse_setup \/ parse_into_tree \/ print_all_cpus

Keys == \/ Screen \/ Scroll \/ Edit \/ toggle_cpu \/ toggle_irq \/ Discard
        \/ SaveCpus \/ SaveIrqs \/ SaveSleep

Next == Rescan \/ Thermal \/ Serve \/ ClientSends \/ Draw \/ Keys

\* The daemon's loop serves the socket, and no sender keeps it waiting for its request;
\* the interface does not wait for anything but the answers.
Spec == Init /\ [][Next]_vars /\ WF_vars(Serve) /\ WF_vars(Draw)

-----------------------------------------------------------------------------
(* Properties                                                              *)

\* The daemon has nothing left to do.
Settled == requests = <<>> /\ ~need_rescan

\* Once the daemon has settled, the banned cpus are those the last request that it served
\* selected in the interface or listed for another client, with those of the thermal
\* events; the isolated ones when it selected none.  Older requests leave no trace.  One
\* that failed for lack of memory has none at first: the cpus of the one before stay
\* banned, until the next rescan, whatever asks for it, goes back to the isolated ones.
CpusAsAsked ==
    Settled => banned_cpus = thermal_banned_cpus \cup
                                IF asked.cpus = {} THEN IsolatedCpus ELSE asked.cpus

\* The same for the irqs, without those there was no memory for, and unless irq 0 is in
\* the way, which ends the daemon's reading of a list: an empty selection bans irq 0,
\* for the interface writes a blank before NONE, and a list that has it twice, made
\* between a save and its rescan, bans nothing else.
IrqsAsAsked ==
    Settled =>
        /\ db_banned = cl_banned_irqs
        /\ \/ cl_banned_irqs = asked.irqs \ asked.left_out
           \/ /\ cl_banned_irqs = {0} \ asked.left_out
              /\ asked.irqs = {} \/ 0 \in asked.irqs

\* What the manual page says of "settings cpus": the listed cpus are banned.
ListedCpusBanned == Settled => asked.cpus \subseteq banned_cpus

\* A typed interval that an int can hold is the daemon's, and no other one, however
\* large, makes it zero or negative.
SleepAsAsked ==
    /\ sleep_interval \in 1 .. (INT \div 2) - 1
    /\ asked.sleep < INT \div 2 => sleep_interval = asked.sleep

\* The daemon does what it was last asked to: settings made in the interface, or sent by
\* another client, go through texts, widths and a rescan and arrive as they were meant,
\* apart from what irq 0 and failed allocations do to them.
SettingsAsAsked == CpusAsAsked /\ IrqsAsAsked /\ SleepAsAsked

\* The cpu editor only loses its way, and follows a null pointer, when its list was
\* made from a tree and a setup of different rescans, or from a tree that the daemon did
\* not send in full.  (Then it does; no more is promised.)
EditorSafe == crashed => ~fresh.list

\* The interface is never left without an answer: every screen is drawn in the end.
ScreensDrawn == calls # <<>> ~> (calls = <<>> \/ crashed)
=============================================================================
