------------------------------ MODULE IrqLife -------------------------------
(***************************************************************************)
(* What the daemon promises about one irq, without the lists, loads, loops *)
(* and retries of the balancing cycle.  An irq waits for a place; a place  *)
(* is chosen and only ever narrowed; then the kernel is told, and from     *)
(* there on the irq is where the daemon believes it is.  An irq that is    *)
(* left alone stays so until the tree is built anew.  Balancer implements  *)
(* this module.                                                            *)
(***************************************************************************)
CONSTANTS
    Irqs,        \* irq numbers
    Places,      \* where an irq may be put
    CpusOf,      \* [Places -> set of cpus]: what the kernel is told for a place
    NoPlace,
    Opaque       \* irqs whose affinity cannot be read

VARIABLES
    status,      \* "unknown", "waiting", "chosen", "settled" or "left"
    place,       \* the place of an irq that has one
    affinity     \* what the kernel was last told, or its default

vars == <<status, place, affinity>>

Init ==
    /\ status = [i \in Irqs |-> "unknown"]
    /\ place = [i \in Irqs |-> NoPlace]

Becomes(i, s, p) ==
    /\ status' = [status EXCEPT ![i] = s]
    /\ place' = [place EXCEPT ![i] = p]

\* The irq is found; it is to be balanced, or left alone.
Discover(i) ==
    /\ status[i] = "unknown"
    /\ \E s \in {"waiting", "left"} : Becomes(i, s, NoPlace)
    /\ UNCHANGED affinity

Choose(i) ==
    /\ status[i] = "waiting"
    /\ \E p \in Places : Becomes(i, "chosen", p)
    /\ UNCHANGED affinity

\* Placement goes down the tree, never aside.
Narrow(i) ==
    /\ status[i] = "chosen"
    /\ \E p \in Places :
          CpusOf[p] \subseteq CpusOf[place[i]] /\ Becomes(i, "chosen", p)
    /\ UNCHANGED affinity

\* The kernel has the affinity of the place, which may be a fallback.  For an opaque
\* irq that is only believed.
Apply(i) ==
    /\ status[i] = "chosen"
    /\ \E p \in Places :
          /\ Becomes(i, "settled", p)
          /\ \/ affinity' = [affinity EXCEPT ![i] = CpusOf[p]]
             \/ i \in Opaque /\ UNCHANGED affinity

\* The kernel refuses for good.
Refuse(i) ==
    /\ status[i] = "chosen"
    /\ Becomes(i, "left", NoPlace)
    /\ UNCHANGED affinity

\* The irq is to go elsewhere, whether the kernel had been told or not.
Withdraw(i) ==
    /\ status[i] \in {"chosen", "settled"}
    /\ Becomes(i, "waiting", NoPlace)
    /\ UNCHANGED affinity

Vanish(i) ==
    /\ status[i] # "unknown"
    /\ Becomes(i, "unknown", NoPlace)
    /\ UNCHANGED affinity

\* The tree and the database are built anew.
Rebuild ==
    /\ status' = [i \in Irqs |-> "unknown"]
    /\ place' = [i \in Irqs |-> NoPlace]
    /\ UNCHANGED affinity

Next ==
    \/ \E i \in Irqs :
          \/ Discover(i) \/ Choose(i) \/ Narrow(i) \/ Apply(i)
          \/ Refuse(i) \/ Withdraw(i) \/ Vanish(i)
    \/ Rebuild

Spec == Init /\ [][Next]_vars
=============================================================================
