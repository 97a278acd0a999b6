----------------------------- MODULE MCRebuild ------------------------------
(* Small machines for Rebuild. *)
EXTENDS Rebuild

Pci1(maj) == [readable |-> TRUE, major |-> maj, sub |-> 0, emc_board |-> FALSE]
Plain == [name |-> {}, xen_event |-> FALSE, node |-> 0]
NoScripts == [is_dir |-> FALSE, scripts |-> <<>>]
NoDevices == <<>>

Base == [
    online |-> {0, 1, 2}, banned |-> {}, numa_avail |-> TRUE,
    package |-> (0 :> 0 @@ 1 :> 0 @@ 2 :> 0), cache |-> (0 :> 0 @@ 1 :> 1 @@ 2 :> 2),
    node |-> (0 :> 0 @@ 1 :> 0 @@ 2 :> 0),
    troubles |-> {"offline", "online", "nomem"}, events |-> 2,
    devices |-> NoDevices, lines |-> 1 :> Plain,
    cl_banned_irqs |-> {}, cl_banned_modules |-> {}, policy |-> NoScripts]

\* Two nodes in one package, of two and of one cpu.
TwoNodes == [Base EXCEPT !.node = (0 :> 0 @@ 1 :> 0 @@ 2 :> 1)]

\* Two packages on one node, a cache shared by two cpus, one of them banned.
TwoPackages == [Base EXCEPT !.package = (0 :> 0 @@ 1 :> 0 @@ 2 :> 1),
                            !.cache = (0 :> 0 @@ 1 :> 0 @@ 2 :> 2), !.banned = {1}]

\* A package astride two nodes that are no smaller than it.
Astride == [Base EXCEPT !.online = 0 .. 3, !.events = 1,
    !.troubles = {"offline", "nomem"},
    !.package = (0 :> 0 @@ 1 :> 1 @@ 2 :> 1 @@ 3 :> 3),
    !.cache = [c \in 0 .. 3 |-> c], !.node = (0 :> 0 @@ 1 :> 0 @@ 2 :> 1 @@ 3 :> 1)]

\* No libnuma, one cpu offline at first.
NoNuma == [Base EXCEPT !.numa_avail = FALSE, !.package = (0 :> 0 @@ 1 :> 1 @@ 2 :> 1),
                       !.online = {0, 1}]

\* Two cpus and so little memory that a rebuild may fail three times.
Starved == [Base EXCEPT !.online = {0}, !.troubles = {"nomem"}, !.events = 3]

Line(k, v) == [key |-> k, value |-> v]
Quiet == [code |-> 1, lines |-> <<>>]
Script(x, f) == [executable |-> x,
                 says |-> [i \in 1 .. 4 |-> IF i \in DOMAIN f THEN f[i] ELSE Quiet]]

\* A network device with two irqs, one of them shared with a device of no known class;
\* irq 1 and irq 4 have lines only.
Devices ==
    <<[msi |-> TRUE, irqs |-> <<2, 3>>, pci |-> Pci1(2), node |-> 0, driver |-> {"net"}],
      [msi |-> FALSE, irqs |-> <<3>>, pci |-> Pci1(20), node |-> 7, driver |-> {}]>>
Lines == (1 :> [Plain EXCEPT !.name = {"net"}] @@ 2 :> [Plain EXCEPT !.name = {"eth0"}]
          @@ 3 :> Plain @@ 4 :> [Plain EXCEPT !.xen_event = TRUE, !.node = 0])
Small == [Base EXCEPT !.online = {0}, !.troubles = {"device", "nomem"}, !.events = 2,
                      !.devices = Devices, !.lines = Lines, !.cl_banned_irqs = {4}]

\* Modules banned by name; a script that is not for irq 2 and one for the rest.
BannedModules == [Small EXCEPT !.cl_banned_modules = {"net"}, !.cl_banned_irqs = {}]

Directory == [Small EXCEPT !.policy =
    [is_dir |-> TRUE,
     scripts |-> <<Script(FALSE, 1 :> [code |-> 0, lines |-> <<Line("ban", 1)>>]),
                   Script(TRUE, 2 :> [code |-> 1, lines |-> <<Line("balance_level", 0)>>]
                             @@ 3 :> [code |-> 2, lines |-> <<Line("ban", 1)>>]),
                   Script(TRUE, 2 :> [code |-> 0, lines |-> <<Line("numa_node", -1)>>]
                             @@ 1 :> [code |-> 0, lines |-> <<Line("balance_level", 2),
                                                              Line("balance_level", 9),
                                                              Line("numa_node", 7)>>]
                             @@ 3 :> [code |-> 0, lines |-> <<Line("color", 1)>>])>>]]

\* One script, and a serial bus controller in the place of the network device.
OneScript == [Small EXCEPT !.devices[1].pci = [Pci1(12) EXCEPT !.sub = 3], !.policy =
    [is_dir |-> FALSE,
     scripts |-> <<Script(TRUE, 2 :> [code |-> 0, lines |-> <<Line("ban", 1)>>]
                            @@ 3 :> [code |-> 1, lines |-> <<Line("ban", 1)>>])>>]]

MCMachines == {TwoNodes, TwoPackages, Astride, NoNuma, Starved,
               Small, BannedModules, Directory, OneScript}
=============================================================================
