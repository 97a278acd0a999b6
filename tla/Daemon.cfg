SPECIFICATION Spec
CONSTANTS
    CpuIds = {0, 1, 2}
    BootCpus = {0, 1}
    IsolatedCpus = {}
    CpuRequests <- OneList
    IrqRequests <- SomeIrqs
    Intervals = {5}
    ThermalMasks <- Masks
    Sources = {"term", "hup", "socket", "thermal"}
    Commands = {"sleep", "cpus", "irqs"}
    Troubles = {"offline", "online", "irq", "noproc", "nomem"}
    OneShotModes = {TRUE, FALSE}
    MaxEvents = 4
INVARIANTS OneTimer
PROPERTIES CompleteTree BansCurrent CountsSettle EventuallyBalances IntervalAdopted EventuallyStops HupRescans
