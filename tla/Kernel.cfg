SPECIFICATION Spec
CONSTANTS
    NULL = NULL
    Objects <- NumaObjects
    obj_type <- NumaType
    children <- NumaChildren
    parent <- NumaParent
    mask <- NumaMask
    numa_nodes <- NumaNodes
    packages <- NumaPackages
    cache_domains <- SmpCaches
    cpus <- SmpCpus
    NoNode = "any"
    numa_avail = TRUE
    CpuIds = {0, 1, 2, 9}
    cpu_online_map = {0, 1, 2, 9}
    banned_cpus = {9}
    Irqs <- TwoIrqs
    KernelIrqs <- Anything
    IrqDiffs = {2}
    StatSamples <- Uneven
    BannedIrqs = {}
    Unreadable = {}
    Events = {"enospc", "transient", "permanent", "rescan", "nomem", "hotplug", "mismatch"}
    DefaultAffinity = {0}
    policy_level <- CorePackage
    numa_node <- FirstOnNode1
    power_thresh = NULL
    migrate_ratio = 0
    MAX_FALLBACK_ATTEMPTS = 2
    PowersaveCycles = 0
    NsPerTick = 1
    class <- Classes
INVARIANTS TypeOK ListsAgree SlotsBounded AffinityApplied PlacementComplete NumaLocal NoIrqLost
PROPERTIES LifeRefined BannedCpusSpared
