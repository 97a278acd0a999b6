SPECIFICATION Spec
CONSTANTS
    NULL = NULL
    Objects <- OrphanObjects
    obj_type <- OrphanType
    children <- OrphanChildren
    parent <- OrphanParent
    mask <- OrphanMask
    numa_nodes <- OrphanNodes
    packages <- SmpPackages
    cache_domains <- OneCache
    cpus <- TwoCpus
    NoNode = "any"
    numa_avail = TRUE
    CpuIds = {0, 1, 9}
    cpu_online_map = {0, 1, 9}
    banned_cpus = {9}
    Irqs <- ThreeIrqs
    KernelIrqs <- Anything
    IrqDiffs = {2}
    StatSamples <- Uneven
    BannedIrqs = {3}
    Unreadable = {}
    Events = {"rescan", "nomem", "hotplug", "mismatch"}
    DefaultAffinity = {0, 1}
    policy_level <- CoreNone
    numa_node <- AnyNode
    power_thresh = NULL
    migrate_ratio = 0
    MAX_FALLBACK_ATTEMPTS = 8
    PowersaveCycles = 0
    NsPerTick = 1
    class <- Classes
INVARIANTS ListsLive
