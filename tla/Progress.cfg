SPECIFICATION FairSpec
CONSTANTS
    NULL = NULL
    Objects <- PrivateObjects
    obj_type <- PrivateType
    children <- PrivateChildren
    parent <- PrivateParent
    mask <- PrivateMask
    numa_nodes <- SmpNodes
    packages <- SmpPackages
    cache_domains <- SmpCaches
    cpus <- TwoCpus
    NoNode = "node"
    numa_avail = FALSE
    CpuIds = {0, 1}
    cpu_online_map = {0, 1}
    banned_cpus = {}
    Irqs <- ThreeIrqs
    KernelIrqs <- BannedComeAndGo
    IrqDiffs = {2}
    StatSamples <- Idle
    BannedIrqs = {3}
    Unreadable = {}
    Events = {"enospc", "transient"}
    DefaultAffinity = {0, 1}
    policy_level <- CoreCache
    numa_node <- AnyNode
    power_thresh = NULL
    migrate_ratio = 0
    MAX_FALLBACK_ATTEMPTS = 8
    PowersaveCycles = 0
    NsPerTick = 1
    class <- Classes
PROPERTIES EventuallyPlaced EventuallyApplied BannedIrqsSpared
