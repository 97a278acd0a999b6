SPECIFICATION Spec
CONSTANTS
    NULL = NULL
    Objects <- EmulatedObjects
    obj_type <- EmulatedType
    children <- EmulatedChildren
    parent <- EmulatedParent
    mask <- EmulatedMask
    numa_nodes <- NumaNodes
    packages <- SmpPackages
    cache_domains <- OneCache
    cpus <- TwoCpus
    NoNode = "any"
    numa_avail = TRUE
    CpuIds = {0, 1, 9}
    cpu_online_map = {0, 1, 9}
    banned_cpus = {9}
    Irqs <- TwoIrqs
    KernelIrqs <- Everything
    IrqDiffs = {2}
    StatSamples <- Idle
    BannedIrqs = {}
    Unreadable = {}
    Events = {}
    DefaultAffinity = {0, 1}
    policy_level <- CoreCache
    numa_node <- FirstOnNode1
    power_thresh = NULL
    migrate_ratio = 0
    MAX_FALLBACK_ATTEMPTS = 8
    PowersaveCycles = 0
    NsPerTick = 1
    class <- Classes
PROPERTIES BannedCpusSpared
