SPECIFICATION Spec
CONSTANTS
    NULL = NULL
    Objects <- SmpObjects
    obj_type <- SmpType
    children <- SmpChildren
    parent <- SmpParent
    mask <- SmpMask
    numa_nodes <- SmpNodes
    packages <- SmpPackages
    cache_domains <- SmpCaches
    cpus <- SmpCpus
    NoNode = "node"
    numa_avail = FALSE
    CpuIds = {0, 1, 2, 9}
    cpu_online_map = {0, 1, 2, 9}
    banned_cpus = {9}
    Irqs <- ThreeIrqs
    KernelIrqs <- Everything
    IrqDiffs = {1, 3}
    StatSamples <- Varied
    BannedIrqs = {}
    Unreadable = {}
    Events = {"stat"}
    DefaultAffinity = {0, 1}
    policy_level <- CoreCache
    numa_node <- AnyNode
    power_thresh = 1
    migrate_ratio = 2
    MAX_FALLBACK_ATTEMPTS = 8
    PowersaveCycles = 0
    NsPerTick = 1
    class <- Classes
INVARIANTS NoWrap PowersaveEmpty
