SPECIFICATION Spec
CONSTANTS
    CpuIds = {0, 1, 2}
    BootCpus = {0, 1}
    NR_CPUS = 3
    Capabilities <- TwoCapabilities
    MessageSize = 1
    BufferSize = 3
    Replies = {"group", "other group", "ack", "missing", "refused", "error"}
    MaxEvents = 4
PROPERTIES OverrunHandled
