SPECIFICATION Spec
CONSTANTS
    nmaskbits = 8
    CHUNKSZ = 4
    Cpus = {0, 1}
    IsolatedCpus = {0}
    Irqs = {0, 3}
    CommandLineBans = {3}
    ThermalMasks <- Masks
    ClientLists <- OneNumber
    EarlierLists <- OneNumber
    SleepInputs = {2, 5, 9}
    INT = 8
    UINT64 = 64
    Backlog = 2
    Faults = TRUE
    MaxEvents = 2
INVARIANTS SettingsAsAsked EditorSafe
PROPERTIES ScreensDrawn
CHECK_DEADLOCK FALSE
