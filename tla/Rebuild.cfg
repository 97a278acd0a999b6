SPECIFICATION Spec
CONSTANTS
    Machines <- MCMachines
INVARIANTS
    TreeRight
    MasksHold
    FailureNoticed
    SameAsRebuilt
    
    PolicyHonoured
    NodeListed
PROPERTIES
    Settles
