SPECIFICATION Spec
CONSTANTS
    MaxInc = 2
    MaxGen = 2
    MaxFaults = 1
    CopyPullSecret = TRUE
CHECK_DEADLOCK FALSE
INVARIANT FinalizerGuards
