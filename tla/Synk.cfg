SPECIFICATION Spec
CONSTANTS
    Callers = {c1, c2}
    Resources = {1, 2}
    Charts <- SmallCharts
    Kinds <- SmallKinds
    MaxCalls = 2
    MaxDeletes = 1
    MaxFaults = 1
CHECK_DEADLOCK FALSE
INVARIANTS
    SynkTypeOK
    Kept
PROPERTIES
    Cleaned
