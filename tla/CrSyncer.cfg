SPECIFICATION Spec
CONSTANTS
    ConflictErrorLimit = 2
    MaxUser = 3
    MaxRobot = 0
    MaxFaults = 0
    MaxEvents = 2
    Configs <- PlainStatus
CHECK_DEADLOCK FALSE
INVARIANTS
    SyncTypeOK
    OrphansOnly
PROPERTIES
    Quiet
