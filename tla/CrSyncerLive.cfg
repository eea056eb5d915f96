SPECIFICATION Spec
CONSTANTS
    ConflictErrorLimit = 1
    MaxUser = 3
    MaxRobot = 1
    MaxFaults = 1
    MaxEvents = 2
    Configs <- BothSources
CHECK_DEADLOCK FALSE
PROPERTIES
    SpecConverges
    StatusConverges
    
