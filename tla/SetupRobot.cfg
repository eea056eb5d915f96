SPECIFICATION Spec
CONSTANTS
    Kinds = {"robot", "public", "foreign", "cloud"}
    MaxTokens = 2
    MaxDocker = 2
    MaxEdits = 1
    MaxFaults = 2
CHECK_DEADLOCK FALSE
INVARIANTS SetupInv
PROPERTIES NothingLost SetUp
