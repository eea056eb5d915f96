SPECIFICATION Spec
CONSTANTS
    Kinds <- ThreeKinds
    Generated = {"g1", "g2", "g3", "g4", "g5", "g6", "g7", "g8"}
    MaxInc = 2
    MaxEdits = 2
    MaxFaults = 1
CHECK_DEADLOCK FALSE
 
PROPERTIES CreatedForTheLiving DomainKept AllReady DeletionEnds NothingLeft
