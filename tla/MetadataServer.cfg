SPECIFICATION Spec
CONSTANTS
    Instances = {1, 2}
    MaxFile = 2
    MaxSignals = 1
    MaxLost = 1
    MaxFaults = 1
INVARIANTS MetadataInv Routed
PROPERTIES GetsCurrent
