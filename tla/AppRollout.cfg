SPECIFICATION Spec
CONSTANTS
    Robots = {1}
    Apps <- TwoApps
    Specs <- SomeSpecs
    DefaultNamespace = FALSE
    Outcomes <- SomeOutcomes
    FirstApp <- App1
    FirstSpec <- Spec1
    MaxInc = 2
    MaxTenant = 1
    MaxEdits = 2
    MaxFaults = 1
CHECK_DEADLOCK FALSE
INVARIANTS
    RolloutTypeOK
PROPERTIES
    OwnLifeOnly
    AllDeployed
    StatusTrue
    OrphansGo
