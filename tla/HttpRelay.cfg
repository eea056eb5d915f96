SPECIFICATION Spec
CONSTANTS
    Ids = {i1}
    Servers = {s1}
    Posts = {p1, p2}
    Polls = {g1}
    Gets = {h1}
    NoId = NoId
    NoServer = NoServer
    NoSlot = NoSlot
    RelayName = s1
    ReapTicks = 2
    RetryTicks = 2
    MaxRetries = 1
    MaxMessages = 2
    MaxFaults = 2
    MaxUploads = 1
    MaxRestarts = 1
SYMMETRY Symmetry
CHECK_DEADLOCK FALSE
INVARIANTS
    RelayTypeOK
    CloseOnce
    NoHungUser
PROPERTIES
    ImplementsStream
