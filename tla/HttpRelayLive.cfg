SPECIFICATION Spec
CONSTANTS
    Ids = {i1}
    Servers = {s1}
    Posts = {p1, p2}
    Polls = {g1}
    Gets = {h1}
    NoId = NoId
    NoServer = NoServer
    NoSlot = NoSlot
    RelayName = s1
    ReapTicks = 2
    RetryTicks = 2
    MaxRetries = 0
    MaxMessages = 2
    MaxFaults = 1
    MaxUploads = 1
    MaxRestarts = 0
CHECK_DEADLOCK FALSE
PROPERTIES
    UserAnswered
    EntryReclaimed
