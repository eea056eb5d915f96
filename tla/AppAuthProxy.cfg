SPECIFICATION AuthSpec
CONSTANTS
    Browsers = {"owner", "guest"}
    Requests = {"tab1", "tab2"}
    Owners <- TabOwners
    Asks <- TabAsks
    Routes <- RouteTable
    Granted <- UserGroups
    NoPage = NoPage
    Stores = {"memory", "redis"}
    MaxExpiries = 1
    MaxAuthFaults = 1
INVARIANTS
    AuthInv
PROPERTIES
    NoLoginLoop
    LoginGoesThrough
