CONSTANTS
    web = web
    api = api
    Specs <- NoIngressSpecs
    Edits <- NoEdits
    Names = {web}
    NoName = NoName
    Proxies = {"p1", "p2"}
    Static = {"p1"}
    ProxyPort = 10080
    NoOwner = NoOwner
    Nobody = Nobody
    Other = Other
    Deletions = TRUE
    Faults = {"replyLost", "crash", "credentials", "client", "outOfBand", "foreign", "names"}
    MaxFaults = 1
    MaxGen = 1
    MaxLives = 2
    MaxLag = 1
SPECIFICATION Spec
INVARIANT NothingGeneratedStays
PROPERTY OthersUntouched
CHECK_DEADLOCK FALSE
