CONSTANTS
    web = web
    api = api
    Specs <- ChangingSpecs
    Edits <- Change
    Names = {web, api}
    NoName = NoName
    Proxies = {"p1"}
    Static = {}
    ProxyPort = 0
    NoOwner = NoOwner
    Nobody = Nobody
    Other = Other
    Deletions = FALSE
    Faults = {"callFails", "replyLost", "crash", "app", "proxies"}
    MaxFaults = 1
    MaxGen = 2
    MaxLives = 1
    MaxLag = 1
SPECIFICATION FairSpec
INVARIANTS
    TypeOK
    ReadyMeansExposed
PROPERTY ExposureConverges
CHECK_DEADLOCK FALSE
