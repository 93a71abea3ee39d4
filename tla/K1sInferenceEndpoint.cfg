\* A cell and a cell set, one revision forward, every kind of disturbance.
CONSTANTS
    Specs <- SameShape
    Edits <- Forward
    Normal <- Revisions
    Replicas = 2
    NoManifest = NoManifest
    Faults = {"callFails", "replyLost", "crash", "credentials", "outOfBand", "foreign"}
    MaxFaults = 1
    MaxGen = 2
    MaxLives = 2
    MaxLag = 1
SPECIFICATION FairSpec
INVARIANTS
    TypeOK
    ReadyMeansServing
PROPERTIES
    ImplementsContract
    EndpointConverges
    DeletionCompletes
CHECK_DEADLOCK FALSE
