\* Two specs, two disturbances of any kind: changes of the world, failed calls and
\* lost replies, a restart.
CONSTANTS
    Specs <- BothSpecs
    Edits <- Secure
    NodeLists <- SomeNodes
    Domains = {"d1"}
    NoDomain = NoDomain
    Faults = {"callFails", "replyLost", "crash", "credentials", "client",
              "controller", "nodes", "bootstrap", "proxies"}
    MaxFaults = 2
    MaxGen = 2
    MaxLives = 2
    MaxLag = 1
SPECIFICATION FairSpec
INVARIANTS
    TypeOK
    ReadyExplained
    StatusOfOneGeneration
PROPERTY StatusSettles
CHECK_DEADLOCK FALSE
