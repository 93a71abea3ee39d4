CONSTANTS
    m1 = m1
    m2 = m2
    a1 = a1
    Manifests = {m1, m2}
    Apps = {a1}
    AppOf <- OneApp
    KindOf <- Deployments
    Edits <- BackAndForth
    Policies = {"Delete"}
    NoManifest = NoManifest
    NoApp = NoApp
    Faults = {"crash"}
    MaxFaults = 1
    MaxGen = 3
    MaxLives = 1
    MaxLag = 1
SPECIFICATION FairSpec
PROPERTY Converges
CHECK_DEADLOCK FALSE
