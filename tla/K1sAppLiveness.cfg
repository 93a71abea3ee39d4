\* One app name, at most two revisions, a disturbance of every kind that leaves
\* the recorded hash truthful or not: manifests are never used twice.
CONSTANTS
    m1 = m1
    m2 = m2
    a1 = a1
    Manifests = {m1, m2}
    Apps = {a1}
    AppOf <- OneApp
    KindOf <- Deployments
    Edits <- Forward
    Policies = {"Delete", "Orphan"}
    NoManifest = NoManifest
    NoApp = NoApp
    Faults = {"callFails", "replyLost", "crash", "credentials", "outOfBand"}
    MaxFaults = 1
    MaxGen = 2
    MaxLives = 1
    MaxLag = 1
SPECIFICATION FairSpec
INVARIANTS
    AppliedMeansCurrent
PROPERTIES
    Converges
    StatusSettles
    DeletionCompletes
CHECK_DEADLOCK FALSE
