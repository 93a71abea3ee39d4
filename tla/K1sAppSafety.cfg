\* One app name, deletePolicy Delete, every kind of disturbance.
CONSTANTS
    m1 = m1
    m2 = m2
    a1 = a1
    Manifests = {m1, m2}
    Apps = {a1}
    AppOf <- OneApp
    KindOf <- FirstDeployment
    Edits <- BackAndForth
    Policies = {"Delete"}
    NoManifest = NoManifest
    NoApp = NoApp
    Faults = {"callFails", "replyLost", "crash", "credentials", "outOfBand", "foreign"}
    MaxFaults = 1
    MaxGen = 2
    MaxLives = 2
    MaxLag = 2
SPECIFICATION Spec
INVARIANTS
    TypeOK
    CleanupBeforeGone
    FinalizerInvariant
PROPERTIES
    NeverDeleteLive
    SeenFinalizersKept
    ImplementsContract
CHECK_DEADLOCK FALSE
