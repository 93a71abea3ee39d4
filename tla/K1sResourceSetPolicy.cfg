CONSTANTS
    d1 = d1
    d2 = d2
    i1 = i1
    s1 = s1
    bad = bad
    rd = rd
    ri = ri
    rs = rs
    Manifests = {d1, d2, i1, s1, bad}
    Refs = {rd, ri, rs}
    RefOf <- Keys
    KindOf <- Kinds
    NoRef = NoRef
    NoManifest = NoManifest
    Specs <- PolicySpecs
    Edits <- PolicyEdits
    OperatorKinds <- DeploymentAndService
    Faults = {"callFails", "replyLost", "crash", "credentials", "outOfBand", "foreign"}
    MaxFaults = 1
    MaxGen = 2
    MaxLives = 2
    MaxLag = 1
SPECIFICATION Spec
INVARIANTS
    TypeOK
    CapRespected
    ReleasedAfterCleanup
PROPERTY NeverDeleteLiveSet
CHECK_DEADLOCK FALSE
