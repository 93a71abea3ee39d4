CONSTANTS
    d1 = d1
    d2 = d2
    i1 = i1
    s1 = s1
    bad = bad
    rd = rd
    ri = ri
    rs = rs
    Manifests = {d1, d2, i1, s1, bad}
    Refs = {rd, ri, rs}
    RefOf <- Keys
    KindOf <- Kinds
    NoRef = NoRef
    NoManifest = NoManifest
    Specs <- ShrinkingSpecs
    Edits <- Shrink
    OperatorKinds = {}
    Faults = {"callFails", "replyLost", "crash", "credentials"}
    MaxFaults = 1
    MaxGen = 3
    MaxLives = 1
    MaxLag = 1
SPECIFICATION FairSpec
INVARIANT ReadyMeansDeployed
PROPERTIES
    SetConverges
    SetDeletionCompletes
CHECK_DEADLOCK FALSE
