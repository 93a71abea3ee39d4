CONSTANTS
    d1 = d1
    d2 = d2
    i1 = i1
    s1 = s1
    bad = bad
    rd = rd
    ri = ri
    rs = rs
    Manifests = {d1, d2, i1, s1, bad}
    Refs = {rd, ri, rs}
    RefOf <- Keys
    KindOf <- Kinds
    NoRef = NoRef
    NoManifest = NoManifest
    Specs <- ShrinkingSpecs
    Edits <- NoEdits
    OperatorKinds = {}
    Faults = {}
    MaxFaults = 0
    MaxGen = 1
    MaxLives = 1
    MaxLag = 2
SPECIFICATION Spec
INVARIANT NothingLeftBehind
CHECK_DEADLOCK FALSE
