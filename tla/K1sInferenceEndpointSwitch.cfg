\* A cell is made a cell set; nothing fails.
CONSTANTS
    Specs <- Switched
    Edits <- Switch
    Normal <- Revisions
    Replicas = 1
    NoManifest = NoManifest
    Faults = {}
    MaxFaults = 0
    MaxGen = 2
    MaxLives = 1
    MaxLag = 1
SPECIFICATION Spec
INVARIANT CleanupBeforeGone
CHECK_DEADLOCK FALSE
