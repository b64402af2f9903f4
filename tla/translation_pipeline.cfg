SPECIFICATION MCSpec
CONSTANTS
    Batch = {b1}
    LastStage = 2
    ActionOf <- Pipeline
    Worker = {w1, w2}
    Client = {c1, c2}
    JobId = {j1, j2}
    Pinned = Pinned
    None = None
    MaxFaults = 1
    MaxControls = 3
SYMMETRY Symmetry
CHECK_DEADLOCK FALSE
INVARIANTS
    ArtifactsMatchStatus
    StageOrder
    Provenance
PROPERTIES
    FailedIsFrozen
    LeaseProtectsHolder
