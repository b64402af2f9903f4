SPECIFICATION RecoverySpec
CONSTANTS
    Batch = {b1}
    LastStage = 1
    ActionOf <- PruneCombine
    Worker = {w1, w2}
    Client = {c1}
    JobId = {j1, j2}
    Pinned = Pinned
    None = None
    MaxFaults = 1
    MaxControls = 1
CHECK_DEADLOCK FALSE
PROPERTIES
    Recovers
