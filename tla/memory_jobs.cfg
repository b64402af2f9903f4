SPECIFICATION MCSpec
CONSTANTS
    Chapter = {1,2,3}
    LastStage = 2
    RangeWide = {1}
    Worker = {w1, w2}
    None = None
    MaxFaults = 2
    MaxControls = 2
    MaxStarts = 2
CHECK_DEADLOCK FALSE
INVARIANTS
    StageBarrier
    WrittenOnce
PROPERTY
    PatienceCompletes
