SPECIFICATION MCSpec
CONSTANTS
    Char = {"a", "b", "x"}
    Writer = {"w1", "w2"}
    Group = {1, 2}
    Run = {1}
    Op <- Ops
    StartText <- Text2
    StartData <- Data2
    MaxRequests = 4
    MaxFaults = 1
CHECK_DEADLOCK FALSE
INVARIANTS
    LabelsFit
    UpdatesMerge
PROPERTIES
    ImplementsDocument
    RunsEnd
