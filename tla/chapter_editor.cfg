SPECIFICATION MCSpec
CONSTANTS
    Group = {1, 2}
    Used = {1}
    Char = {"a", "b", "x"}
    Typed = {"x"}
    StartText <- Text2
    StartLabels <- Labels1
    Found <- Found1
    MaxText = 3
    MaxEdits = 3
    MaxFaults = 1
CHECK_DEADLOCK FALSE
INVARIANTS
    Converged
    AnswersFit
    BlockedByNewGroup
PROPERTY
    WaitsEnd
