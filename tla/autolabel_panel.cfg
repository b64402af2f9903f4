SPECIFICATION MCSpec
CONSTANTS
    MaxClicks = 3
    MaxFaults = 1
    MaxAgain = 1
CHECK_DEADLOCK FALSE
INVARIANTS
    PreviewFitsText
PROPERTY
    SpinnersEnd
