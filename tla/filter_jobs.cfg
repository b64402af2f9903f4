SPECIFICATION MCSpec
CONSTANTS
    Workflow = {s, o}
    Base = {s}
    Function = {fn}
    Field = {f}
    Items = 2
    Passing = {1}
    BatchSize = 1
    Job = {j1, j2}
    Client = {c1, c2}
    Worker = {w1, w2}
    None = None
    MaxFaults = 1
    MaxEdits = 1
CHECK_DEADLOCK FALSE
INVARIANTS
    UniformJob
    NeighbourhoodExclusive
    CompleteIsExact
PROPERTIES
    Settles
