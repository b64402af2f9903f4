SPECIFICATION MCSpec
CONSTANTS
    User = {"admin", "owner", "other"}
    Admin = {"admin"}
    Guest = "guest"
    Work = {1, 2}
    Novel = {1, 2}
    Chapter = {1, 2, 3}
    Group = {1, 2}
    Number = {1, 2, 3}
    Absent = Absent
    None = None
    Call = {1, 2}
    Match <- Searches
    Span <- Ranges
    Upload <- Uploads
    Wanted <- Visibilities
    MaxVersion = 2
    MaxCalls = 2
CHECK_DEADLOCK FALSE
INVARIANTS
    WholeRows
    ReadsAgree
PROPERTIES
    OwnWritesRead
    ImplementsShelf
    CallsEnd
