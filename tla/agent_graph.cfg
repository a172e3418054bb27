SPECIFICATION Spec
CONSTANTS
    f1 = f1
    f2 = f2
    p1 = p1
    None = None
    Files <- MCFiles
    Params <- MCParams
    MaxContexts = 2
    MaxLeases = 2
    MaxVisits = 2
    MaxResults = 1
    MaxLate = 1
CHECK_DEADLOCK FALSE
INVARIANTS
    StateFollowsRow
    RecordedWhereComputed
PROPERTIES
    AcceptedIsRecorded
