CONSTANTS
    s1 = s1
    u1 = u1
    Jobs = {j1}
    Sessions = {s1}
    Users = {u1}
    SessionOf <- OneSession
    OwnerOf <- OneUser
    Cleaners = {c1, c2}
    None = None
    MaxAttempts = 2
    MaxRepairs = 1
    LeftToRightSet = FALSE
SPECIFICATION FairSpec
INVARIANTS
    NothingOrphaned
    OperationTracksItems
PROPERTIES
    SparesTheLiving
    OperationEnds
