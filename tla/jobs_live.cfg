CONSTANTS
    Jobs = {j1, j2}
    Workers = {w1}
    SessionOf <- OneSession
    None = None
    MaxAttempts = 1
    LeftToRightSet = FALSE
    PgMayFail = FALSE
    MaxQuestions = 1
    MaxInputs = 2
    MaxProgress = 0
SPECIFICATION FairSpec
INVARIANTS
    OneActiveJobPerSession
PROPERTIES
    JobSettles
    DrainingEnds
CHECK_DEADLOCK FALSE
