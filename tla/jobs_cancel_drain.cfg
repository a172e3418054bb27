CONSTANTS
    Jobs = {j1}
    Workers = {w1}
    SessionOf <- OneSession
    None = None
    MaxAttempts = 1
    LeftToRightSet = TRUE
    PgMayFail = FALSE
    MaxQuestions = 1
    MaxInputs = 2
    MaxProgress = 1
SPECIFICATION Spec
SYMMETRY SlotSymmetry
INVARIANTS
    CanceledJobStaysOccupied
CHECK_DEADLOCK FALSE
