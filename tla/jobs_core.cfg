CONSTANTS
    Jobs = {j1}
    Workers = {w1, w2}
    SessionOf <- OneSession
    None = None
    MaxAttempts = 2
    LeftToRightSet = TRUE
    PgMayFail = TRUE
    MaxQuestions = 1
    MaxInputs = 3
    MaxProgress = 1
SPECIFICATION Spec
SYMMETRY SlotSymmetry
INVARIANTS
    ClaimsAccountedFor
    EventsInLeaseOrder
    TerminalClosesLog
    AnswersWereAsked
    ChatMirrorsLedgers
PROPERTIES
    KeepsContract
CHECK_DEADLOCK FALSE
