CONSTANTS
    Questions = {1, 2}
    Page = 2
    MaxReconnects = 2
    MaxLog = 4
    MaxFailures = 1
    MaxOthers = 2
SPECIFICATION FairSpec
INVARIANTS
    ShownEndIsReal
    NoStaleQuestion
    ErrorNeedsLongLog
PROPERTIES
    NoEventSkipped
    SubscriptionEnds
CHECK_DEADLOCK FALSE
