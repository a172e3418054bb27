CONSTANTS
    i0 = i0
    e0 = e0
    r1 = r1
    r2 = r2
    Runs = {i0, r1}
    Slots = {w1}
    Clients = {c1, c2}
    None = None
    Given = {i0}
    GivenKind <- OneOld
    GivenBase <- OneOldBase
    Offered <- Once
    Limit <- OneOfAKind
    MaxAsked = 2
    MaxFaults = 1
SPECIFICATION FairSpec
INVARIANTS
    NoFencedSuccess
PROPERTIES
    RowsEndOnce
    RowsSettle
