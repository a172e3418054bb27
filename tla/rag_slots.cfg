CONSTANTS
    i0 = i0
    e0 = e0
    r1 = r1
    r2 = r2
    Runs = {i0, e0, r1, r2}
    Slots = {w1, w2}
    Clients = {c1}
    None = None
    Given = {i0, e0}
    GivenKind <- TwoEnded
    GivenBase <- TwoEndedBase
    Offered <- Governances
    Limit <- OneOfAKind
    MaxAsked = 0
    MaxFaults = 2
SPECIFICATION Spec
SYMMETRY AnySlot
INVARIANTS
    NeverRerun
    KindsWithinLimit
