CONSTANTS
    Releases = {a, b, c}
    Built = {c}
    Bindings = {e1, e2}
    Web = {p1}
    Cli = {m1}
    Workers = {w1}
    None = None
    MaxGeneration = 3
    MaxFaults = 1
SPECIFICATION Spec
SYMMETRY AnyOf
INVARIANTS
    PointerResolves
    ServedReleaseStays
PROPERTIES
    PublishedAsGated
