CONSTANTS
    Users = {1, 2, 3}
    FirstAdmins = {1, 2}
    Files = {11, 12}
    OwnerOf <- MCOwnerOf
    ObjectOf <- MCObjectOf
    SessionOf <- MCSessionOf
    Requests = {r1, r2}
    Keys = {k1}
    Bodies <- MCBodies
    None = None
    MaxTries = 2
    MaxFaults = 1
    MaxLogins = 1
SPECIFICATION Spec
SYMMETRY AnyCall
CHECK_DEADLOCK FALSE
INVARIANTS
    AdminRemains
    AppliedOnce
    LiveSessionsAreProved
    LibraryIsWhole
PROPERTIES
    ChangesAreAuthorised
