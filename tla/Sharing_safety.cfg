SPECIFICATION Spec
CONSTANTS
    None = None
    Anyone = Anyone
    Users = {u1, u2}
    Invites = {i1, i2}
    Links = {l1}
    Requests = {r1, r2}
    Lifetimes = {2}
    TTL = 1
    MaxClock = 1
    MaxRev = 1
SYMMETRY Symmetry
CONSTRAINT Bounds
INVARIANTS
    TypeOK
    LogShowsAccess
PROPERTIES
    LifecycleSpec
    GrantsAreWarranted
CHECK_DEADLOCK FALSE
