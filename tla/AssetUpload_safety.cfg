SPECIFICATION Spec
CONSTANTS
    None = None
    Requests = {r1, r2}
    Cleaners = {c1}
    Keys = {k1, k2}
    Sizes = {s1}
    AssetType = "MODEL"
    TTL = 1
    Grace = 1
    MaxClock = 4
SYMMETRY Symmetry
INVARIANTS
    TypeOK
    LogShowsSlot
CONSTRAINT EarlyDeletion
PROPERTIES
    LifecycleSpec
    CleanupSparesSessions
    LogMovesForward
CHECK_DEADLOCK FALSE
