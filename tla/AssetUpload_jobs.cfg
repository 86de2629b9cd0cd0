SPECIFICATION FairSpec
CONSTANTS
    None = None
    Requests = {r1}
    Cleaners = {c1}
    Keys = {k1, k2}
    Sizes = {s1}
    AssetType = "THUMBNAIL"
    TTL = 1
    Grace = 1
    MaxClock = 3
PROPERTIES
    FailedRowsGo
    OverdueSessionsSettle
CHECK_DEADLOCK FALSE
