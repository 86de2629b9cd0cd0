SPECIFICATION Spec
CONSTANTS
    Resources = {1}
    Notes = {1}
    Project = 0
    Writers = {w1, w2}
    Devices = {d1}
    Limit = 1
    MaxSeq = 3
INVARIANTS
    TombstoneStays
CHECK_DEADLOCK FALSE
