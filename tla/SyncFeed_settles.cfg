SPECIFICATION FairSpec
CONSTANTS
    Resources = {1}
    Notes = {}
    Project = 1
    Writers = {w1, w2}
    Devices = {d1}
    Limit = 1
    MaxSeq = 3
PROPERTIES
    ConflictsSettle
CHECK_DEADLOCK FALSE
