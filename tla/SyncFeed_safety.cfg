SPECIFICATION Spec
CONSTANTS
    Resources = {1, 2}
    Notes = {1}
    Project = 2
    Writers = {w1, w2}
    Devices = {d1}
    Limit = 1
    MaxSeq = 4
SYMMETRY Symmetry
CONSTRAINT OneRow
INVARIANTS
    TypeOK
    
    OnlyLateChangesSkipped
PROPERTIES
    AcksWhatWasShown
CHECK_DEADLOCK FALSE
