SPECIFICATION Spec
CONSTANTS
    Owner = owner
    Viewers = {v1}
    Project = p
    Scans = {1, 2, 3}
    Notes = {n1}
    Home <- MCHome
    Shared = {1}
    None = None
    Limit = 2
    MaxTime = 1
CONSTRAINTS
    FewMarks
    NarrowOrBroad
INVARIANTS
    TypeOK
    DoorsAgree
    WalkComplete
PROPERTIES
    NothingUnderTheDead
CHECK_DEADLOCK FALSE
