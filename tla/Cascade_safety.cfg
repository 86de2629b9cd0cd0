SPECIFICATION Spec
CONSTANTS
    p = p
    s1 = s1
    s2 = s2
    n1 = n1
    n2 = n2
    m1 = m1
    t1 = t1
    t2 = t2
    Project = p
    Scans = {s1, s2}
    Notes = {n1, n2}
    Models = {m1}
    Home <- MCHome
    Unborn = {s2, n2}
    Contested = {p}
    Txs = {t1, t2}
    MaxRev = 2
SYMMETRY Symmetry
CONSTRAINTS FewRollups FewConflicts
INVARIANTS
    TypeOK
    NotesBuried
    EditsDoNotDeadlock
PROPERTIES
    ChildrenDieWithScan
    RevisionsGrow
CHECK_DEADLOCK FALSE
