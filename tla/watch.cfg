\* Scans, runs and ingests by two processes over two roots.
CONSTANTS
    p1 = p1
    p2 = p2
    f1 = f1
    f2 = f2
    ra = ra
    rb = rb
    v1 = v1
    v2 = v2
    b1 = b1
    e1 = e1
    u1 = u1
    c1 = c1
    Procs <- TwoProcs
    FileOrder <- TwoFiles
    RootOrder <- TwoRoots
    Raw = Raw
    Under <- AllKinds
    Contents = {v1, v2, b1, e1, u1}
    Blank = {b1}
    Empty = {e1}
    Unreadable = {u1}
    Corrupt = {}
    Gone = Gone
    None = None
    Calls <- SoundCalls
    MaxCalls = 2
    MaxEvents = 1
SPECIFICATION MCSpec
SYMMETRY Symmetry
INVARIANTS
    OneRun
    
    Reported
    GraphifyFollows
PROPERTIES
    OnlyPlanned
CHECK_DEADLOCK FALSE
