\* A run prunes with two roots, against 011 spec.md:120.
CONSTANTS
    p1 = p1
    p2 = p2
    f1 = f1
    f2 = f2
    ra = ra
    rb = rb
    v1 = v1
    v2 = v2
    b1 = b1
    e1 = e1
    u1 = u1
    c1 = c1
    Procs <- TwoProcs
    FileOrder <- TwoFiles
    RootOrder <- TwoRoots
    Raw = Raw
    Under <- Corrupted
    Contents = {v1, v2, c1}
    Blank = {}
    Empty = {}
    Unreadable = {}
    Corrupt = {c1}
    Gone = Gone
    None = None
    Calls <- BothRoots
    MaxCalls = 1
    MaxEvents = 0
SPECIFICATION Spec
SYMMETRY Symmetry
PROPERTIES
    RunsAsPlanned
CHECK_DEADLOCK FALSE
