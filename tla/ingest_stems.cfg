\* Two files that differ only in their suffix; no kill, no fault.
CONSTANTS
    f1 = f1
    f2 = f2
    v1 = v1
    v2 = v2
    v3 = v3
    v4 = v4
    b1 = b1
    u1 = u1
    t1 = t1
    t2 = t2
    FileOrder <- TwoFiles
    Contents = {v1, v2, v3, b1, u1}
    Blank = {b1}
    Unreadable = {u1}
    Gone = Gone
    None = None
    Lost = Lost
    Torn = Torn
    StemOf <- SharedSlug
    TitleOf <- OwnSlug
    EditDuringRun = FALSE
    FaultPoints = {}
    TornWrites = FALSE
    MaxEdits = 3
    MaxFaults = 0
    MaxCuts = 0
    MaxLosses = 0
SPECIFICATION Spec
SYMMETRY Symmetry
INVARIANTS
    LayersAgree
