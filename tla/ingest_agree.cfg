\* Sources that share a title change while runs read them; steps raise.
CONSTANTS
    f1 = f1
    f2 = f2
    v1 = v1
    v2 = v2
    v3 = v3
    v4 = v4
    b1 = b1
    u1 = u1
    t1 = t1
    t2 = t2
    FileOrder <- TwoFiles
    Contents = {v1, v2, v3, b1, u1}
    Blank = {b1}
    Unreadable = {u1}
    Gone = Gone
    None = None
    Lost = Lost
    Torn = Torn
    StemOf <- OwnSlug
    TitleOf <- SharedSlug
    EditDuringRun = TRUE
    FaultPoints = {"tree", "copy", "page", "graph", "vector", "commit"}
    TornWrites = FALSE
    MaxEdits = 5
    MaxFaults = 2
    MaxCuts = 0
    MaxLosses = 0
SPECIFICATION Spec
SYMMETRY Symmetry
INVARIANTS
    LayersAgree
PROPERTIES
    AllOrNothing
