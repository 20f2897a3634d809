\* Runs are cut short, raise, or lose the manifest, lint fixes what it may, and the
\* next run makes it good.
CONSTANTS
    f1 = f1
    f2 = f2
    v1 = v1
    v2 = v2
    v3 = v3
    b1 = b1
    u1 = u1
    t1 = t1
    t2 = t2
    FileOrder <- TwoFiles
    Contents = {v1, v2, v3, b1, u1}
    Blank = {b1}
    Unreadable = {u1}
    Gone = Gone
    None = None
    Lost = Lost
    Torn = Torn
    StemOf <- OwnSlug
    TitleOf <- OwnSlug
    EditDuringRun = FALSE
    FaultPoints = {"tree", "copy", "page", "graph", "vector", "commit", "index"}
    TornWrites = FALSE
    MaxEdits = 4
    MaxFaults = 1
    MaxCuts = 1
    MaxLosses = 1
SPECIFICATION LintSpec
SYMMETRY Symmetry
INVARIANTS
    SkipIsSafe
    LintClean
    CatalogCalm
PROPERTIES
    RunHeals
    LintTrusts
    FixKeeps
