\* Two processes store artifacts and write pages beside each other.
CONSTANTS
    p1 = p1
    p2 = p2
    v1 = v1
    v2 = v2
    m1 = m1
    Procs = {p1, p2}
    Versions = {v1, v2}
    Models = {m1}
    Slugs <- TwoSlugs
    None = None
    Torn = Torn
    MaxCalls = 3
    MaxUpsets = 1
SPECIFICATION Spec
SYMMETRY Symmetry
INVARIANTS
    Evidence
    IndexComplete
PROPERTIES
    ArtifactsNeverChange
    NoStalePage
    KeepsOthers
CHECK_DEADLOCK FALSE
