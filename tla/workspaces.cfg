\* Two processes register, remove, use and query workspaces, one dies, and the
\* registry or a root is spoilt.
CONSTANTS
    p1 = p1
    p2 = p2
    w1 = w1
    w2 = w2
    r1 = r1
    r2 = r2
    n1 = n1
    i1 = i1
    i2 = i2
    i3 = i3
    i4 = i4
    Procs = {p1, p2}
    Ids = {w1, w2}
    Roots = {r1, r2}
    Notes = {n1}
    Inodes = {i1, i2, i3, i4}
    None = None
    Corrupt = Corrupt
    MaxUpdates = 3
    MaxKills = 1
    MaxUpsets = 1
SPECIFICATION WsSpec
SYMMETRY Symmetry
PROPERTIES
    RegistryKept
