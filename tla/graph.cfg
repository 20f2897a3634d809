\* Two sources share nodes; runs raise or die; lint fixes what they leave.
CONSTANTS
    d1 = d1
    d2 = d2
    n1 = n1
    n2 = n2
    Docs <- TwoDocs
    Nodes <- TwoNodes
    DocNodes <- Titles
    Extracts <- Versions
    MaxKills = 1
    b1 = b1
    b2 = b2
    Builders = {b1, b2}
    Budgets <- Amounts
    MaxBuilds = 2
    MaxChanges = 2
    MaxDeaths = 1
    Unbounded = Unbounded
    None = None
SPECIFICATION GraphifySpec
CHECK_DEADLOCK FALSE
SYMMETRY Symmetry
INVARIANTS
    EdgesJoinNodes
    GraphMatchesManifest
PROPERTIES
    LintSparesSources
    LintConverges
    RunsStand
    BuildIsCurrent
