CONSTANTS
    A = A
    B = B
    None = None
    Names = {A, B}
    Files <- MCFiles
    Rankings <- MCRankings
    SwingPicks <- MCPicks
    Month <- ThreeMonth
    Last = 4
    TRANCHES = 3
    SPACING = 1
    TOP_K = 1
    UNIT = 27
    HOLD = 1
    Policies <- BothPolicies
    FAULTS = 1
    EDITS = 2
SPECIFICATION Spec
INVARIANTS
    BookFollowsTheTargets
    TablesTellTheDecisions
PROPERTY
    PastStands
