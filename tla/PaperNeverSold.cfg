CONSTANTS
    A = A
    B = B
    None = None
    Names = {A, B}
    Files <- MCFiles
    Rankings <- MCRankings
    SwingPicks <- NoPicks
    Month <- MCMonth
    Last = 4
    TRANCHES = 2
    SPACING = 1
    TOP_K = 1
    UNIT = 8
    HOLD = 1
    Policies <- NextRebalance
    FAULTS = 0
    EDITS = 1
SPECIFICATION Spec
INVARIANT SoldAtTheRebalance
