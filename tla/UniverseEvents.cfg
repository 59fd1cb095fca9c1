SPECIFICATION Spec
CONSTANTS
    u = u
    v = v
    A = A
    B = B
    hose = hose
    hnx = hnx
    w1 = w1
    w2 = w2
    Universes = {u, v}
    Tickers = {A, B}
    Exchanges = {hose, hnx}
    Weights = {w1, w2}
    Files <- FilesOne
    None = None
    Forever = Forever
    Floor = 0
    MaxDate = 2
    MaxInst = 1
    Commands = {"status", "exchange", "rename"}
SYMMETRY MCSymmetry
INVARIANTS
    DelistedHasNoTicker
PROPERTIES
    HistoryIsNotRewritten
CHECK_DEADLOCK FALSE
