SPECIFICATION Spec
CONSTANTS
    u = u
    v = v
    A = A
    B = B
    hose = hose
    hnx = hnx
    w1 = w1
    w2 = w2
    Universes = {u}
    Tickers = {A, B}
    Exchanges = {hose, hnx}
    Weights = {w1, w2}
    Files <- FilesTrade
    None = None
    Forever = Forever
    Floor = 0
    MaxDate = 2
    MaxInst = 3
    Commands = {}
INVARIANTS
    IdentitiesAreSound
    RecordIsConsistent
    SnapshotTakesHold
PROPERTIES
    HistoryIsNotRewritten
CHECK_DEADLOCK FALSE
