SPECIFICATION RegistrySpec
CONSTANTS
    r1 = r1
    r2 = r2
    r3 = r3
    l1 = l1
    ridge = ridge
    lgbm = lgbm
    b1 = b1
    p1 = p1
    p2 = p2
    Models = {r1, r2, r3}
    Names = {ridge}
    Strategies = {b1}
    NameOf <- MCNameOf
    StrategyOf <- MCStrategyOf
    CardName <- MCCardName
    Sessions = {p1, p2}
    NoModel = NoModel
    MaxLog = 6
SYMMETRY MCSymmetry
INVARIANT
    NoPromotionFromRetired
CHECK_DEADLOCK FALSE
