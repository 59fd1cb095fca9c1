SPECIFICATION MCSpec
CONSTANTS
    Foci = {"registry", "scheduler", "engine"}
    r1 = r1
    r2 = r2
    r3 = r3
    l1 = l1
    ridge = ridge
    lgbm = lgbm
    b1 = b1
    p1 = p1
    p2 = p2
    Models = {r1, r2, r3}
    Names = {ridge}
    Strategies = {b1}
    NameOf <- MCNameOf
    StrategyOf <- MCStrategyOf
    CardName <- MCCardName
    Sessions = {p1, p2}
    NoModel = NoModel
    MaxLog = 6
    daily = daily
    backup = backup
    restore = restore
    c1 = c1
    c2 = c2
    Jobs = {daily, restore}
    Containers = {c1}
    Rank <- MCRank
    At <- MCAt
    CronDays <- MCCronDays
    Slots = 6
    MAX_TRIES = 2
    RETRY = 2
    NoOne = NoOne
    Torn = Torn
    Absent = Absent
    MaxDay = 2
    MaxCrashes = 2
    s1 = s1
    v1 = v1
    s2 = s2
    v2 = v2
    swing = swing
    Instruments = {s1, v1, s2, v2}
    Days <- DaysMixed
    Signals <- SignalsMixed
    End = 5
    Capital = 200000
    LOT = 1
    SETTLE = 2
    BAND = 5
    SLIP = 1
    FEE = 2
    TAX = 1
    T1_PERCENT = 50
    THRESHOLD = 10
    STOP_FIRST = TRUE
    MAX_SELL = 1
    MAX_POSITIONS = 2
    GROUP_CAP <- Caps
    KILL = 15
    COOLDOWN = 2
    None = None
SYMMETRY SessionSymmetry
INVARIANTS
    RegistryIsConsistent
    LogTellsStatus
    ChampionsAreEarned
    HeldOutUseIsRecorded
    StateFileIsSound
    SlotsAreServed
    OrdersFitTheBook
    ExitsAreHonoured
PROPERTIES
    RunsAreOwed
    ImplementsAccount
    StopNeverFalls
CHECK_DEADLOCK FALSE
