SPECIFICATION MCSpec
CONSTANTS
    Foci = {"data", "quality", "backup", "datasets", "lifecycle"}
    s1 = s1
    s2 = s2
    t1 = t1
    t2 = t2
    c1 = c1
    c2 = c2
    d1 = d1
    d2 = d2
    Stocks <- MCStocks
    LastDate = 3
    Overlap = 1
    TolNum = 1
    TolDen = 5
    MinNum = 1
    MinDen = 2
    Grace = 1
    MinSessions = 2
    FingerprintBars = 2
    Base = 16
    MaxEvents = 2
    MaxJobs = 2
    MaxCards = 1
    ExDates = {1, 2}
    CsvFiles <- MCFiles
    Subjects = {"price_unit", "big_move"}
    Errors = {"price_unit"}
    Issues <- MCIssues
    Scale = 12
    MaxVersions = 3
    MaxChanges = 4
    daily_keep = 2
    weekly_keep = 1
    DaysPerWeek = 2
    LastDay = 5
    PerDay = 2
    MaxKills = 1
    Trainers <- MCTrainers
    Configs <- MCConfigs
    Data <- MCData
    keep = 1
    MaxRows = 2
    MaxMishaps = 1
    MonthLength = 3
    evaluate_day = 2
    retrain_age = 2
    horizon = 1
    shadow_min = 0
    min_days = 1
    LastSession = 4
    MaxModels = 3
    MaxFaults = 1
    MaxReplays = 1
SYMMETRY MCSymmetry
CHECK_DEADLOCK FALSE
INVARIANTS
    CardsAreTraceable
    NoSplice
    DerivedTablesAgree
    FactorsFollowTheActions
    FindingsTellTheData
    RetentionIsPathIndependent
    BackupsAreUsable
    VersionsAreTrue
    MonthsAreServedOnce
PROPERTIES
    NothingIsUndone
