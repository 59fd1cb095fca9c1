SPECIFICATION FairSpec
CONSTANTS
    daily = daily
    backup = backup
    restore = restore
    c1 = c1
    c2 = c2
    Jobs = {daily}
    Containers = {c1, c2}
    Rank <- MCRank
    At <- MCAt
    CronDays <- MCCronDays
    Slots = 3
    MAX_TRIES = 2
    RETRY = 1
    NoOne = NoOne
    Torn = Torn
    Absent = Absent
    MaxDay = 1
    MaxCrashes = 1
INVARIANT
    OneJobAtATime
PROPERTY
    EveryTickEnds
