SPECIFICATION MCSpec
CONSTANTS
    Foci = {"features", "folds", "heldout", "cards", "signals"}
    o1 = o1
    o2 = o2
    Stocks <- MCStocks
    Tapes <- MCTapes
    FeatureSets <- MCSets
    MembershipRows <- MCRows
    LastTape = 4
    MaxRescales = 1
    Window = 2
    LongWindow = 3
    fill_limit = 1
    min_count = 2
    Listed <- MCListed
    Markets <- MCMarkets
    Plans <- MCPlans
    Suspended <- MCSuspended
    Forks = {4, 5}
    LastBar = 6
    held_out = 1
    horizons = {1, 2}
    barrier = 2
    target_width = 3
    stop_width = 2
    Operators <- MCOperators
    Families <- MCFamilies
    Settings = {"c1", "c3"}
    RuleOf <- MCRuleOf
    Passing <- MCPassing
    oos_months = 2
    embargo_sessions = 1
    FirstSession = 3
    protected_start = 4
    MaxMoves = 2
    MaxCommands = 3
    Evenings <- MCEvenings
    Strategies <- MCStrategies
    period_length = 2
    FirstDecision = 2
    min_obs = 2
    cov_window = 3
    sma_window = 2
    LastEvening = 5
    Names <- MCNames
    Contexts <- MCContexts
    Rankings <- MCRankings
    Styles = {"auto", "ato"}
    Ticks <- MCTicks
    band = 7
    lot_size = 100
    budgets <- MCBudgets
    swing <- MCSwing
    presets <- MCPresets
    top_k = 2
    watch_ranks = 1
    invest_max = 400000
    invest_zone <- MCZone
    max_weight_name = 600000
    max_open_risk = 12000
    LastSession = 3
SYMMETRY MCSymmetry
CHECK_DEADLOCK FALSE
INVARIANTS
    RowsHaveTheirHistory
    TargetsAreSettled
    FirstTouchDecides
    ShutWithoutAPass
    CardsCanBeTraded
    LimitsHold
    SignalsStand
PROPERTIES
    RowsStayAsBuilt
