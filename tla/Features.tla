---------------------------- MODULE Features ----------------------------
(***************************************************************************)
(* The feature columns of a dataset: the price panel (features/data.py),   *)
(* the time series and cross-sectional features (features/ts.py, cs.py),   *)
(* the plugin registry (features/registry.py) and the rows assembled from  *)
(* them (features/engine.py).                                              *)
(*                                                                         *)
(* The vendor's series is back-adjusted: after a corporate action the      *)
(* whole stored history of a stock is rescaled, by a factor for its prices *)
(* and another, unknown one, for its volumes.  A dataset is built again    *)
(* and again while sessions close and histories are rescaled.              *)
(*                                                                         *)
(* A number is a fraction in lowest terms.  Three outcomes are kept apart  *)
(* that the code writes as one NaN: Short (not enough own history), NaN    *)
(* (the data do not allow a value).  Square roots and logarithms are       *)
(* strictly increasing, so a column is represented by the value under      *)
(* them, with the sign of the column where it has one.                     *)
(***************************************************************************)
EXTENDS Fractions, FiniteSets

CONSTANTS
    Stocks,         \* instruments of the panel
    Tapes,          \* what one session may leave: bars, primary and fallback index close
    FeatureSets,    \* the sets of feature names a dataset may be built from
    MembershipRows, \* the possible membership tables: sets of [stock, from, to]
    LastTape,       \* bound on the sessions
    MaxRescales,    \* bound on the corporate actions
    Window,         \* the short window of the features
    LongWindow,     \* the long window of liquidity v2
    fill_limit,     \* bench_ffill_limit
    min_count       \* members a cross-sectional rank needs

ASSUME FeatureConstants ==
    /\ Window \in Nat /\ Window > 0
    /\ LongWindow > Window
    /\ {LastTape, MaxRescales, fill_limit} \subseteq Nat
    /\ min_count \in Nat \ {0}

VARIABLES
    tape,           \* the sessions stored so far, as the vendor gives them now
    members,        \* universe_membership
    feature_set,    \* the pinned set of features
    frame,          \* the rows of the last build: <<session, stock>> -> column -> value
    rescales        \* corporate actions so far

featureVars == <<tape, members, feature_set, frame, rescales>>

-----------------------------------------------------------------------------
(* Series of one stock, indexed by its own bars.                           *)

Series(s) == SubSeq(s, 1, Len(s))

Shift(s, n) == Series([k \in DOMAIN s |-> IF k > n THEN s[k - n] ELSE Short])

\* A window of n rows that ends at each row, handed to an operator.
Rolling(Op(_), s, n) ==
    Series([k \in DOMAIN s |-> IF k < n THEN Short ELSE Op(SubSeq(s, k - n + 1, k))])

Each(Op(_, _), a, b) == Series([k \in DOMAIN a |-> Op(a[k], b[k])])

Change(s) == Each(Minus, s, Shift(s, 1))
PctChange(s) == Each(Over, Change(s), Shift(s, 1))

\* ewm(alpha, adjust=False, min_periods): starts at the first observation.
Smoothed(s, alpha, min_periods) ==
    LET seen(k) == Cardinality({j \in 1..k : Known(s[j])})
        blend(last, x) ==
            IF ~Known(x) THEN last
            ELSE IF ~Known(last) THEN x
            ELSE Plus(Times(alpha, x), Times(Minus(Num(1), alpha), last))
        y == FoldLeft(LAMBDA done, x : Append(done, blend(IF done = <<>> THEN Short ELSE Last(done), x)),
                     <<>>, s)
    IN  Series([k \in DOMAIN s |-> IF seen(k) < min_periods THEN Short ELSE y[k]])

wilder(s, n) == Smoothed(s, Frac(1, n), n)
Span(s, n)   == Smoothed(s, Frac(2, n + 1), n)

\* high - low, and the distance of each from the previous close where there is one.
true_range(bars) ==
    Series([k \in DOMAIN bars |->
        LET b == bars[k]
            dist(x, y) == LET d == Minus(x, y) IN IF d[1] < 0 THEN Times(Num(-1), d) ELSE d
        IN  IF k = 1 THEN Minus(b.high, b.low)
            ELSE Highest(<<Minus(b.high, b.low), dist(b.high, bars[k - 1].close),
                           dist(b.low, bars[k - 1].close)>>)])

atr(bars, n) == wilder(true_range(bars), n)

-----------------------------------------------------------------------------
(* The features: the columns of each from the bars of one stock and the    *)
(* benchmark on the same rows.  MACD runs with fast 1 and slow 3, the      *)
(* momentum with a skip of 1 over Window sessions.                         *)

Closes(bars)  == Series([k \in DOMAIN bars |-> bars[k].close])
Volumes(bars) == Series([k \in DOMAIN bars |-> bars[k].volume])
TradedValue(bars) == Each(Times, Closes(bars), Volumes(bars))

Returns(bars, bench) ==
    LET c == Closes(bars) IN [ret |-> Each(Over, c, Shift(c, Window))]

\* The moves of one sign, those of the other counted as none.
Moves(d, sign) ==
    [k \in DOMAIN d |-> IF ~Known(d[k]) THEN d[k]
                        ELSE IF sign * d[k][1] > 0 THEN Times(Num(sign), d[k]) ELSE Num(0)]

Strength(gain, loss) ==
    [k \in DOMAIN gain |->
        IF ~Known(gain[k]) THEN gain[k]
        ELSE IF loss[k][1] = 0 THEN Num(IF gain[k][1] > 0 THEN 100 ELSE 50)
        ELSE Times(Num(100), Over(gain[k], Plus(gain[k], loss[k])))]

RSI(bars, bench) ==
    LET smooth(d, sign) == wilder(Moves(d, sign), Window)
        rsi(d) == Strength(smooth(d, 1), smooth(d, -1))
    IN  [rsi |-> rsi(Change(Closes(bars)))]

MACD(bars, bench) ==
    LET c         == Closes(bars)
        columns(macd) == [macd_pct |-> Each(Over, macd, c),
                          macd_hist_pct |-> Each(Over, Each(Minus, macd, Span(macd, 1)), c)]
    IN  columns(Each(Minus, Span(c, 1), Span(c, 3)))

ATRPct(bars, bench) == [atr_pct |-> Each(Over, atr(bars, Window), Closes(bars))]

\* The column and the z-score are one increasing function of the other.
ZScore(bars, bench) ==
    LET c == Closes(bars)
        z(w) == LET gap == Minus(w[Len(w)], Mean(w)) IN Over(SignedSquare(gap), Spread(w))
    IN  [zscore |-> Rolling(z, c, Window)]
BollingerPctB(bars, bench) == [bb_pctb |-> ZScore(bars, bench).zscore]

DonchianBreakout(bars, bench) ==
    LET hi == Rolling(Highest, Shift([k \in DOMAIN bars |-> bars[k].high], 1), Window)
        lo == Rolling(Lowest, Shift([k \in DOMAIN bars |-> bars[k].low], 1), Window)
    IN  [don_hi_dist |-> Each(Over, Closes(bars), hi), don_lo_dist |-> Each(Over, Closes(bars), lo)]

Gap(bars, bench) ==
    [gap_1 |-> Each(Over, [k \in DOMAIN bars |-> bars[k].open], Shift(Closes(bars), 1))]

VolumeSpike(bars, bench) ==
    [vol_spike |-> Each(Over, Volumes(bars), Rolling(Median, Shift(Volumes(bars), 1), Window))]

RelativeStrength(bars, bench) ==
    LET c == Closes(bars)
        over(s) == Each(Over, s, Shift(s, Window))
    IN  [rs |-> Each(Minus, over(c), over(bench))]

MomentumSkip(bars, bench) ==
    LET c == Closes(bars) IN [mom |-> Each(Over, Shift(c, 1), Shift(c, 1 + Window))]

Volatility(bars, bench) ==
    [vol |-> Rolling(Spread, PctChange(Closes(bars)), Window)]

\* The covariance over the n rows of a window that are counted.
Covariance(sxy, sx, sy, n) == Minus(Over(sxy, n), Over(Times(sx, sy), Times(n, n)))

\* The rows on which the index fell and both have a return.
Falling(x, y) == [k \in DOMAIN x |-> Known(x[k]) /\ x[k][1] < 0 /\ Known(y[k])]
On(s, down)   == [k \in DOMAIN s |-> IF down[k] THEN s[k] ELSE Num(0)]
Sums(s)       == Rolling(Total, s, Window)

DownsideBeta(bars, bench) ==
    LET slopes(sxy, sxx, sx, sy, n) ==
            [k \in DOMAIN n |-> Over(Covariance(sxy[k], sx[k], sy[k], n[k]),
                                     Positive(Covariance(sxx[k], sx[k], sx[k], n[k])))]
        counted(x, y, down) ==
            slopes(Sums(Each(Times, x, y)), Sums(Each(Times, x, x)), Sums(x), Sums(y),
                   Sums([k \in DOMAIN down |-> IF down[k] THEN Num(1) ELSE Num(0)]))
        beta(x, y) == counted(On(x, Falling(x, y)), On(y, Falling(x, y)), Falling(x, y))
    IN  [dbeta |-> beta(PctChange(bench), PctChange(Closes(bars)))]

Drawdown(bars, bench) ==
    LET c == Closes(bars) IN [dd |-> Each(Over, c, Rolling(Highest, c, Window))]

SMARatio(bars, bench) ==
    LET c == Closes(bars) IN [sma_ratio |-> Each(Over, c, Rolling(Mean, c, Window))]

ZeroShare(bars) ==
    Rolling(Mean, [k \in DOMAIN bars |-> IF bars[k].volume = Num(0) THEN Num(1) ELSE Num(0)], Window)

Liquidity(bars, bench) ==
    [liq_logvalue |-> [k \in DOMAIN bars |-> Positive(Rolling(Median, TradedValue(bars), Window)[k])],
     liq_zero_share |-> ZeroShare(bars)]

\* mutant: the two medians are not divided
LiquidityLevels(bars, bench) ==
    [liq_trend |-> Rolling(Median, TradedValue(bars), LongWindow),
     liq_zero_share |-> ZeroShare(bars)]

LiquidityScaleFree(bars, bench) ==
    LET a == Rolling(Median, TradedValue(bars), Window)
        b == Rolling(Median, TradedValue(bars), LongWindow)
    IN  [liq_trend |-> [k \in DOMAIN bars |-> Over(Positive(a[k]), Positive(b[k]))],
         liq_zero_share |-> ZeroShare(bars)]

TimeSeries(name, bars, bench) ==
    CASE name = "ret"           -> Returns(bars, bench)
      [] name = "rsi"           -> RSI(bars, bench)
      [] name = "macd"          -> MACD(bars, bench)
      [] name = "atr"           -> ATRPct(bars, bench)
      [] name = "bollinger"     -> BollingerPctB(bars, bench)
      [] name = "donchian"      -> DonchianBreakout(bars, bench)
      [] name = "zscore"        -> ZScore(bars, bench)
      [] name = "gap"           -> Gap(bars, bench)
      [] name = "volume_spike"  -> VolumeSpike(bars, bench)
      [] name = "rel_strength"  -> RelativeStrength(bars, bench)
      [] name = "momentum_skip" -> MomentumSkip(bars, bench)
      [] name = "volatility"    -> Volatility(bars, bench)
      [] name = "downside_beta" -> DownsideBeta(bars, bench)
      [] name = "drawdown"      -> Drawdown(bars, bench)
      [] name = "sma_ratio"     -> SMARatio(bars, bench)
      [] name = "liquidity"     -> Liquidity(bars, bench)
      [] name = "liquidity_v2"  -> LiquidityScaleFree(bars, bench)

\* mutant: the return a volatility starts with is not counted
warmup_short(name) == IF name = "liquidity_v2" THEN LongWindow ELSE Window

\* Sessions of own history a feature declares it needs.
warmup(name) ==
    CASE name \in {"ret", "rsi", "atr", "donchian", "volume_spike", "rel_strength",
                   "volatility", "downside_beta"} -> Window + 1
      [] name \in {"bollinger", "zscore", "drawdown", "sma_ratio", "liquidity"} -> Window
      [] name = "macd" -> 3 + 1
      [] name = "momentum_skip" -> 1 + Window + 1
      [] name = "liquidity_v2" -> LongWindow
      [] name = "gap" -> 1

-----------------------------------------------------------------------------
(* The panel.                                                              *)

Absent == [close |-> NaN]
Traded(bar) == Known(bar.close)

\* Widens the range to hold the close and drops an open left outside it;
\* a price that is not positive empties the bar.
repair_ohlc(bar) ==
    IF ~Traded(bar) THEN Absent
    ELSE IF \E p \in {bar.open, bar.high, bar.low, bar.close} : Known(p) /\ p[1] <= 0 THEN Absent
    ELSE LET h == Highest(<<bar.high, bar.close, bar.low>>)
             l == Lowest(<<bar.low, bar.close, bar.high>>)
         IN  [bar EXCEPT !.high = h, !.low = l,
                         !.open = IF Known(@) /\ Leq(l, @) /\ Leq(@, h) THEN @ ELSE NaN]

Panel(i) == Series([t \in DOMAIN tape |-> repair_ohlc(tape[t].bars[i])])
OwnDates(i) == LET p == Panel(i) IN SelectSeq([t \in DOMAIN tape |-> t], LAMBDA t : Traded(p[t]))
bars_of(i) == LET p == Panel(i)
                  d == OwnDates(i)
              IN  Series([k \in DOMAIN d |-> p[d[k]]])

\* Forward fill of at most fill_limit sessions.
Filled(s) ==
    Series([t \in DOMAIN s |->
        LET have == {u \in DOMAIN s : u <= t /\ t - u <= fill_limit /\ Known(s[u])}
        IN  IF have = {} THEN NaN ELSE s[CHOOSE u \in have : \A w \in have : w <= u]])

\* The fallback index, rescaled to meet the primary one where it starts.
splice_benchmark(primary, fallback) ==
    LET known == {t \in DOMAIN primary : Known(primary[t])} IN
    IF known = {} THEN fallback
    ELSE LET first == CHOOSE t \in known : \A u \in known : t <= u
         IN  IF ~Known(fallback[first]) THEN primary
             ELSE [t \in DOMAIN primary |->
                      IF t >= first THEN primary[t]
                      ELSE Times(fallback[t], Over(primary[first], fallback[first]))]

Bench == splice_benchmark(Filled([t \in DOMAIN tape |-> tape[t].primary]),
                          Filled([t \in DOMAIN tape |-> tape[t].fallback]))

\* Half-open intervals [from, to).
Member(t, i) == \E r \in members : r.stock = i /\ r.from <= t /\ (r.to = 0 \/ t < r.to)

-----------------------------------------------------------------------------
(* The rows.                                                               *)

required_warmup(names) ==
    CHOOSE w \in {warmup(n) : n \in names} : \A n \in names : warmup(n) <= w

compute_feature_columns(i, names) ==
    LET bars  == bars_of(i)
        dates == OwnDates(i)
        index == Bench
        bench == Series([k \in DOMAIN bars |-> index[dates[k]]])
    IN  [n \in names |-> TimeSeries(n, bars, bench)] @@ <<>>

\* Average percentile rank among the values; NaN below min_count of them.
masked_rank(values, i) ==
    LET have == {j \in DOMAIN values : Known(values[j])}
        below == {j \in have : Leq(values[j], values[i]) /\ values[j] # values[i]}
        equal == {j \in have : values[j] = values[i]}
    IN  IF i \notin have \/ Cardinality(have) < min_count THEN NaN
        ELSE Frac(2 * Cardinality(below) + Cardinality(equal) + 1, 2 * Cardinality(have))

\* One row for every member with a bar and the set's warm-up behind it, from the
\* columns and the own sessions of every stock.
Rows(names, cols, own) ==
    LET place(t, i) == CHOOSE k \in DOMAIN own[i] : own[i][k] = t
        trades(t, i) == \E k \in DOMAIN own[i] : own[i][k] = t
        rows  == {r \in (DOMAIN tape) \X Stocks :
                    /\ Member(r[1], r[2])
                    /\ trades(r[1], r[2])
                    /\ place(r[1], r[2]) >= required_warmup(names)}
        at(r) == [n \in names |->
                    [c \in DOMAIN cols[r[2]][n] |-> cols[r[2]][n][c][place(r[1], r[2])]]]
        \* the cross-sectional rank of one column of each feature among the day's members
        peers(t, n, c) == [j \in {s \in Stocks : Member(t, s) /\ trades(t, s)} |->
                             cols[j][n][c][place(t, j)]]
        ranks(r) == [n \in names |->
                       [c \in DOMAIN cols[r[2]][n] |-> masked_rank(peers(r[1], n, c), r[2])]]
    IN  [r \in rows |-> [ts |-> at(r), cs |-> ranks(r)]]

assemble_frame(names) ==
    Rows(names, [i \in Stocks |-> compute_feature_columns(i, names)] @@ <<>>,
                [i \in Stocks |-> OwnDates(i)] @@ <<>>)

-----------------------------------------------------------------------------
FeaturesInit ==
    /\ tape = <<>>
    /\ members \in MembershipRows
    /\ feature_set \in FeatureSets
    /\ frame = <<>>
    /\ rescales = 0

\* A session closes and is stored for every stock and both indexes.
SessionStored ==
    /\ Len(tape) < LastTape
    /\ \E s \in Tapes : tape' = Append(tape, s)
    /\ UNCHANGED <<members, feature_set, frame, rescales>>

Rescaled(bar, price, volume) ==
    IF ~Traded(bar) THEN bar
    ELSE [open |-> Times(bar.open, Num(price)), high |-> Times(bar.high, Num(price)),
          low |-> Times(bar.low, Num(price)), close |-> Times(bar.close, Num(price)),
          volume |-> Times(bar.volume, Num(volume))]

\* Tomorrow is an ex-date: the vendor rescales all that is stored of a stock.
VendorRescales(i) ==
    /\ rescales < MaxRescales
    /\ rescales' = rescales + 1
    /\ \E volume \in {1, 2} :
          tape' = [t \in DOMAIN tape |->
                     [tape[t] EXCEPT !.bars[i] = Rescaled(@, 2, volume)]]
    /\ UNCHANGED <<members, feature_set, frame>>

\* build_dataset computes every row again from what is stored.
BuildFrame ==
    /\ frame' = assemble_frame(feature_set)
    /\ UNCHANGED <<tape, members, feature_set, rescales>>

FeaturesNext == SessionStored \/ (\E i \in Stocks : VendorRescales(i)) \/ BuildFrame

FeaturesSpec == FeaturesInit /\ [][FeaturesNext]_featureVars

-----------------------------------------------------------------------------
\* The sessions before the first value of the primary index, when the fallback
\* has none there and the primary is returned alone.
Blanked ==
    LET filled(s) == Filled([t \in DOMAIN tape |-> s[t]])
        primary   == filled([t \in DOMAIN tape |-> tape[t].primary])
        fallback  == filled([t \in DOMAIN tape |-> tape[t].fallback])
    IN  {t \in DOMAIN tape : \E first \in DOMAIN tape :
            /\ t < first /\ Known(primary[first]) /\ ~Known(fallback[first])
            /\ \A u \in 1 .. first - 1 : ~Known(primary[u])}

(* A row that was built once is built the same ever after: neither a later *)
(* session nor the rescaling of the stored history by a later corporate    *)
(* action shows in it.  It is what makes a back-test on the dataset mean   *)
(* what it says.  An index that starts late shows in one case: where the   *)
(* fallback has no value on its first date, the columns that read the      *)
(* index are emptied in all rows before it (splice_benchmark).             *)
RowsStayAsBuilt ==
    [][frame' # frame =>
         LET blanked == Blanked IN
         \A r \in DOMAIN frame : r \in DOMAIN frame' /\
             \A n \in DOMAIN frame[r].ts :
                 IF n \in {"rel_strength", "downside_beta"} /\ r[1] \in blanked
                 THEN \A k \in {"ts", "cs"} : \A c \in DOMAIN frame[r][k][n] : frame'[r][k][n][c] = NaN
                 ELSE frame'[r].ts[n] = frame[r].ts[n] /\ frame'[r].cs[n] = frame[r].cs[n]]_featureVars

(* Where a row exists, every feature has all the history its windows read, *)
(* the row being the first of the longest warm-up that is declared.  Not   *)
(* so for gap: it declares one session and reads two, so that in a set     *)
(* without a longer warm-up the first session of a stock has a row         *)
(* without the value (ts.py, Gap; engine.py, eligible).                    *)
RowsHaveTheirHistory ==
    \A r \in DOMAIN frame : \A n \in DOMAIN frame[r].ts :
        \A c \in DOMAIN frame[r].ts[n] :
            frame[r].ts[n][c] = Short => n = "gap" /\ r[1] = OwnDates(r[2])[1]
=============================================================================
