------------------------------ MODULE Signals ------------------------------
(***************************************************************************)
(* From predictions to the target portfolios the engine trades:            *)
(* backtest/portfolio.py (choice and cap), backtest/baselines.py,          *)
(* swing/strategies.py, invest/weights.py and invest/strategy.py.          *)
(*                                                                         *)
(* Each function of the code turns a whole history into the signals of all *)
(* its sessions.  Here the history grows session by session and the        *)
(* signals are computed over it anew each time, as a backtest repeated on  *)
(* another day does.                                                       *)
(*                                                                         *)
(* A score, a probability, a volatility is a fraction.  The covariance     *)
(* schemes (inverse volatility, risk parity, minimum variance, hierarchical*)
(* risk parity) are represented by one that divides by the variance of the *)
(* same window: what a name weighs depends on the window, and falls as its *)
(* variance grows.                                                         *)
(***************************************************************************)
EXTENDS Fractions, FiniteSets, FiniteSetsExt, Functions, TLC

CONSTANTS
    Evenings,       \* what a session may leave: [rows, moves, index]
    Strategies,     \* the strategies and baselines that may be run
    period_length,  \* sessions of a week, month or quarter
    FirstDecision,  \* first session the strategy may decide at
    min_obs,        \* weights.MIN_OBS
    cov_window, sma_window,
    LastEvening     \* bound on the sessions

ASSUME SignalConstants ==
    /\ {period_length, FirstDecision, cov_window, sma_window} \subseteq Nat \ {0}
    /\ {min_obs, LastEvening} \subseteq Nat
    /\ \A s \in Strategies : s.kind \in {"invest", "topk", "barrier", "baseline"}

VARIABLES
    market,         \* the sessions so far
    strategy        \* the strategy that is run

signalVars == <<market, strategy>>

-----------------------------------------------------------------------------
(* Choice and cap *)

Sum(w, S) == MapThenFoldSet(Plus, Num(0), LAMBDA a : w[a], LAMBDA T : CHOOSE a \in T : TRUE, S)

\* The k best scores, best first, the smaller id where two are equal.
select_top_k(scores, k, ascending) ==
    LET Before(a, b) ==
            IF scores[a] = scores[b] THEN a < b
            ELSE IF ascending THEN Leq(scores[a], scores[b]) ELSE Leq(scores[b], scores[a])
        order == SetToSortSeq({a \in DOMAIN scores : Known(scores[a])}, Before)
    IN  SubSeq(order, 1, IF k < Len(order) THEN k ELSE Len(order))

\* One round: what is above the cap goes to the names below it in proportion to
\* their weight; with none below, it stays in cash.
Capped(w, cap) ==
    LET over   == {a \in DOMAIN w : ~Leq(w[a], cap)}
        free   == {a \in DOMAIN w : Leq(w[a], cap) /\ w[a] # cap}
        excess == Minus(Sum(w, over), Times(cap, Num(Cardinality(over))))
        room   == Sum(w, free)
        share(a) == Plus(w[a], Over(Times(excess, w[a]), room))
    IN  [a \in DOMAIN w |->
            IF a \in over THEN cap
            ELSE IF a \in free /\ room # Num(0) THEN share(a) ELSE w[a]]

\* A name filled up by one round may be above the cap in the next.
apply_cap(w, cap) ==
    IF ~Known(cap) THEN w
    ELSE FoldLeft(LAMBDA v, n : Capped(v, cap), w, [n \in 1..(Cardinality(DOMAIN w) + 1) |-> n])

Equal(ids, weight) == [a \in Range(ids) |-> weight]

\* In proportion to 1 / x.
InverseShares(x) ==
    LET shares(inv) == [a \in DOMAIN inv |-> Over(inv[a], Sum(inv, DOMAIN inv))]
    IN  shares([a \in DOMAIN x |-> Over(Num(1), x[a])])

\* Baselines: equal weights, or in proportion to 1 / volatility, for which a name
\* needs a positive volatility.
build_weights(scores, k, spec, vol) ==
    LET ids  == select_top_k(scores, k, spec.ascending)
        have == {a \in Range(ids) : Known(Positive(vol[a]))}
    IN  IF ids = <<>> THEN <<>>
        ELSE apply_cap(IF spec.scheme = "equal" \/ have = {}
                       THEN Equal(ids, Frac(1, Len(ids)))
                       ELSE InverseShares(Restrict(vol, have)),
                       spec.cap)

-----------------------------------------------------------------------------
(* When to decide *)

Period(i) == (i + 1) \div period_length

\* The first session of each period, and of the range.
rebalance_sessions(first, last) ==
    SelectSeq([i \in 1..last |-> i],
              LAMBDA i : i >= first /\ (i = first \/ Period(i) # Period(i - 1)))

HasRows(h, i) == DOMAIN h[i].rows # {}
Column(h, i, c) == [a \in DOMAIN h[i].rows |-> h[i].rows[a][c]]

-----------------------------------------------------------------------------
(* SWING *)

\* A probability under the multiple of the base rate takes the score away.
with_probability_filter(h, i, multiple) ==
    [a \in DOMAIN h[i].rows |->
        LET r    == h[i].rows[a]
            keep == /\ Known(r.proba) /\ Known(r.base)
                    /\ Leq(Times(multiple, r.base), r.proba)
        IN  IF multiple[1] <= 0 \/ keep THEN r.score ELSE NaN]

\* 1 / k of each name, also when there are fewer; none sells everything.
topk_signals(h, s) ==
    LET at == ToSet(rebalance_sessions(FirstDecision, Len(h)))
    IN  [i \in {n \in at : HasRows(h, n)} |->
            LET ids == select_top_k(with_probability_filter(h, i, s.multiple), s.k, FALSE)
            IN  IF ids = <<>> THEN <<>> ELSE apply_cap(Equal(ids, Frac(1, s.k)), s.cap)]

\* Every session, names with a range only; no names, no signal.
barrier_signals(h, s) ==
    LET scores(i) == LET f == with_probability_filter(h, i, s.multiple)
                     IN  [a \in {b \in DOMAIN f : Known(Positive(h[i].rows[b].atr))} |-> f[a]]
        ids(i) == select_top_k(scores(i), s.k, FALSE)
        stop(i, a) == LET w == Times(s.stop_mult, h[i].rows[a].atr)
                      IN  IF Leq(w, <<1, 2>>) THEN w ELSE <<1, 2>>
    IN  [i \in {n \in FirstDecision..Len(h) : HasRows(h, n) /\ ids(n) # <<>>} |->
            [a \in Range(ids(i)) |->
                [weight |-> Frac(1, s.k), stop |-> stop(i, a),
                 target |-> Times(s.target_mult, h[i].rows[a].atr)]]]

\* The score of a baseline is a column of its own rows, or the same for all.
scores_for(h, i, s) ==
    IF s.score = "const" THEN [a \in DOMAIN h[i].rows |-> Num(1)] ELSE Column(h, i, s.score)

make_signals(h, s) ==
    LET at == ToSet(rebalance_sessions(FirstDecision, Len(h)))
        known(i) == Cardinality({a \in DOMAIN h[i].rows : Known(scores_for(h, i, s)[a])})
    IN  [i \in {n \in at : HasRows(h, n)} |->
            build_weights(scores_for(h, i, s), IF s.k = 0 THEN known(i) ELSE s.k, s,
                          Column(h, i, "vol"))]

-----------------------------------------------------------------------------
(* INVEST *)

\* mutant: the window ends with the session the orders are executed in
TrailingAndNext(h, i) ==
    SubSeq(h, IF i < cov_window THEN 1 ELSE i - cov_window + 1, IF i < Len(h) THEN i + 1 ELSE i)

\* The sessions a covariance is estimated from end with the one of the decision.
Trailing(h, i) == SubSeq(h, IF i < cov_window THEN 1 ELSE i - cov_window + 1, i)

\* A name with too few returns gets the average of the others, a gap counts as 0.
clean_returns(window, ids) ==
    LET seen(a)  == Cardinality({n \in DOMAIN window : Known(window[n].moves[a])})
        full     == {a \in ids : seen(a) >= min_obs}
        Average(n) == LET there == {a \in full : Known(window[n].moves[a])}
                      IN  Over(Sum(window[n].moves, there), Num(Cardinality(there)))
        Filled0(q) == IF Known(q) THEN q ELSE Num(0)
    IN  [a \in ids |-> [n \in DOMAIN window |->
            Filled0(IF a \in full THEN window[n].moves[a] ELSE Average(n))]]

\* Names without variance get the average one; none with any, equal weights.
by_variance(window, ids) ==
    LET variances(returns) == [a \in ids |-> Spread(returns[a])]
        filled(var, moving) ==
            [a \in ids |-> IF a \in moving THEN var[a]
                           ELSE Over(Sum(var, moving), Num(Cardinality(moving)))]
        weigh(var, moving) ==
            IF moving = {} THEN [a \in ids |-> Frac(1, Cardinality(ids))]
            ELSE InverseShares(filled(var, moving))
        moved(var) == weigh(var, {a \in ids : Known(Positive(var[a]))})
    IN  moved(variances(clean_returns(window, ids)))

\* The cap is raised to what a fully invested portfolio needs.
target_weights(s, ids, window) ==
    LET n == Len(ids) IN
    IF n = 0 THEN <<>>
    ELSE apply_cap(IF s.scheme = "equal" \/ n = 1 \/ Len(window) < min_obs
                   THEN Equal(ids, Frac(1, n))
                   ELSE by_variance(window, Range(ids)),
                   IF Known(s.cap) /\ Leq(s.cap, Frac(1, n)) THEN Frac(1, n) ELSE s.cap)

\* The index under its average; the fallback where the index has none.
regime_off(h, i) ==
    LET level(x, n) == h[n].index[x]
        window      == (i - sma_window + 1)..i
        average(x)  == i >= sma_window /\ \A n \in window : level(x, n) # 0
        below(x)    == level(x, i) * sma_window < MapThenSumSet(LAMBDA n : level(x, n), window)
    IN  IF average(1) THEN below(1) ELSE average(2) /\ below(2)

Target(h, i, s) ==
    LET held(w) == IF regime_off(h, i) THEN [a \in DOMAIN w |-> Times(w[a], s.equity_share)] ELSE w
    IN  held(target_weights(s, select_top_k(Column(h, i, "score"), s.k, FALSE), Trailing(h, i)))

Weight(w, a) == IF a \in DOMAIN w THEN w[a] ELSE Num(0)

\* Part of the way from one target to the next.
Moved(prev, target, part) ==
    [a \in DOMAIN prev \union DOMAIN target |->
        Plus(Weight(prev, a), Times(Minus(Weight(target, a), Weight(prev, a)), part))]

Invested(w) == Restrict(w, {a \in DOMAIN w : w[a] # Num(0)})

\* The tranches of the rebalance at i: each is a signal of its own.
Spaced(acc, i, steps, target, s) ==
    LET goes(j) == Moved(acc.prev, target, Frac(j, s.tranches)) IN
    [prev |-> goes(Max(steps)),
     signals |-> [x \in {i + (j - 1) * s.spacing : j \in steps} |->
                     Invested(goes(1 + ((x - i) \div s.spacing)))]
                 @@ acc.signals]

\* Each rebalance goes on from where the one before it stopped: steps that would
\* run into the next rebalance are dropped, though that one may find no rows.
Rebalanced(acc, h, s, i, stop_at) ==
    IF ~HasRows(h, i) THEN acc
    ELSE Spaced(acc, i, {j \in 1..s.tranches : i + (j - 1) * s.spacing < stop_at},
                Target(h, i, s), s)

invest_signals(h, s) ==
    LET sched == rebalance_sessions(FirstDecision, Len(h)) \o <<Len(h) + 1>> IN
    FoldLeft(LAMBDA acc, n : Rebalanced(acc, h, s, sched[n], sched[n + 1]),
             [prev |-> <<>>, signals |-> <<>>],
             [n \in 1..(Len(sched) - 1) |-> n]).signals

SignalsOf(h, s) ==
    CASE s.kind = "invest" -> invest_signals(h, s)
      [] s.kind = "topk" -> topk_signals(h, s)
      [] s.kind = "barrier" -> barrier_signals(h, s)
      [] s.kind = "baseline" -> make_signals(h, s)

-----------------------------------------------------------------------------
SignalsInit == market = <<>> /\ strategy \in Strategies

EveningComes ==
    /\ Len(market) < LastEvening
    /\ \E e \in Evenings : market' = Append(market, e)
    /\ UNCHANGED strategy

SignalsSpec == SignalsInit /\ [][EveningComes]_signalVars

-----------------------------------------------------------------------------
(* Properties *)

\* No signal knows what came after it: a session that closes changes none of the
\* signals of the sessions before it, rebalances that are half way included.
NoHindsight(before, now) == before = Restrict(now, DOMAIN now \ {Len(market)})

\* The part of the capital a signal asks for, by name.
Asked(signal) ==
    IF strategy.kind = "barrier" THEN [a \in DOMAIN signal |-> signal[a].weight] ELSE signal

\* The most an INVEST sleeve may have put into one name by session i: its cap, or
\* an equal share where fewer names had a score.
Ceiling(i) ==
    LET sizes == {Len(select_top_k(Column(market, n, "score"), strategy.k, FALSE)) :
                     n \in ToSet(rebalance_sessions(FirstDecision, i))} \ {0}
    IN  IF \E n \in sizes : Leq(strategy.cap, Frac(1, n)) THEN Frac(1, Min(sizes)) ELSE strategy.cap

\* No signal asks for more than the capital, or for more of a name than its cap
\* allows, in the middle of a rebalance and after one that was cut short too.
WithinTheCapital(now) ==
    \A i \in DOMAIN now :
        LET w == Asked(now[i]) IN
        /\ Leq(Sum(w, DOMAIN w), Num(1))
        /\ \A a \in DOMAIN w :
              /\ Leq(Num(0), w[a])
              /\ strategy.kind \in {"topk", "baseline"} /\ Known(strategy.cap) =>
                   Leq(w[a], strategy.cap)
              /\ strategy.kind = "invest" => Leq(w[a], Ceiling(i))

\* The cap is fair: names under it keep the proportions they had, a name at it had
\* no smaller claim than any other, and nothing is lost while a name has room.
CapIsFair ==
    strategy.kind = "baseline" /\ Known(strategy.cap) =>
        \A i \in DOMAIN market :
            LET vol == Column(market, i, "vol")
                fair(w, v) ==
                    /\ \A a, b \in DOMAIN w :
                          /\ Leq(v[a], strategy.cap)
                          /\ v[a] # strategy.cap => Leq(Times(v[b], w[a]), Times(v[a], w[b]))
                    /\ (\E a \in DOMAIN w : v[a] # strategy.cap) => Sum(v, DOMAIN v) = Num(1)
                capped(w) == fair(w, apply_cap(w, strategy.cap))
            IN  capped(InverseShares(Restrict(vol, {a \in DOMAIN vol : Known(Positive(vol[a]))})))

\* What a strategy asked for in the past stands, and it never asks for more than
\* there is.
SignalsStand ==
    LET stand(now) == /\ Len(market) > 1 => NoHindsight(SignalsOf(Front(market), strategy), now)
                      /\ WithinTheCapital(now)
    IN  stand(SignalsOf(market, strategy)) /\ CapIsFair
=============================================================================
