--------------------------------- MODULE Cards ---------------------------------
(***************************************************************************)
(* Recommendation cards: reco/builders.py (price levels and size of a      *)
(* card), backtest/market.py (price steps and bands), reco/cards.py (what  *)
(* a complete card is), reco/aggregate.py (the cards of one evening made   *)
(* to fit the portfolio's limits), reco/backtest.py (the plan of cards of  *)
(* a whole history) and reco/job.py (the cards of one evening on demand).  *)
(*                                                                         *)
(* A price is an integer number of ten-dong units; the arithmetic of the   *)
(* builders is exact on hundredths of a unit, so an unrounded price is     *)
(* written in hundredths.  A weight is the amount of capital it stands     *)
(* for.  The plan of a whole history is built sleeve by sleeve in the      *)
(* code; the INVEST sleeves do not read each other and SWING reads their   *)
(* targets up to its own session only, so building it session by session   *)
(* gives the same plan.                                                    *)
(***************************************************************************)
EXTENDS Integers, Sequences, FiniteSets, FiniteSetsExt, Functions

CONSTANTS
    Names,          \* the stocks
    Contexts,       \* what an evening may show: functions from Names to a context
    Rankings,       \* orders a model may give: sequences of the names with a row
    Styles,         \* entry styles the configuration may name
    Ticks,          \* price steps: a sequence of [lower, size], lowest first
    band,           \* percent a price may move in the next session
    lot_size,
    budgets,        \* amount each sleeve may hold
    swing,          \* the rules of the SWING cards (config RecoSwing)
    presets,        \* INVEST preset -> [tranches, spacing, rebalances]
    top_k, watch_ranks, invest_max, invest_zone,
    max_weight_name, max_open_risk,
    LastSession     \* bound on the history

Presets == DOMAIN presets

ASSUME CardConstants ==
    /\ Names # {} /\ IsFiniteSet(Names) /\ top_k \in Nat \ {0} /\ LastSession \in Nat
    /\ {watch_ranks, invest_max, max_weight_name, max_open_risk} \subseteq Nat
    /\ invest_zone[1] \in Int /\ invest_zone[2] \in Int
    /\ Presets = {"b1", "b2"} /\ budgets \in [Presets \union {"swing"} -> Nat]
    /\ \A key \in Presets :
          /\ presets[key].tranches \in Nat \ {0} /\ presets[key].spacing \in Nat \ {0}
          /\ budgets[key] % (top_k * presets[key].tranches) = 0
    /\ \A m \in Contexts, a \in Names :
          /\ {m[a].close, m[a].atr} \subseteq Nat \ {0} /\ {m[a].hi20, m[a].hi60} \subseteq Nat
          \* The high of the last sessions counts today's bar (rolling, reco/sources.py).
          /\ m[a].hi20 = 0 \/ m[a].close <= m[a].hi20
    /\ Rankings \subseteq Seq(Names) /\ Styles \subseteq {"auto", "pullback", "breakout", "ato"}
    \* A price at which the step changes is a multiple of both (tick_size_vnd of config/default.yaml).
    /\ Ticks \in Seq([lower: Nat, size: Nat \ {0}]) /\ Ticks # <<>> /\ Ticks[1].lower = 0
    /\ \A i, j \in DOMAIN Ticks : i < j => Ticks[i].lower < Ticks[j].lower
    /\ \A i \in DOMAIN Ticks :
          Ticks[i].lower % Ticks[i].size = 0 /\ (i > 1 => Ticks[i].lower % Ticks[i - 1].size = 0)
    /\ band \in 0..100 /\ lot_size \in Nat \ {0}
    /\ {swing.breakout_within, swing.buffer_atr, swing.zone_atr, swing.stop_atr, swing.target1_atr,
        swing.target2_atr, swing.risk_per_trade, swing.max_weight, swing.max_positions} \subseteq Nat
    /\ {swing.pullback_atr[1], swing.pullback_atr[2], swing.ato_zone[1], swing.ato_zone[2]} \subseteq Int
    /\ swing.min_rr \in Nat /\ swing.min_rr >= 150

VARIABLES
    session,        \* the session whose evening is planned
    phase,          \* the part of the plan that is built next
    style,          \* the configured entry style
    context,        \* prices and levels at the close of the session
    book,           \* INVEST preset -> the targets of its running rebalance
    orders,         \* the engine items of the last step
    asked,          \* INVEST preset -> what a card has asked for, by name
    evening         \* the cards of the last step and the holdings they had to fit

cardVars == <<session, phase, style, context, book, orders, asked, evening>>

Larger(x, y) == IF x > y THEN x ELSE y
Smaller(x, y) == IF x < y THEN x ELSE y
AmountOf(f, a) == IF a \in DOMAIN f THEN f[a] ELSE 0

\* The amounts f gives to the members of S, added up.
SumOver(f, S) ==
    LET sum[T \in SUBSET S] ==
            IF T = {} THEN 0 ELSE LET x == CHOOSE x \in T : TRUE IN f[x] + sum[T \ {x}]
    IN  sum[S]

-----------------------------------------------------------------------------
(* Price steps and bands *)

tick(x) == Ticks[Max({1} \union {i \in DOMAIN Ticks : 100 * Ticks[i].lower <= x})].size
round_down(x) == tick(x) * (x \div (100 * tick(x)))
round_up(x) == tick(x) * ((x + 100 * tick(x) - 1) \div (100 * tick(x)))

\* To the nearest step, a tie to the even one.
nearest(x) ==
    LET t == 100 * tick(x)
        q == x \div t
        up == 2 * (x % t) > t \/ (2 * (x % t) = t /\ q % 2 = 1)
    IN  tick(x) * IF up THEN q + 1 ELSE q

band_floor(close) == round_up(close * (100 - band))
band_ceiling(close) == round_down(close * (100 + band))
lots(qty) == lot_size * (qty \div lot_size)

-----------------------------------------------------------------------------
(* The levels of a card: none when the rules refuse it *)

StyleOf(c) ==
    IF style # "auto" THEN style
    ELSE IF c.hi20 > 0 /\ 100 * c.close >= c.hi20 * (100 - swing.breakout_within) THEN "breakout"
    ELSE "pullback"

EntryZone(c) ==
    LET trigger == round_up(100 * c.hi20 + swing.buffer_atr * c.atr)
    IN  CASE StyleOf(c) = "pullback" ->
               [order |-> "limit", trigger |-> 0,
                low |-> round_down(100 * c.close - swing.pullback_atr[1] * c.atr),
                high |-> round_down(100 * c.close - swing.pullback_atr[2] * c.atr)]
          [] StyleOf(c) = "breakout" ->
               [order |-> "stop", trigger |-> trigger, low |-> trigger,
                high |-> Larger(trigger, round_down(100 * trigger + swing.zone_atr * c.atr))]
          [] StyleOf(c) = "ato" ->
               [order |-> "ato", trigger |-> 0,
                low |-> round_down(c.close * (100 + swing.ato_zone[1])),
                high |-> round_down(c.close * (100 + swing.ato_zone[2]))]

\* mutant: the zone of the rule is taken as it is
UnclippedZone(c) == EntryZone(c)

InBand(c) ==
    LET z == EntryZone(c)
    IN  [z EXCEPT !.low = Larger(z.low, band_floor(c.close)),
                  !.high = Smaller(z.high, band_ceiling(c.close))]

Reference(z) == Smaller(Larger(nearest(50 * (z.low + z.high)), z.low), z.high)

LevelsAt(c, z, ref) ==
    LET stop == round_down(100 * ref - swing.stop_atr * c.atr)
        capped == c.hi60 > ref
        cap == round_down(100 * (c.hi60 - tick(100 * c.hi60)))
        Below(t) == IF capped THEN Smaller(t, cap) ELSE t
        t2 == Below(round_up(100 * ref + swing.target2_atr * c.atr))
        t1 == Below(round_up(100 * ref + swing.target1_atr * c.atr))
    IN  IF \/ StyleOf(c) = "breakout" /\ c.hi20 = 0
           \/ z.trigger > band_ceiling(c.close)
           \/ z.low > z.high \/ z.high <= band_floor(c.close)
           \/ stop <= 0 \/ stop >= ref
           \/ capped /\ cap <= ref + tick(100 * ref)
           \/ t1 <= ref
        THEN {}
        ELSE {[order |-> z.order, trigger |-> z.trigger, low |-> z.low, high |-> z.high,
               reference |-> ref, stop |-> stop, target1 |-> Smaller(t1, t2), target2 |-> t2]}

swing_levels(c) == LET around(z) == LevelsAt(c, z, Reference(z)) IN around(InBand(c))

\* The number of shares whose loss at the stop is the risk of a trade, under
\* the largest weight of a name, in whole lots of the zone's highest price.
swing_sizing(lv) ==
    lots(Smaller((swing.risk_per_trade * lv.reference) \div ((lv.reference - lv.stop) * lv.high),
                 swing.max_weight \div lv.high))

MinReward(lv) ==
    100 * (lv.target2 - lv.reference) >= swing.min_rr * (lv.reference - lv.stop)

build_swing_card(a, watch) ==
    {[name |-> a, sleeve |-> "swing", action |-> IF watch THEN "WATCH" ELSE "BUY",
      levels |-> lv, shares |-> swing_sizing(lv), full |-> swing_sizing(lv)] :
        lv \in {l \in swing_levels(context[a]) : MinReward(l) /\ swing_sizing(l) >= lot_size}}

\* An INVEST card has no stop and no target price: its exits are scenarios.
build_invest_card(a, key, weight, watch) ==
    LET c == context[a]
        z == [low |-> Larger(round_down(c.close * (100 + invest_zone[1])), band_floor(c.close)),
              high |-> Smaller(round_down(c.close * (100 + invest_zone[2])), band_ceiling(c.close))]
        shares == lots(Smaller(weight, invest_max) \div z.high)
    IN  IF z.low > z.high \/ z.high <= band_floor(c.close) \/ shares < lot_size THEN {}
        ELSE {[name |-> a, sleeve |-> key, action |-> IF watch THEN "WATCH" ELSE "BUY",
               levels |-> [order |-> "limit", trigger |-> 0, low |-> z.low, high |-> z.high,
                           reference |-> Reference(z)],
               shares |-> shares, full |-> shares]}

\* problems: what of a card's prices is out of order, off the price steps or
\* outside the band of the next session.
problems(card) ==
    LET l == card.levels
        close == context[card.name].close
        zone == {"low", "high"} \union (IF l.order = "stop" THEN {"trigger"} ELSE {})
        exits == {"stop", "target1", "target2"} \intersect DOMAIN l
        inverted == l.low > l.high
        disordered == card.sleeve = "swing" /\
            ~(l.stop < l.reference /\ l.reference < l.target1 /\ l.target1 <= l.target2)
    IN  {k \in zone \union exits : l[k] % tick(100 * l[k]) # 0}
        \union {k \in zone : l[k] < band_floor(close) \/ l[k] > band_ceiling(close)}
        \union {k \in {"zone"} : inverted} \union {k \in {"order"} : disordered}

\* to_signal_item: the order a card asks for, at the prices it states.
to_signal_item(card, weight) ==
    [sleeve |-> card.sleeve, name |-> card.name, weight |-> weight,
     levels |-> card.levels, only_if_flat |-> card.sleeve = "swing"]

-----------------------------------------------------------------------------
(* The aggregator *)

Value(card) == card.shares * card.levels.high
RiskIfStop(card) == card.shares * (card.levels.reference - card.levels.stop)

\* mutant: a card half of which fits is accepted as it is
HalfFits(card, room) == IF 2 * room >= Value(card) THEN {card} ELSE {}

\* A card that breaks a limit shrinks to the room left when half of it fits.
Fitted(card, room) ==
    LET shares == lots(room \div card.levels.high)
    IN  IF room >= Value(card) THEN {card}
        ELSE IF 2 * room >= Value(card) /\ shares >= lot_size
             THEN {[card EXCEPT !.shares = shares]}
        ELSE {}

\* The evening so far: what is used of each limit, and the accepted cards.
Accepted(acc, card) ==
    [acc EXCEPT !.used[card.sleeve] = @ + Value(card),
                !.by_name[card.name] = @ + Value(card),
                !.risk = @ + RiskIfStop(card),
                !.cards = @ \union {card}]

\* What a builder gave is a card or none; it is accepted when it fits, whole or shrunk.
Offered(acc, built) ==
    LET in_sleeve == UNION {Fitted(c, budgets[c.sleeve] - acc.used[c.sleeve]) : c \in built}
        of_name   == UNION {Fitted(c, max_weight_name - acc.by_name[c.name]) : c \in in_sleeve}
        safe      == {c \in of_name : acc.risk + RiskIfStop(c) <= max_open_risk}
    IN  IF safe = {} THEN acc ELSE Accepted(acc, CHOOSE c \in safe : TRUE)

Held(holdings, a) == SumOver([s \in DOMAIN holdings |-> AmountOf(holdings[s], a)], DOMAIN holdings)

\* SWING cards, best first, on top of what the INVEST sleeves hold.
aggregate(builds, holdings) ==
    LET acc[n \in 0..Len(builds)] ==
            IF n = 0 THEN [used |-> [s \in {"swing"} |-> 0],
                           by_name |-> [a \in Names |-> Held(holdings, a)],
                           risk |-> 0, cards |-> {}]
            ELSE Offered(acc[n - 1], builds[n])
    IN  acc[Len(builds)].cards

-----------------------------------------------------------------------------
(* The plan *)

\* The INVEST book of a preset: target weights, always of the whole capital.
NoBook == [start |-> 0, prev |-> <<>>, target |-> <<>>, cur |-> <<>>]

Leaders(rank, n) == {rank[i] : i \in 1..Smaller(n, Len(rank))}

Due(key) ==
    LET p == presets[key]
        gone == session - book[key].start
    IN  \/ session \in p.rebalances
        \/ /\ book[key].start > 0
           /\ gone % p.spacing = 0
           /\ gone \div p.spacing < p.tranches

Tranche(key) ==
    IF session \in presets[key].rebalances THEN 1
    ELSE (session - book[key].start) \div presets[key].spacing + 1

PartWay(prev, target, n, of) ==
    [a \in DOMAIN prev \union DOMAIN target |->
        AmountOf(prev, a) + ((AmountOf(target, a) - AmountOf(prev, a)) * n) \div of]

BookAfter(key, rank) ==
    LET b == book[key]
        of == presets[key].tranches
        starts == session \in presets[key].rebalances
        prev == IF starts THEN b.cur ELSE b.prev
        target == IF starts THEN [a \in Leaders(rank, top_k) |-> budgets[key] \div top_k]
                  ELSE b.target
    IN  [start |-> IF starts THEN session ELSE b.start, prev |-> prev, target |-> target,
         cur |-> PartWay(prev, target, Tranche(key), of)]

\* plan_invest: a name whose weight grows and that has a row is bought by a
\* card, a refused card is no order; every other name is set to its weight.
PlanInvest(key) ==
    /\ phase = key
    /\ \E rank \in Rankings :
        LET b == BookAfter(key, rank)
            Grows(a) == /\ a \in DOMAIN b.target
                        /\ b.cur[a] > AmountOf(b.prev, a)
                        /\ a \in Range(rank)
            cards == UNION {build_invest_card(a, key, b.cur[a], FALSE) :
                               a \in {x \in DOMAIN b.cur : b.cur[x] > 0 /\ Grows(x)}}
            watched == IF session \in presets[key].rebalances
                       THEN UNION {build_invest_card(a, key, budgets[key] \div top_k, TRUE) :
                               a \in Leaders(rank, top_k + watch_ranks) \ Leaders(rank, top_k)}
                       ELSE {}
            bought == {c.name : c \in cards}
        IN  IF Due(key)
            THEN /\ book' = [book EXCEPT ![key] = b]
                 /\ orders' = {to_signal_item(c, b.cur[c.name]) : c \in cards}
                              \union {[sleeve |-> key, name |-> a, weight |-> b.cur[a]] :
                                 a \in {x \in DOMAIN b.cur : ~(b.cur[x] > 0 /\ Grows(x))}}
                 /\ asked' = [asked EXCEPT ![key] =
                        [a \in Names |-> IF AmountOf(b.cur, a) = 0 THEN 0
                                         ELSE IF a \in bought THEN b.cur[a]
                                         ELSE @[a]]]
                 /\ evening' = [cards |-> cards \union watched, holdings |-> <<>>]
            ELSE UNCHANGED <<book, orders, asked, evening>>
    /\ phase' = IF key = "b1" THEN "b2" ELSE "swing"
    /\ UNCHANGED <<session, style, context>>

\* The BUY cards of the best names in order, and the WATCH cards of the next.
SwingBuys(rank) ==
    [k \in 1..Smaller(swing.max_positions, Len(rank)) |-> build_swing_card(rank[k], FALSE)]
SwingWatched(rank) ==
    UNION {build_swing_card(a, TRUE) :
              a \in Leaders(rank, swing.max_positions + 4) \ Leaders(rank, swing.max_positions)}

SwingEvening(rank, holdings) ==
    [cards |-> aggregate(SwingBuys(rank), holdings) \union SwingWatched(rank),
     holdings |-> holdings]

\* plan_swing: the evening's SWING cards next to the INVEST targets in force.
PlanSwing ==
    /\ phase = "swing"
    /\ \E rank \in Rankings :
          evening' = SwingEvening(rank, [key \in Presets |-> book[key].cur])
    /\ orders' = {to_signal_item(c, Value(c)) : c \in {x \in evening'.cards : x.action = "BUY"}}
    /\ phase' = "close"
    /\ UNCHANGED <<session, style, context, book, asked>>

\* generate_live: today's cards of all the sleeves, the INVEST names counted
\* with their final weight although a card buys one tranche of it.
GenerateLive ==
    /\ phase = "close"
    /\ \E rank \in Rankings, rank_invest \in [Presets -> Rankings] :
        LET final(key) == budgets[key] \div top_k
            CardsOf(key) ==
                (UNION {build_invest_card(a, key, final(key) \div presets[key].tranches, FALSE) :
                          a \in Leaders(rank_invest[key], top_k)})
                \union UNION {build_invest_card(a, key, final(key), TRUE) :
                          a \in Leaders(rank_invest[key], top_k + watch_ranks)
                                   \ Leaders(rank_invest[key], top_k)}
            held(key) == {c.name : c \in {x \in CardsOf(key) : x.action = "BUY"}}
            holdings == [key \in Presets |-> [a \in held(key) |-> final(key)]]
        IN  evening' = [SwingEvening(rank, holdings) EXCEPT
                            !.cards = @ \union UNION {CardsOf(key) : key \in Presets}]
    /\ phase' = "done"
    /\ UNCHANGED <<session, style, context, book, orders, asked>>

NextSession ==
    /\ phase \in {"close", "done"} /\ session < LastSession
    /\ session' = session + 1 /\ phase' = "b1"
    /\ context' \in Contexts
    /\ orders' = {} /\ evening' = [cards |-> {}, holdings |-> <<>>]
    /\ UNCHANGED <<style, book, asked>>

CardsInit ==
    /\ session = 1 /\ phase = "b1"
    /\ style \in Styles /\ context \in Contexts
    /\ book = [key \in Presets |-> NoBook]
    /\ asked = [key \in Presets |-> [a \in Names |-> 0]]
    /\ orders = {} /\ evening = [cards |-> {}, holdings |-> <<>>]

CardsNext == (\E key \in Presets : PlanInvest(key)) \/ PlanSwing \/ GenerateLive \/ NextSession

CardsSpec == CardsInit /\ [][CardsNext]_cardVars

-----------------------------------------------------------------------------
(* Properties *)

OnStep(p) == \E n \in DOMAIN Ticks :
    /\ p >= Ticks[n].lower /\ (n < Len(Ticks) => p < Ticks[n + 1].lower)
    /\ p % Ticks[n].size = 0

\* Whatever the market shows and whatever limit a card was made to fit, an
\* issued card can be traded as it stands: the card's own check finds nothing
\* (its prices are prices of the exchange inside the band of the next session,
\* its levels are in order), every price of its zone is near enough to the
\* close, its reward is worth its risk and its size is whole lots; and the
\* orders that are made of cards state the prices of a card of that evening.
CardsCanBeTraded ==
    /\ \A c \in evening.cards :
        LET l == c.levels
            close == context[c.name].close
            Near(p) == OnStep(p) /\ 100 * (IF p > close THEN p - close ELSE close - p) <= band * close
        IN  /\ problems(c) = {}
            /\ Near(l.low) /\ Near(l.high) /\ l.low <= l.reference /\ l.reference <= l.high
            /\ c.shares > 0 /\ c.shares % lot_size = 0
            /\ c.sleeve = "swing" =>
                 l.stop > 0 /\ 2 * (l.target2 - l.reference) >= 3 * (l.reference - l.stop)
    /\ phase # "done" => \A o \in orders : "levels" \in DOMAIN o =>
        \E c \in evening.cards : c.name = o.name /\ c.levels = o.levels /\ c.action = "BUY"

\* The cards of one evening, all filled, keep every limit: the SWING budget,
\* the total of a name over all the sleeves, the loss if every stop is hit; and
\* the targets of a rebalance that is half way, or was cut short by the next
\* one, never add up to more than the sleeve's budget.
LimitsHold ==
    LET bought == {c \in evening.cards : c.sleeve = "swing" /\ c.action = "BUY"}
    IN  /\ SumOver([c \in bought |-> Value(c)], bought) <= budgets["swing"]
        /\ SumOver([c \in bought |-> RiskIfStop(c)], bought) <= max_open_risk
        /\ \A c \in bought : Value(c) + Held(evening.holdings, c.name) <= max_weight_name
        /\ \A key \in Presets : SumOver(book[key].cur, DOMAIN book[key].cur) <= budgets[key]

\* "a rejected card is no order: the backtest buys only what a card asks for"
\* (reco/backtest.py:105): no item asks for more of a name than cards asked for
\* since its target was last zero.
BoughtByCards ==
    \A o \in orders : o.sleeve \in Presets => o.weight <= asked[o.sleeve][o.name]
=============================================================================
