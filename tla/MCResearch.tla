----------------------------- MODULE MCResearch -----------------------------
(***************************************************************************)
(* The components behind the models and the cards, checked side by side:   *)
(* the features, the walk-forward folds, the held-out period, the cards    *)
(* and the signals.  A behaviour steps one of them, named by focus; the    *)
(* others stay as they begin, and what they begin with is of no interest.  *)
(***************************************************************************)
EXTENDS Features, WalkForward, HeldOut, Cards, Signals, TLC

CONSTANTS Foci, o1, o2

-----------------------------------------------------------------------------
(* Features: two stocks and two indexes.                                   *)

Q(n) == <<n, 1>>
Bar(o, h, l, c, v) == [open |-> Q(o), high |-> Q(h), low |-> Q(l), close |-> Q(c), volume |-> Q(v)]
MCStocks == {"a", "b"}
Tape(x, y, p, f) == [bars |-> [i \in MCStocks |-> IF i = "a" THEN x ELSE y], primary |-> p, fallback |-> f]

MCTapes == {Tape(Bar(1, 2, 1, 2, 1), Absent, NaN, Q(2)),
            Tape(Bar(3, 2, 1, 1, 2), Bar(2, 1, 1, 2, 1), Q(1), Q(1)),
            Tape(Bar(2, 2, 1, 1, 1), Absent, NaN, NaN),
            Tape(Absent, Bar(1, 3, 1, 3, 0), Q(2), NaN)}

\* The features of a set declare one warm-up, so that each is put to the test.
MCSets == {{"ret", "rsi", "atr", "donchian", "volume_spike", "rel_strength", "volatility",
            "downside_beta", "liquidity_v2"},
           {"bollinger", "zscore", "drawdown", "sma_ratio"},
           {"macd", "momentum_skip"},
           {"gap"}}

MCRows == {{[stock |-> "a", from |-> 1, to |-> 0], [stock |-> "b", from |-> 2, to |-> 4]}}

-----------------------------------------------------------------------------
(* Folds: one stock moves, the other has the same bar every session.       *)

OHLC(o, h, l, c) == [open |-> o, high |-> h, low |-> l, close |-> c]
MCSuspended == OHLC(0, 0, 0, 0)
MCListed == {"a", "b"}
MCMarkets == {[i \in MCListed |-> IF i = "a" THEN x ELSE OHLC(4, 4, 4, 4)] :
                 x \in {MCSuspended, OHLC(8, 8, 3, 5), OHLC(2, 3, 2, 3)}}

Plan(e, tr, em, te, st, v, l) ==
    [expanding |-> e, train |-> tr, embargo |-> em, test |-> te, step |-> st, val |-> v, labels |-> l]
MCPlans == {Plan(TRUE, 3, 1, 1, 1, 1, {0, 1}), Plan(FALSE, 2, 0, 1, 1, 1, {0, 2})}

-----------------------------------------------------------------------------
(* The held-out period: one research job of two presets, two settings; b2   *)
(* fails under one of them.                                                *)

MCOperators == {o1, o2}
MCFamilies == {<<"b1", "b2">>}
MCRuleOf == [s \in {"c1", "c3"} |-> IF s = "c3" THEN "r2" ELSE "r1"]
MCPassing == {<<"c1", "b1">>, <<"c3", "b1">>, <<"c3", "b2">>}
MCSymmetry == Permutations(MCOperators)

-----------------------------------------------------------------------------
(* Cards: three names, two INVEST sleeves and the swing sleeve.            *)

MCNames == {"a", "b", "c"}
Shows(c, w, x, y) == [close |-> c, atr |-> w, hi20 |-> x, hi60 |-> y]
Pull == Shows(1005, 30, 1060, 1100)
Break == Shows(1000, 20, 1005, 1005)
Resist == Shows(995, 16, 1022, 1022)
Dear == Shows(4990, 100, 5300, 5400)
Wild == Shows(500, 65, 640, 650)
Fresh == Shows(980, 12, 0, 0)              \* too young for a high
Evening(x, y, z) == [n \in MCNames |-> IF n = "a" THEN x ELSE IF n = "b" THEN y ELSE z]
MCContexts == {Evening(Pull, Break, Resist), Evening(Dear, Fresh, Break), Evening(Resist, Pull, Wild)}

MCFull == {<<"a", "b", "c">>, <<"b", "c", "a">>}
MCRankings == {<<"a", "b", "c">>, <<"c", "b", "a">>, <<"b", "c">>}
MCTicks == <<[lower |-> 0, size |-> 1], [lower |-> 1000, size |-> 5], [lower |-> 5000, size |-> 10]>>
MCBudgets == [swing |-> 500000, b1 |-> 600000, b2 |-> 600000]
MCSwing == [breakout_within |-> 2, buffer_atr |-> 10, zone_atr |-> 30, pullback_atr |-> <<60, 15>>,
            ato_zone |-> <<-1, 1>>, stop_atr |-> 100, target1_atr |-> 100, target2_atr |-> 200,
            min_rr |-> 150, risk_per_trade |-> 9000, max_weight |-> 450000, max_positions |-> 2]
MCPresets == [b1 |-> [tranches |-> 1, spacing |-> 1, rebalances |-> {1, 3}],
              b2 |-> [tranches |-> 3, spacing |-> 1, rebalances |-> {1, 3}]]
MCZone == <<-2, 1>>

-----------------------------------------------------------------------------
(* Signals: three names; an evening gives rows, returns and index levels.  *)

Row(x, p, r, v) == [score |-> x, proba |-> p, base |-> <<1, 2>>, atr |-> r, vol |-> v]
Close(rows, x, y, z, index) == [rows |-> rows, moves |-> <<x, y, z>>, index |-> index]
MCEvenings ==
    {Close(<<Row(Q(2), <<3, 4>>, <<1, 50>>, Q(1)), Row(Q(1), <<1, 4>>, <<1, 25>>, Q(2)),
             Row(Q(2), <<1, 2>>, NaN, Q(4))>>, <<1, 50>>, <<-1, 50>>, Q(0), <<0, 10>>),
     Close(<<Row(Q(1), <<1, 2>>, <<3, 10>>, NaN), Row(NaN, NaN, <<1, 10>>, Q(1)),
             Row(Q(3), <<1, 4>>, <<1, 50>>, Q(2))>>, <<-1, 25>>, Q(0), NaN, <<12, 9>>),
     Close(<<>>, Q(0), <<1, 25>>, <<1, 50>>, <<9, 11>>)}

Chosen(kind, k, cap) == [kind |-> kind, k |-> k, cap |-> cap]
MCStrategies ==
    {Chosen("invest", 2, <<2, 5>>) @@ [scheme |-> "variance", tranches |-> 2, spacing |-> 1,
                                       equity_share |-> <<1, 2>>],
     Chosen("invest", 3, <<2, 5>>) @@ [scheme |-> "variance", tranches |-> 1, spacing |-> 1,
                                       equity_share |-> Q(1)],
     Chosen("topk", 2, <<2, 5>>) @@ [multiple |-> <<1, 1>>],
     Chosen("barrier", 2, NaN) @@ [multiple |-> <<1, 2>>, stop_mult |-> Q(2), target_mult |-> Q(3)],
     Chosen("baseline", 3, <<3, 8>>) @@ [scheme |-> "inverse_vol", score |-> "score", ascending |-> TRUE],
     Chosen("baseline", 0, NaN) @@ [scheme |-> "equal", score |-> "const", ascending |-> FALSE]}

-----------------------------------------------------------------------------

VARIABLE focus

MCInit ==
    /\ focus \in Foci
    /\ FeaturesInit /\ FoldsInit /\ HeldOutInit /\ CardsInit /\ SignalsInit
    /\ focus # "features" => feature_set = CHOOSE x \in FeatureSets : TRUE
    /\ focus # "folds" => fork = CHOOSE x \in Forks : TRUE
    /\ setting = "c1"                              \* c3 is an edit away
    /\ focus # "cards" => /\ style = CHOOSE x \in Styles : TRUE
                          /\ context = CHOOSE x \in Contexts : TRUE
    /\ focus # "signals" => strategy = CHOOSE x \in Strategies : x.kind = "barrier"

MCNext ==
    \/ focus = "features" /\ FeaturesNext
       /\ UNCHANGED <<focus, foldVars, heldOutVars, cardVars, signalVars>>
    \/ focus = "folds" /\ FoldsNext
       /\ UNCHANGED <<focus, featureVars, heldOutVars, cardVars, signalVars>>
    \/ focus = "heldout" /\ HeldOutNext
       /\ UNCHANGED <<focus, featureVars, foldVars, cardVars, signalVars>>
    \/ focus = "cards" /\ CardsNext
       /\ UNCHANGED <<focus, featureVars, foldVars, heldOutVars, signalVars>>
    \/ focus = "signals" /\ EveningComes
       /\ UNCHANGED <<focus, featureVars, foldVars, heldOutVars, cardVars>>

MCSpec == MCInit /\ [][MCNext]_<<focus, featureVars, foldVars, heldOutVars, cardVars, signalVars>>
=============================================================================
