------------------------------ MODULE MCEngine ------------------------------
(***************************************************************************)
(* Sessions and signals for TLC: two SWING columns s1 and s2 with exit       *)
(* levels and a time-stop, and the INVEST columns v1 and v2 with weights.    *)
(***************************************************************************)
EXTENDS Engine, TLC

CONSTANTS s1, v1, s2, v2, swing

B(o, h, l, x) == [open |-> o, high |-> h, low |-> l, close |-> x]
Flat20 == B(20, 21, 19, 20)
Falls == B(17, 18, 14, 15)
Rises == B(22, 25, 21, 25)
Through == B(20, 24, 16, 18)       \* both levels inside one bar
Halted == B(None, None, None, None)
NoOpen == B(None, 21, 19, 20)

Day(x, y, z) == (s1 :> x) @@ (v1 :> y) @@ (s2 :> z) @@ (v2 :> Flat20)
DaysMixed == {Day(Flat20, Flat20, Flat20), Day(Falls, Flat20, Flat20), Day(Rises, Falls, Flat20),
              Day(Through, Halted, Rises), Day(Halted, NoOpen, Through)}

Hold(j, w) == [inst |-> j, weight |-> w, kind |-> "open", limit |-> None, low |-> None,
               high |-> None, cap |-> None, valid |-> 1, flat |-> FALSE, relative |-> FALSE,
               stop |-> None, target1 |-> None, target |-> None, even |-> FALSE,
               hold |-> None, group |-> None]
Card(j) == [Hold(j, 40) EXCEPT !.flat = TRUE, !.stop = 17, !.target1 = 22, !.target = 25,
                               !.even = TRUE, !.hold = 3, !.group = swing]
Dip(j) == [Card(j) EXCEPT !.kind = "limit", !.limit = 19, !.valid = 2,
                          !.stop = 18, !.target = 26, !.hold = 4]
Break(j) == [Card(j) EXCEPT !.kind = "stop", !.limit = 21, !.high = 24, !.cap = 21,
                            !.relative = TRUE, !.stop = 3, !.target1 = 2, !.target = 4]
AtOpen(j) == [Card(j) EXCEPT !.kind = "ato", !.low = 19, !.high = 21]

Asks(full, items) == [items |-> items, full |-> full]
SignalsMixed == {Asks(FALSE, <<Card(s1), Card(s2)>>), Asks(FALSE, <<Hold(v1, 60), Dip(s1)>>),
                 Asks(FALSE, <<Break(s1), AtOpen(s2)>>), Asks(TRUE, <<Hold(v1, 20), Hold(v2, 20)>>)}
Caps == (swing :> 1)

\* What the theorems on single orders, slots, kill and time-stop suppose.
ASSUME MCEngineAssumption ==
    DatedAreFlat /\ OneGroupEach /\ SETTLE > 0 /\ COOLDOWN <= MAX_SELL + 1
=============================================================================
