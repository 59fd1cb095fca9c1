------------------------------- MODULE Engine -------------------------------
(***************************************************************************)
(* The daily simulator (backtest/engine.py, run_backtest), which is also   *)
(* the paper portfolio: the replay runs it over the recorded cards.        *)
(*                                                                         *)
(* A session goes through the phases of the code's loop: time-stops that   *)
(* fall due, sells, buys in the order they were decided, exit levels, the  *)
(* close with its kill-switch, and the signal that becomes tomorrow's      *)
(* orders.  Prices are in ticks and chosen freely, session by session.     *)
(* Money is in thousandths of a tick, so the cost rates are exact.         *)
(***************************************************************************)
EXTENDS Integers, Sequences, FiniteSets, Functions

CONSTANTS
    Instruments,
    Days,            \* the prices a session may bring, an instrument each
    Signals,         \* what a strategy may ask for at a close
    End,             \* sessions 1 .. End; 0 is the one before the first
    Capital,         \* in thousandths
    LOT, SETTLE, BAND, SLIP, FEE, TAX,      \* FEE, TAX: thousandths of the value
    T1_PERCENT,      \* target1_fraction
    THRESHOLD,       \* rebalance_threshold, percent of the target
    STOP_FIRST,      \* tie
    MAX_SELL,        \* max_pending_sell_sessions
    MAX_POSITIONS,
    GROUP_CAP,       \* max_positions_by_group
    KILL, COOLDOWN,  \* kill_drawdown in percent
    None

Price == {p \in Nat : p > SLIP}
Option(S) == S \union {None}
Bar == [open: Option(Price), high: Option(Price), low: Option(Price), close: Option(Price)]
Groups == DOMAIN GROUP_CAP

\* SignalItem.  relative: the exit levels are distances from the fill price.
Item == [inst: Instruments, weight: Nat, kind: {"open", "limit", "stop", "ato"},
         limit: Option(Price), low: Option(Price), high: Option(Price), cap: Option(Price),
         valid: Nat, flat: BOOLEAN, relative: BOOLEAN, stop: Option(Price),
         target1: Option(Price), target: Option(Price), even: BOOLEAN,
         hold: Option(Nat), group: Option(Groups)]
Signal == [items: Seq(Item), full: BOOLEAN]

\* What run_backtest refuses to start with, and what its config refuses.
Valid(it) ==
    /\ it.kind = "stop" => it.limit # None
    /\ it.kind = "ato" => it.low # None \/ it.high # None

ASSUME EngineAssumption ==
    /\ IsFiniteSet(Instruments)
    /\ Days \subseteq [Instruments -> Bar] /\ Days # {} /\ Signals \subseteq Signal
    /\ \A s \in Signals : \A k \in DOMAIN s.items : Valid(s.items[k])
    /\ {LOT, MAX_POSITIONS} \subseteq Nat \ {0}
    /\ {End, Capital, SETTLE, BAND, SLIP, FEE, TAX, THRESHOLD, MAX_SELL, COOLDOWN} \subseteq Nat
    /\ FEE + TAX < 1000 /\ T1_PERCENT \in 0..99 /\ KILL \in 1..100
    /\ STOP_FIRST \in BOOLEAN /\ GROUP_CAP \in [Groups -> Nat]
    /\ None \notin Int /\ None \notin Groups

VARIABLES
    session, phase,
    bar,       \* today's prices
    last,      \* last_close
    cash,
    pos,       \* positions: their lots, exit levels and group
    sells,     \* pending sells
    buys,      \* pending buys, oldest first
    left,      \* sells, or positions, the phase has still to look at
    queue,     \* buys, then signal items, the phase has still to look at
    equity, peak, killed, until,
    unlisted   \* what the signal at hand does not list and therefore sells

market == <<bar, last>>
orders == <<sells, buys>>
risk == <<equity, peak, killed, until>>
vars == <<session, phase, market, cash, pos, orders, left, queue, risk, unlisted>>

-----------------------------------------------------------------------------
(* Types *)

Lot == [qty: Nat \ {0}, at: Nat]
Position == [lots: Seq(Lot), stop: Option(Nat), target1: Option(Price), target: Option(Price),
             done: BOOLEAN, even: BOOLEAN, moved: Option(Nat), from: Nat,
             due: Option(Nat), group: Option(Groups), gross: Nat, bought: Nat]
Flat == [lots |-> <<>>, stop |-> None, target1 |-> None, target |-> None, done |-> FALSE,
         even |-> FALSE, moved |-> None, from |-> 0, due |-> None, group |-> None,
         gross |-> 0, bought |-> 0]

\* An order executes from the session after it was made; upto is its last.
SellOrder == [inst: Instruments, upto: Nat, qty: Nat \ {0}]
BuyOrder == [upto: Nat, value: Nat, limit: Option(Price), item: Item]

Phases == {"sells", "buys", "exits", "close", "decide", "orders", "rest"}

TypeOK ==
    /\ session \in Nat /\ phase \in Phases
    /\ bar \in [Instruments -> Bar] /\ last \in [Instruments -> Option(Price)]
    /\ cash \in Int /\ equity \in Int /\ peak \in Int
    /\ pos \in [Instruments -> Position]
    /\ sells \subseteq SellOrder /\ buys \in Seq(BuyOrder)
    /\ killed \in BOOLEAN /\ until \in Int /\ unlisted \subseteq Instruments
    /\ left \subseteq sells \/ left \subseteq Instruments
    /\ queue \in Seq(BuyOrder) \/ queue \in Seq(Item)

-----------------------------------------------------------------------------
(* Positions *)

\* The shares of those lots whose number is in K.
Counted(lots, K) ==
    LET upto[n \in 0..Len(lots)] ==
            IF n = 0 THEN 0 ELSE upto[n - 1] + (IF n \in K THEN lots[n].qty ELSE 0)
    IN upto[Len(lots)]
Shares(lots) == Counted(lots, DOMAIN lots)
Qty(j) == Shares(pos[j].lots)
Held == {j \in Instruments : pos[j].lots # <<>>}

\* sellable: T+2.
AllShares(lots, i) == Shares(lots)                                    \* mutant
Sellable(lots, i) == Counted(lots, {k \in DOMAIN lots : i - lots[k].at >= SETTLE})

\* The elements of s that are in S, in their order.
Only(s, S) ==
    LET kept[n \in 0..Len(s)] ==
            IF n = 0 THEN <<>>
            ELSE IF s[n] \in S THEN Append(kept[n - 1], s[n]) ELSE kept[n - 1]
    IN kept[Len(s)]

Least(a, b) == IF a < b THEN a ELSE b
Most(a, b) == IF a < b THEN b ELSE a

\* remove: FIFO.
Removed(lots, q) ==
    LET before(k) == Counted(lots, 1..k - 1)
        rest == [k \in DOMAIN lots |->
                    [lots[k] EXCEPT !.qty = @ - Most(0, Least(@, q - before(k)))]]
    IN Only(rest, {l \in Range(rest) : l.qty > 0})

\* exec_sell: a position without shares is closed, and its levels with it.
Sold(p, q) == IF q >= Shares(p.lots) THEN Flat ELSE [p EXCEPT !.lots = Removed(@, q)]

-----------------------------------------------------------------------------
(* Market rules *)

Trades(b) == b.open # None /\ b.close # None
Ceiling(j) == last[j] + BAND
AtCeiling(j) == last[j] # None /\ bar[j].open # None /\ bar[j].open >= Ceiling(j)
Floor(j) == IF last[j] = None THEN 0 ELSE Most(0, last[j] - BAND)
UpTo(j, price) == IF last[j] = None THEN price ELSE Least(price, Ceiling(j))
SellAt(j, price) == Most(price - SLIP, Floor(j))

Lots(q) == LOT * (q \div LOT)
Cost(q, price) == q * price * (1000 + FEE)
Net(q, price) == q * price * (1000 - FEE - TAX)
\* buy_quantity
Affordable(budget, price) == Lots(budget \div (price * (1000 + FEE)))

-----------------------------------------------------------------------------
(* Orders *)

SellsOf(j) == {o \in sells : o.inst = j}
BuysOf(j) == {o \in Range(buys) : o.item.inst = j}

\* Sells are tried in MAX_SELL + 1 sessions.
SellAll(j, made) == [inst |-> j, upto |-> made + 1 + MAX_SELL, qty |-> Qty(j)]

\* 0. time-stops that fall due.
Due(j, i) == pos[j].due # None /\ i >= pos[j].due
TimeStops(i) == {SellAll(j, i - 1) : j \in {k \in Held : Due(k, i) /\ SellsOf(k) = {}}}

NextSession ==
    /\ phase = "rest" /\ session < End
    /\ session' = session + 1 /\ phase' = "sells"
    /\ bar' \in Days
    /\ sells' = sells \union TimeStops(session')
    /\ left' = sells'
    /\ UNCHANGED <<last, cash, pos, buys, queue, risk, unlisted>>

-----------------------------------------------------------------------------
(* 1. Sells, then buys *)

CanSell(o) ==
    LET j == o.inst
    IN Trades(bar[j]) /\ bar[j].open > Floor(j) /\ Sellable(pos[j].lots, session) > 0

Lasts(upto) == session < upto

SellFills(o) ==
    LET j == o.inst
        q == Least(o.qty, Sellable(pos[j].lots, session))
    IN /\ phase = "sells" /\ o \in left /\ CanSell(o)
       /\ cash' = cash + Net(q, SellAt(j, bar[j].open))
       /\ pos' = [pos EXCEPT ![j] = Sold(@, q)]
       /\ sells' = (sells \ {o}) \union
             (IF q < o.qty /\ q < Qty(j) /\ Lasts(o.upto) THEN {[o EXCEPT !.qty = @ - q]} ELSE {})
       /\ left' = left \ {o}
       /\ UNCHANGED <<session, phase, market, buys, queue, risk, unlisted>>

\* The position is already closed, or this session cannot sell.
SellWaits(o) ==
    /\ phase = "sells" /\ o \in left /\ ~CanSell(o)
    /\ sells' = IF o.inst \in Held /\ Lasts(o.upto) THEN sells ELSE sells \ {o}
    /\ left' = left \ {o}
    /\ UNCHANGED <<session, phase, market, cash, pos, buys, queue, risk, unlisted>>

SellsEnd ==
    /\ phase = "sells" /\ left = {}
    /\ phase' = "buys" /\ queue' = buys /\ buys' = <<>>
    /\ UNCHANGED <<session, market, cash, pos, sells, left, risk, unlisted>>

\* cancel_if_open_above: not chased.
Chased(o) ==
    LET open == bar[o.item.inst].open
    IN o.item.cap # None /\ open # None /\ open > o.item.cap

BuyPrice(o) ==
    LET open == bar[o.item.inst].open
        ask == CASE o.item.kind = "stop" -> (IF open = None THEN o.limit ELSE Most(o.limit, open)) + SLIP
                 [] o.item.kind = "limit" -> IF open = None THEN o.limit ELSE Least(o.limit, open)
                 [] OTHER -> open + SLIP
    IN UpTo(o.item.inst, ask)

InZone(it, price) ==
    (it.low = None \/ price >= it.low) /\ (it.high = None \/ price <= it.high)

CanBuy(o) ==
    LET it == o.item
        b == bar[it.inst]
    IN /\ b.close # None
       /\ CASE it.kind = "stop" -> /\ b.high # None /\ b.high >= o.limit /\ ~AtCeiling(it.inst)
                                   /\ it.high = None \/ BuyPrice(o) <= it.high
            [] it.kind = "ato" -> Trades(b) /\ InZone(it, b.open) /\ ~AtCeiling(it.inst)
            [] it.kind = "limit" -> b.low # None /\ b.low <= o.limit
            [] OTHER -> Trades(b) /\ ~AtCeiling(it.inst)
       /\ Affordable(Least(o.value, cash), BuyPrice(o)) >= LOT

\* exec_buy: levels are set once; a later fill adds shares and moves none of them.
Level(it, distance, price, way) ==
    IF distance # None /\ it.relative THEN Most(0, price + way * distance) ELSE distance
Unset(p) == p.stop = None /\ p.target = None /\ p.due = None /\ p.target1 = None
Bought(p, it, q, price) ==
    LET more == [p EXCEPT !.lots = Append(@, [qty |-> q, at |-> session]),
                          !.gross = @ + q * price, !.bought = @ + q,
                          !.group = IF @ = None THEN it.group ELSE @]
    IN IF Unset(p)
       THEN [more EXCEPT !.stop = Level(it, it.stop, price, -1),
                         !.target1 = Level(it, it.target1, price, 1),
                         !.target = Level(it, it.target, price, 1),
                         !.even = IF it.target1 = None THEN @ ELSE it.even,
                         !.due = IF it.hold = None THEN @ ELSE session + it.hold]
       ELSE more

BuyFills ==
    /\ phase = "buys" /\ queue # <<>>
    /\ LET o == Head(queue)
           j == o.item.inst
           q == Affordable(Least(o.value, cash), BuyPrice(o))
       IN /\ ~Chased(o) /\ CanBuy(o)
          /\ cash' = cash - Cost(q, BuyPrice(o))
          /\ pos' = [pos EXCEPT ![j] = Bought(@, o.item, q, BuyPrice(o))]
    /\ queue' = Tail(queue)
    /\ UNCHANGED <<session, phase, market, orders, left, risk, unlisted>>

BuyFails ==
    /\ phase = "buys" /\ queue # <<>>
    /\ LET o == Head(queue)
       IN /\ Chased(o) \/ ~CanBuy(o)
          /\ buys' = IF ~Chased(o) /\ Lasts(o.upto) THEN Append(buys, o) ELSE buys
    /\ queue' = Tail(queue)
    /\ UNCHANGED <<session, phase, market, cash, pos, sells, left, risk, unlisted>>

BuysEnd ==
    /\ phase = "buys" /\ queue = <<>>
    /\ phase' = "exits" /\ left' = Held
    /\ UNCHANGED <<session, market, cash, pos, orders, queue, risk, unlisted>>

-----------------------------------------------------------------------------
(* 2. Exit levels *)

\* The break-even stop, from the session after the first target was reached.
ToMoved(p) ==                                                         \* mutant
    IF p.moved # None /\ session >= p.from THEN [p EXCEPT !.stop = p.moved, !.moved = None] ELSE p
Stepped(p) ==
    IF p.moved # None /\ session >= p.from
    THEN [p EXCEPT !.stop = IF @ = None THEN p.moved ELSE Most(@, p.moved), !.moved = None]
    ELSE p

First(p) == p.target1 # None /\ ~p.done
Watched(j, p) ==
    LET b == bar[j]
    IN /\ p.stop # None \/ p.target # None \/ First(p)
       /\ Trades(b) /\ b.high # None /\ b.low # None
       /\ Sellable(p.lots, session) > 0 /\ b.high > Floor(j)

\* Where the first target and where the rest is sold; None where it is not.
StopLast(b, p) ==                                                     \* mutant
    p.stop # None /\ b.low <= p.stop /\ ~(First(p) /\ b.high >= p.target1)
StopHit(b, p) ==
    /\ p.stop # None /\ b.low <= p.stop
    /\ STOP_FIRST \/ ~ \/ p.target # None /\ b.high >= p.target
                       \/ First(p) /\ b.open < p.target1 /\ b.high >= p.target1
Exits(j, p) ==
    LET b == bar[j]
        opensUnder == p.stop # None /\ b.open <= p.stop
        opensOver == p.target # None /\ b.open >= p.target
        opensFirst == First(p) /\ b.open >= p.target1
        reached == p.target # None /\ b.high >= p.target
        stopPrice == Most(Most(p.stop - SLIP, b.low), Floor(j))
    IN CASE opensUnder -> [first |-> None, rest |-> SellAt(j, b.open)]
         [] ~opensUnder /\ opensOver -> [first |-> None, rest |-> b.open]
         [] OTHER ->
              [first |-> IF opensFirst THEN b.open
                         ELSE IF First(p) /\ ~StopHit(b, p) /\ (reached \/ b.high >= p.target1)
                              THEN p.target1 ELSE None,
               rest |-> IF StopHit(b, p) THEN stopPrice ELSE IF reached THEN p.target ELSE None]

\* take_first_target: too few shares to split skip the sale, not the mark.
FirstLots(p) ==
    LET q == Lots((Sellable(p.lots, session) * T1_PERCENT) \div 100)
    IN IF LOT <= q /\ q < Shares(p.lots) THEN q ELSE 0
FirstTaken(p) ==
    LET q == FirstLots(p)
        kept == [p EXCEPT !.done = TRUE, !.lots = Removed(@, q)]
    IN IF q > 0 /\ p.even
       THEN [kept EXCEPT !.moved = (p.gross + p.bought - 1) \div p.bought, !.from = session + 1]
       ELSE kept

NoExit(j) ==
    LET p == Stepped(pos[j])
    IN /\ phase = "exits" /\ j \in left
       /\ Watched(j, p) => Exits(j, p) = [first |-> None, rest |-> None]
       /\ pos' = [pos EXCEPT ![j] = p]
       /\ left' = left \ {j}
       /\ UNCHANGED <<session, phase, market, cash, orders, queue, risk, unlisted>>

Exit(j) ==
    LET p == Stepped(pos[j])
        at == Exits(j, p)
        split == IF at.first = None THEN p ELSE FirstTaken(p)
        q == Sellable(split.lots, session)
    IN /\ phase = "exits" /\ j \in left
       /\ Watched(j, p) /\ at # [first |-> None, rest |-> None]
       /\ pos' = [pos EXCEPT ![j] = IF at.rest = None THEN split ELSE Sold(split, q)]
       /\ cash' = cash + (IF at.first = None THEN 0 ELSE Net(FirstLots(p), at.first))
                       + (IF at.rest = None THEN 0 ELSE Net(q, at.rest))
       /\ left' = left \ {j}
       /\ UNCHANGED <<session, phase, market, orders, queue, risk, unlisted>>

ExitsEnd ==
    /\ phase = "exits" /\ left = {}
    /\ phase' = "close"
    /\ UNCHANGED <<session, market, cash, pos, orders, left, queue, risk, unlisted>>

-----------------------------------------------------------------------------
(* 3. Mark to market and kill-switch *)

Resumes == killed /\ session >= until
Drawdown(top, worth) == (top - worth) * 100 >= KILL * top
KeepsSells ==                                                         \* mutant
    buys' = <<>> /\ sells' = sells \union {SellAll(j, session) : j \in Held}
Liquidate ==
    /\ buys' = <<>>
    /\ sells' = {o \in sells : o.inst \notin Held} \union {SellAll(j, session) : j \in Held}

\* The sum of f over S.
Total(f, S) ==
    LET over[T \in SUBSET S] ==
            IF T = {} THEN 0 ELSE LET j == CHOOSE j \in T : TRUE IN f[j] + over[T \ {j}]
    IN over[S]

Close ==
    LET marked == [j \in Instruments |-> IF bar[j].close = None THEN last[j] ELSE bar[j].close]
        worth == cash + 1000 * Total([j \in Held |-> Qty(j) * marked[j]], Held)
        active == ~killed \/ Resumes
        top == IF Resumes THEN worth ELSE Most(peak, worth)
        fires == active /\ Drawdown(top, worth)
    IN /\ phase = "close" /\ phase' = "decide"
       /\ last' = marked /\ equity' = worth
       /\ peak' = IF active THEN top ELSE peak
       /\ killed' = IF active THEN fires ELSE killed
       /\ until' = IF fires THEN session + COOLDOWN ELSE until
       /\ IF fires THEN Liquidate ELSE UNCHANGED orders
       /\ UNCHANGED <<session, bar, cash, pos, left, queue, unlisted>>

-----------------------------------------------------------------------------
(* 4. The signal becomes the next session's orders *)

NoSignal ==
    /\ phase = "decide" /\ queue = <<>> /\ unlisted = {}
    /\ phase' = "rest"
    /\ UNCHANGED <<session, market, cash, pos, orders, left, queue, risk, unlisted>>

Listed(s) == {s.items[k].inst : k \in DOMAIN s.items}

\* Not in the cooldown, and not at the last session, which nothing follows.
Decide ==
    /\ phase = "decide" /\ queue = <<>> /\ unlisted = {}
    /\ ~killed /\ session < End
    /\ \E s \in Signals :
          /\ queue' = s.items
          /\ unlisted' = IF s.full THEN Held \ Listed(s) ELSE {}
    /\ phase' = "orders"
    /\ UNCHANGED <<session, market, cash, pos, orders, left, risk>>

\* max_positions_by_group and max_positions count what is held or awaits a buy.
BuysIn(g) == {o.item.inst : o \in {b \in Range(buys) : b.item.group = g}}
InGroup(g) == {j \in Held : pos[j].group = g} \union BuysIn(g)
Occupied == Held \union {o.item.inst : o \in Range(buys)}

Skipped(it) ==
    LET j == it.inst
        room(S, most) == j \in S \/ Cardinality(S) < most
    IN \/ last[j] = None
       \/ it.flat /\ (j \in Held \/ SellsOf(j) # {} \/ BuysOf(j) # {})
       \/ /\ it.weight > 0 /\ j \notin Held
          /\ \/ it.group # None /\ ~room(InGroup(it.group), GROUP_CAP[it.group])
             \/ ~room(Occupied, MAX_POSITIONS)

Skip ==
    /\ phase = "orders" /\ queue # <<>> /\ Skipped(Head(queue))
    /\ queue' = Tail(queue)
    /\ UNCHANGED <<session, phase, market, cash, pos, orders, left, risk, unlisted>>

\* weight: percent of the equity.  The new decision supersedes what is pending.
Limit(it) == IF it.kind = "limit" /\ it.limit = None THEN last[it.inst] ELSE it.limit
Order(it) ==
    LET j == it.inst
        target == (it.weight * equity) \div 100
        delta == target - 1000 * Qty(j) * last[j]
        small == /\ it.weight > 0 /\ j \in Held
                 /\ Most(delta, -delta) * 100 < THRESHOLD * target
        q == IF it.weight = 0 THEN Qty(j) ELSE Least(Qty(j), Lots((0 - delta) \div (1000 * last[j])))
        others == {o \in sells : o.inst # j}
        waiting == Only(buys, {o \in Range(buys) : o.item.inst # j})
    IN /\ phase = "orders" /\ queue # <<>> /\ it = Head(queue) /\ ~Skipped(it)
       /\ buys' = IF ~small /\ delta > 0 /\ it.weight > 0
                  THEN Append(waiting, [upto |-> session + Most(1, it.valid), value |-> delta,
                                        limit |-> Limit(it), item |-> it])
                  ELSE waiting
       /\ sells' = IF ~small /\ (delta < 0 \/ it.weight = 0) /\ q > 0
                   THEN others \union {[SellAll(j, session) EXCEPT !.qty = q]} ELSE others
       /\ queue' = Tail(queue)
       /\ UNCHANGED <<session, phase, market, cash, pos, left, risk, unlisted>>

\* full_rebalance
OrdersEnd ==
    /\ phase = "orders" /\ queue = <<>>
    /\ sells' = {o \in sells : o.inst \notin unlisted} \union {SellAll(j, session) : j \in unlisted}
    /\ buys' = Only(buys, {o \in Range(buys) : o.item.inst \notin unlisted})
    /\ phase' = "rest" /\ unlisted' = {}
    /\ UNCHANGED <<session, market, cash, pos, left, queue, risk>>

-----------------------------------------------------------------------------

Init ==
    /\ session = 0 /\ phase = "rest"
    /\ \E d \in Days : bar = d /\ last = [j \in Instruments |-> d[j].close]
    /\ cash = Capital /\ equity = Capital /\ peak = Capital
    /\ pos = [j \in Instruments |-> Flat]
    /\ sells = {} /\ buys = <<>> /\ left = {} /\ queue = <<>>
    /\ killed = FALSE /\ until = -1 /\ unlisted = {}

Next ==
    \/ NextSession
    \/ \E o \in sells : SellFills(o) \/ SellWaits(o)
    \/ SellsEnd \/ BuyFills \/ BuyFails \/ BuysEnd
    \/ \E j \in Instruments : NoExit(j) \/ Exit(j)
    \/ ExitsEnd \/ Close
    \/ NoSignal \/ Decide \/ Skip
    \/ \E s \in Signals : \E k \in DOMAIN s.items : Order(s.items[k])
    \/ OrdersEnd

Spec == Init /\ [][Next]_vars

-----------------------------------------------------------------------------
(* Properties *)

\* The docstring's account: long-only, no borrowing, T+2, oldest shares first,
\* and nothing moves between sessions.  Each step is one of Account or none.
Shared(j, d) ==
    LET lots == pos[j].lots
    IN Counted(lots, {k \in DOMAIN lots : lots[k].at = d})
A == INSTANCE Account WITH
         Sessions <- 0..End,
         held <- [j \in Instruments |-> [d \in 0..End |-> Shared(j, d)]]
ImplementsAccount == A!Spec

\* What the strategies that use the simulator keep to, and some properties need:
\* an instrument with a max_hold (a SWING column) is bought only when flat, and an
\* instrument is of one group (the virtual columns of reco/backtest.py see to both).
Asked == UNION {Range(s.items) : s \in Signals}
DatedAreFlat == \A a, b \in Asked : a.inst = b.inst /\ a.hold # None => b.flat
OneGroupEach == \A a, b \in Asked : a.inst = b.inst => a.group = b.group

\* A new decision supersedes the old one: an instrument never has two orders for
\* the next session, or one of each side.  A time-stop (phase 0) is made beside a
\* buy that waits, so it is excluded: exec_sell and exec_buy then both run.
OneOrderEach ==
    phase = "rest" => \A j \in Instruments :
        /\ Cardinality(SellsOf(j)) + Cardinality({k \in DOMAIN buys : buys[k].item.inst = j}) <= 1

Waiting == Range(buys) \union (IF phase = "buys" THEN Range(queue) ELSE {})
Awaits(j) == \E o \in Waiting : o.item.inst = j

\* EngineConfig.max_positions and max_positions_by_group (the paper record's
\* sleeves) count what is held or awaits a buy, at any moment.  An instrument is
\* in one group only, which the virtual columns of reco/backtest.py see to.
SlotsAreBounded ==
    /\ Cardinality({j \in Instruments : j \in Held \/ Awaits(j)}) <= MAX_POSITIONS
    /\ \A g \in Groups :
         Cardinality({j \in Held : pos[j].group = g} \union
                     {o.item.inst : o \in {x \in Waiting : x.item.group = g}}) <= GROUP_CAP[g]

\* EngineConfig.kill_drawdown: from the close that fires it to the end of the
\* cooldown no buy waits, and all that is still held is on sale.  It needs a
\* cooldown no longer than the sells last, as by default (21 and 20 + 1).
KillSellsEverything ==
    killed /\ phase = "rest" =>
        /\ buys = <<>>
        /\ \A j \in Held : \E o \in SellsOf(j) : o.qty >= Qty(j)

\* SignalItem.max_hold: once the sells of the session are done, nothing due is
\* still held that the session let go.  The items with a max_hold are only_if_flat,
\* as the SWING cards are: a partial sell that waits would put the time-stop off.
TimeExitOnTime ==
    phase = "buys" => \A j \in Held :
        pos[j].due # None /\ session >= pos[j].due /\ Trades(bar[j]) /\ bar[j].open > Floor(j)
            => \E k \in DOMAIN pos[j].lots : session < pos[j].lots[k].at + SETTLE

\* With the stop taken first, a session that traded through a stop leaves no
\* settled share of the position, whatever targets it also touched.
StopIsHonoured ==
    phase = "close" /\ STOP_FIRST => \A j \in Held :
        LET b == bar[j]
        IN pos[j].stop # None /\ Trades(b) /\ b.high # None /\ b.low # None /\ b.high > Floor(j)
               /\ b.low <= pos[j].stop
           => \A k \in DOMAIN pos[j].lots : session < pos[j].lots[k].at + SETTLE

\* exec_buy and the break-even move: as long as a position is held its stop never
\* falls, through top-ups, partial exits and the first target.
NoLowerStop ==
    \A j \in Instruments :
        j \in Held /\ pos'[j].lots # <<>> /\ pos[j].stop # None =>
            pos'[j].stop # None /\ pos'[j].stop >= pos[j].stop
StopNeverFalls == [][NoLowerStop]_vars

\* Between any two steps the orders fit the book: at most one for an instrument,
\* and no more positions and buys than the caps allow.
OrdersFitTheBook == TypeOK /\ OneOrderEach /\ SlotsAreBounded

\* What must be sold is sold, or on sale, at the moment its rule says: the kill
\* switch, the time-stop and the stop.
ExitsAreHonoured == KillSellsEverything /\ TimeExitOnTime /\ StopIsHonoured
=============================================================================
