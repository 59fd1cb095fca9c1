---------------------------- MODULE PaperRecord ----------------------------
(***************************************************************************)
(* The paper record: the daily job (paper/daily.py), the decisions it      *)
(* stores (live.py, state.py), the replay of all of them (replay.py) and   *)
(* the four transactions that write what the replay found (sync.py).       *)
(*                                                                         *)
(* One run is in progress at a time: the lock of Scheduler.  A run goes    *)
(* through its steps in order; a step may fail, which ends the step and    *)
(* not the run, and the process may be killed between any two              *)
(* transactions.  SWING and one INVEST sleeve are modelled.  Of the engine *)
(* (module Engine) the replay keeps what the record rests on: it is a      *)
(* function of the decisions and the calendar, a decision trades at the    *)
(* next session's open, a sleeve holds at most one position of a name.     *)
(* Here every order fills and a SWING position lives HOLD sessions.        *)
(***************************************************************************)
EXTENDS Integers, Sequences, FiniteSets, FiniteSetsExt, TLC

CONSTANTS
    Names,       \* instruments
    Files,       \* contents the universe file may have: sets of names
    Rankings,    \* orders the INVEST model may put the names in
    SwingPicks,  \* sets of names SWING may ask for
    Month,       \* session -> its month or quarter (rebalance frequency)
    Last,        \* bound of the checked instances: last session
    TRANCHES,    \* invest.presets[].tranches
    SPACING,     \* invest.presets[].tranche_spacing
    TOP_K,       \* invest.top_k
    UNIT,        \* weight of one name of the target, in units that divide evenly
    HOLD,        \* sessions a SWING position is held
    Policies,    \* values of paper.on_removal.invest considered
    FAULTS,      \* bound of the checked instances: failures, kills, late bars
    EDITS,       \* bound of the checked instances: edits of the universe file
    None

Sessions == 1..Last

ASSUME RecordAssumption ==
    /\ IsFiniteSet(Names) /\ Files \subseteq SUBSET Names /\ Files # {}
    /\ SwingPicks \subseteq SUBSET Names
    /\ \A r \in Rankings : r \in Seq(Names) /\ \A x \in Names : \E k \in 1..Len(r) : r[k] = x
    /\ Last \in Nat \ {0} /\ Month \in [Sessions -> Nat]
    /\ TRANCHES \in Nat \ {0} /\ SPACING \in Nat /\ TOP_K \in Nat \ {0}
    /\ UNIT \in Nat \ {0} /\ HOLD \in Nat \ {0}
    /\ Policies \subseteq {"next_rebalance", "close_now"} /\ Policies # {}
    /\ FAULTS \in Nat /\ EDITS \in Nat /\ None \notin Sessions

VARIABLES
    today,      \* date.today()
    file,       \* the universe snapshot file
    policy,     \* paper.on_removal.invest
    members,    \* session -> the members of the universe on it
    stored,     \* session -> how much of its bars price_bar holds
    calendar,   \* trading_calendar
    targets,    \* sleeve_targets in the order of their ids
    cards,      \* recommendations: BUY
    status,     \* card -> recommendations.status
    flagged,    \* the cards that carry the flag left_universe
    orders,     \* paper_orders
    positions,  \* paper_positions
    snaps,      \* session -> portfolio_snapshots
    run,        \* the run in progress
    done,       \* history: how the last run ended
    ran,        \* history: the latest as-of date so far
    faults, edits

world == <<today, file, policy, edits>>
data == <<members, stored, calendar>>
decisions == <<targets, cards>>
marks == <<status, flagged>>
tables == <<orders, positions, snaps>>
vars == <<world, data, decisions, marks, tables, run, done, ran, faults>>

-----------------------------------------------------------------------------
(* Types *)

Sleeves == {"swing", "invest"}
Book == [Names -> 0..UNIT]
NoBook == [x \in Names |-> 0]

\* roll: history, the members when the row was written.
Target == [at: Sessions, kind: {"rebalance", "tranche", "exit"}, n: 1..TRANCHES,
           current: Book, final: Book \union {None}, from: Book \union {None},
           roll: SUBSET Names]
Card == [sleeve: Sleeves, name: Names, at: Sessions]
Statuses == {"pending", "holding", "closed", "skipped"}
Order == [sleeve: Sleeves, name: Names, at: Sessions, weight: 0..UNIT, pending: BOOLEAN]
Position == [sleeve: Sleeves, name: Names, opened: Sessions, closed: Sessions \union {None}]
Steps == {"idle", "universe", "ingest", "calendar", "features", "flags", "cards", "store",
          "orders", "positions", "snapshots", "recommendations", "finish"}

\* session: the last session of the calendar up to asof.  issue: may cards be
\* issued.  drafts: the cards built and not stored yet.
Run == [pc: Steps, asof: Sessions, session: 0..Last, ok: BOOLEAN, issue: BOOLEAN,
        drafts: SUBSET Card]

TypeOK ==
    /\ today \in Sessions /\ file \in Files /\ policy \in Policies
    /\ members \in [Sessions -> SUBSET Names]
    /\ stored \in [Sessions -> {"none", "thin", "full"}]
    /\ calendar \subseteq Sessions
    /\ targets \in Seq(Target)
    /\ cards \subseteq Card /\ flagged \subseteq cards
    /\ status \in [cards -> Statuses]
    /\ orders \subseteq Order /\ positions \subseteq Position
    /\ snaps \in [Sessions -> {None} \union SUBSET (Sleeves \X Names \X (1..UNIT))]
    /\ run \in Run
    /\ done \in {None} \union [ok: BOOLEAN, session: 0..Last]
    /\ ran \in 0..Last /\ faults \in 0..FAULTS /\ edits \in 0..EDITS

-----------------------------------------------------------------------------
(* The target book *)

\* Row k comes before row m in the order (as_of_date, id).
Earlier(k, m) == \/ targets[k].at < targets[m].at
                 \/ targets[k].at = targets[m].at /\ k < m

\* latest_target: the newest row on the dates D, as a set of one or none.
LatestOn(D) ==
    LET rows == {k \in DOMAIN targets : targets[k].at \in D}
    IN  {k \in rows : \A m \in rows \ {k} : Earlier(m, k)}
CurrentOn(D) == IF LatestOn(D) = {} THEN NoBook
                ELSE targets[CHOOSE k \in LatestOn(D) : TRUE].current
Before(s) == 1..(s - 1)

\* The book of the row before row k.
Prev(k) == LET rows == {m \in DOMAIN targets : Earlier(m, k)}
           IN  IF rows = {} THEN NoBook
               ELSE targets[CHOOSE m \in rows : \A j \in rows \ {m} : Earlier(j, m)].current

\* get_target
Stored(at, kind, n) == {k \in DOMAIN targets : /\ targets[k].at = at
                                               /\ targets[k].kind = kind
                                               /\ targets[k].n = n}

\* save_target: a row that is there stays as it is.
Saved(row) == IF Stored(row.at, row.kind, row.n) # {} THEN targets ELSE Append(targets, row)

\* invest_step_due: the first session of its month, then every SPACING sessions.
MonthStart(s) == Min({x \in calendar : x <= s /\ Month[x] = Month[s]})
Offset(s) == Cardinality({x \in calendar : MonthStart(s) < x /\ x <= s})
Due(s) ==
    IF MonthStart(s) = s THEN {[kind |-> "rebalance", n |-> 1]}
    ELSE {[kind |-> "tranche", n |-> k] : k \in {k \in 2..TRANCHES : Offset(s) = (k - 1) * SPACING}}

\* The first TOP_K names of the ranking that are on the roll.
TopOf(ranking, roll) ==
    LET eligible == {k \in DOMAIN ranking : ranking[k] \in roll}
    IN  {ranking[k] : k \in {k \in eligible : Cardinality({j \in eligible : j < k}) < TOP_K}}

\* n of TRANCHES equal steps from one book to another.
Blend(from, final, n) ==
    [x \in Names |-> from[x] + ((final[x] - from[x]) * n) \div TRANCHES]

\* A name that left the universe keeps what it has.
Kept(book, prev, roll) == [x \in Names |-> IF x \in roll THEN book[x] ELSE prev[x]]

RebalanceRow(s, ranking) ==
    LET from == CurrentOn(Before(s))
        final == [x \in Names |-> IF x \in TopOf(ranking, members[s]) THEN UNIT ELSE 0]
    IN  [at |-> s, kind |-> "rebalance", n |-> 1, current |-> Blend(from, final, 1),
         final |-> final, from |-> from, roll |-> members[s]]
\* MUTANT of TrancheRow: one more step is added to the book as it stands.
TrancheRowAdded(s, n, base) ==
    LET now == CurrentOn(Before(s))
        book == [x \in Names |-> now[x] + (base.final[x] - base.from[x]) \div TRANCHES]
    IN  [at |-> s, kind |-> "tranche", n |-> n, current |-> Kept(book, now, members[s]),
         final |-> base.final, from |-> base.from, roll |-> members[s]]

TrancheRow(s, n, base) ==
    [at |-> s, kind |-> "tranche", n |-> n,
     current |-> Kept(Blend(base.from, base.final, n), CurrentOn(Before(s)), members[s]),
     final |-> base.final, from |-> base.from, roll |-> members[s]]

\* What invest_cards writes on session s: no row or one.
Step(s, ranking) ==
    {RebalanceRow(s, ranking) : d \in {d \in Due(s) : d.kind = "rebalance"}} \union
    {TrancheRow(s, p[1].n, targets[p[2]]) :
        p \in {d \in Due(s) : d.kind = "tranche"} \X Stored(MonthStart(s), "rebalance", 1)}

\* The book a step leaves, from the row that is stored if there is one.
Standing(row) ==
    LET old == Stored(row.at, row.kind, row.n)
    IN  IF old = {} THEN row.current ELSE targets[CHOOSE k \in old : TRUE].current

\* BUY cards of a step: the names it adds to, unless the builder rejects them.
InvestCards(row, rejected) ==
    {[sleeve |-> "invest", name |-> x, at |-> row.at] :
        x \in {x \in members[row.at] \ rejected : Standing(row)[x] > CurrentOn(Before(row.at))[x]}}
SwingCards(s, picks) == {[sleeve |-> "swing", name |-> x, at |-> s] : x \in picks \cap members[s]}

-----------------------------------------------------------------------------
(* The replay *)

Cal(d) == {s \in calendar : s <= d}
Next1(s, d) == {e \in Cal(d) : e > s /\ \A x \in Cal(d) : x > s => x >= e}

\* MUTANT of Traded: a decision trades at the close it was made on.
TradedAtOnce(s, e) == s <= e

\* The decisions of session s have traded by the close of e.
Traded(s, e) == s < e

\* build_signals: a row asks for every name in it, and for nothing of a name the
\* row before it had; the engine lets the last item of a name supersede the
\* others.  So the sleeve comes to hold the newest book that has traded.
InvestAt(x, e) == CurrentOn({s \in calendar : Traded(s, e)})[x]

\* The SWING cards of x that were taken: the name is flat when a card asks for it.
Between(s, e) == Cardinality({x \in calendar : s < x /\ x <= e})
Taken(x) ==
    LET f[s \in 0..Last] ==
            IF s = 0 THEN {}
            ELSE IF /\ [sleeve |-> "swing", name |-> x, at |-> s] \in cards
                    /\ \A t \in f[s - 1] : Between(t, s) > HOLD
                 THEN f[s - 1] \union {s} ELSE f[s - 1]
    IN  f[Last]
SwingAt(x, e) == IF \E s \in Taken(x) : Traded(s, e) /\ Between(s, e) <= HOLD THEN UNIT ELSE 0

HeldAt(sleeve, x, e) == IF sleeve = "swing" THEN SwingAt(x, e) ELSE InvestAt(x, e)

BookAt(e) ==
    {h \in {<<sleeve, x, HeldAt(sleeve, x, e)>> : sleeve \in Sleeves, x \in Names} : h[3] > 0}

\* positions_from_fills: from the first buy to the session nothing is left.
Opens(sleeve, x, e) ==
    HeldAt(sleeve, x, e) > 0 /\ (Cal(e - 1) = {} \/ HeldAt(sleeve, x, Max(Cal(e - 1))) = 0)
Closing(sleeve, x, e, d) ==
    LET flat == {q \in Cal(d) : q > e /\ HeldAt(sleeve, x, q) = 0}
    IN  IF flat = {} THEN None ELSE Min(flat)
PositionsUpTo(d) ==
    {[sleeve |-> p[1], name |-> p[2], opened |-> p[3], closed |-> Closing(p[1], p[2], p[3], d)] :
        p \in {p \in Sleeves \X Names \X Cal(d) : Opens(p[1], p[2], p[3])}}

\* The orders the engine logs, and the cards of the last session, still to place.
OrdersUpTo(d) ==
    {[sleeve |-> "swing", name |-> c.name, at |-> c.at, weight |-> UNIT, pending |-> FALSE] :
        c \in {c \in cards : c.sleeve = "swing" /\ c.at \in Cal(d - 1) /\ c.at \in Taken(c.name)}}
    \union
    {[sleeve |-> "invest", name |-> p[2], at |-> p[1], weight |-> CurrentOn(1..p[1])[p[2]],
      pending |-> FALSE] :
        p \in {p \in Cal(d - 1) \X Names : CurrentOn(1..p[1])[p[2]] # InvestAt(p[2], p[1])}}
    \union
    {[sleeve |-> c.sleeve, name |-> c.name, at |-> d, weight |-> UNIT, pending |-> TRUE] :
        c \in {c \in cards : c.at = d}}

\* A round trip carries the tag of the fill that opened the position: a card
\* that added to an open position never hears that it was sold.
StatusUpTo(c, d) ==
    IF c.at = d THEN "pending"
    ELSE LET e == Min({x \in Cal(d) : x > c.at})
             before == HeldAt(c.sleeve, c.name, c.at)
         IN  IF HeldAt(c.sleeve, c.name, e) <= before THEN "skipped"
             ELSE IF before = 0 /\ Closing(c.sleeve, c.name, e, d) # None THEN "closed"
             ELSE "holding"

-----------------------------------------------------------------------------
(* Initial states: `paper init` has fixed the first session *)

Idle == [pc |-> "idle", asof |-> 1, session |-> 0, ok |-> TRUE, issue |-> TRUE, drafts |-> {}]

Init ==
    /\ today = 1 /\ file \in Files /\ policy \in Policies
    /\ members = [s \in Sessions |-> file]
    /\ stored = [s \in Sessions |-> "none"]
    /\ calendar = {} /\ targets = <<>> /\ cards = {} /\ status = <<>> /\ flagged = {}
    /\ orders = {} /\ positions = {} /\ snaps = [s \in Sessions |-> None]
    /\ run = Idle /\ done = None /\ ran = 0 /\ faults = 0 /\ edits = 0

-----------------------------------------------------------------------------
(* The world *)

NextDay ==
    /\ run.pc = "idle" /\ today < Last
    /\ today' = today + 1
    /\ UNCHANGED <<file, policy, edits, data, decisions, marks, tables, run, done, ran, faults>>

EditFile ==
    /\ run.pc = "idle" /\ edits < EDITS
    /\ \E f \in Files \ {file} : file' = f
    /\ edits' = edits + 1
    /\ UNCHANGED <<today, policy, data, decisions, marks, tables, run, done, ran, faults>>

At(step) == run.pc = step
Fault == faults < FAULTS /\ faults' = faults + 1

Kill ==
    /\ ~At("idle") /\ Fault
    /\ run' = Idle /\ done' = None
    /\ UNCHANGED <<world, data, decisions, marks, tables, ran>>

-----------------------------------------------------------------------------
(* run_daily *)

\* The scheduler runs today's session; an operator catches up in order.
Start ==
    /\ At("idle")
    /\ \E d \in 1..today :
        /\ ran <= d
        /\ run' = [Idle EXCEPT !.pc = "universe", !.asof = d]
        /\ ran' = d
    /\ UNCHANGED <<world, data, decisions, marks, tables, done, faults>>

Go(step) == run' = [run EXCEPT !.pc = step]
\* run_step: an exception is an alert, and the next steps go on.
Failed(step) ==
    /\ Fault
    /\ run' = [run EXCEPT !.pc = step, !.ok = FALSE]

ApplyUniverse ==
    /\ At("universe") /\ Go("ingest")
    /\ members' = [s \in Sessions |-> IF s >= run.asof THEN file ELSE members[s]]
    /\ UNCHANGED <<world, stored, calendar, decisions, marks, tables, done, ran, faults>>

UniverseFails ==
    /\ At("universe") /\ Failed("ingest")
    /\ UNCHANGED <<world, data, decisions, marks, tables, done, ran>>

\* A success brings every session but the last in full.  The vendor may be late
\* with the last one, or its bars may have unexplained quality errors: neither
\* is a failed step.
Levels == [none |-> 0, thin |-> 1, full |-> 2]
Ingest ==
    /\ At("ingest")
    /\ \E level \in {"none", "thin", "full"}, clean \in BOOLEAN :
        /\ Levels[level] >= Levels[stored[run.asof]]
        /\ IF level = "full" /\ clean THEN UNCHANGED faults ELSE Fault
        /\ stored' = [s \in Sessions |-> IF s < run.asof THEN "full"
                                         ELSE IF s = run.asof THEN level ELSE stored[s]]
        /\ run' = [run EXCEPT !.pc = "calendar", !.issue = clean]
    /\ UNCHANGED <<world, members, calendar, decisions, marks, tables, done, ran>>

IngestFails ==
    /\ At("ingest") /\ Failed("calendar")
    /\ UNCHANGED <<world, data, decisions, marks, tables, done, ran>>

Trading == {s \in Sessions : stored[s] # "none"}

\* The run works on the last session of the calendar; without one it ends.
\* data_checks: with too few bars of that session no card is issued.  (Its stale
\* check compares the newest bar with that session, never with the day: there
\* is no state in which it fires.)
WorkOn(cal, ok) ==
    LET days == {s \in cal : s <= run.asof} IN
    IF days = {} THEN run' = Idle /\ done' = [ok |-> FALSE, session |-> 0]
    ELSE /\ run' = [run EXCEPT !.pc = "features", !.session = Max(days), !.ok = @ /\ ok,
                               !.issue = @ /\ stored[Max(days)] = "full"]
         /\ UNCHANGED done

SyncCalendar ==
    /\ At("calendar")
    /\ calendar' = Trading /\ WorkOn(Trading, TRUE)
    /\ UNCHANGED <<world, members, stored, decisions, marks, tables, ran, faults>>

CalendarFails ==
    /\ At("calendar") /\ Fault
    /\ WorkOn(calendar, FALSE)
    /\ UNCHANGED <<world, data, decisions, marks, tables, ran>>

Features ==
    /\ At("features") /\ Go("flags")
    /\ UNCHANGED <<world, data, decisions, marks, tables, done, ran, faults>>

\* Without the features the run has nothing to decide on.
FeaturesFail ==
    /\ At("features") /\ Fault
    /\ run' = Idle
    /\ done' = [ok |-> FALSE, session |-> run.session]
    /\ UNCHANGED <<world, data, decisions, marks, tables, ran>>

Open == {c \in cards : status[c] \in {"pending", "holding"}}
Outside(s) == {c \in Open : c.name \notin members[s]}

\* Open cards of a name that left carry the flag, the others lose it.
Flagged(s) == (flagged \ Open) \union Outside(s)

\* close_now: an exit row takes the names that left out of the book.
ExitRow(s) ==
    [at |-> s, kind |-> "exit", n |-> 1, final |-> None, from |-> None, roll |-> members[s],
     current |-> [x \in Names |-> IF x \in members[s] THEN CurrentOn(1..s)[x] ELSE 0]]
ExitDue(s) == policy = "close_now" /\ \E x \in Names \ members[s] : CurrentOn(1..s)[x] > 0

AfterFlags == IF run.issue THEN "cards" ELSE "orders"
Flags ==
    /\ At("flags") /\ Go(AfterFlags)
    /\ flagged' = Flagged(run.session)
    /\ targets' = IF ExitDue(run.session) THEN Saved(ExitRow(run.session)) ELSE targets
    /\ UNCHANGED <<world, data, cards, status, tables, done, ran, faults>>

\* Each flag is a transaction of its own; the exit row comes after all of them.
FlagsFail ==
    /\ At("flags") /\ Failed(AfterFlags)
    /\ \E some \in SUBSET Open :
        flagged' = (flagged \ some) \union (Outside(run.session) \intersect some)
    /\ UNCHANGED <<world, data, decisions, status, tables, done, ran>>

\* step_cards: the INVEST step writes its row before any card exists.  The cards
\* are of the book that is stored, whatever the models say today.
Decide ==
    /\ At("cards")
    /\ \E ranking \in Rankings, picks \in SwingPicks, rejected \in SUBSET Names :
        LET rows == Step(run.session, ranking) IN
        /\ IF rejected = {} THEN UNCHANGED faults ELSE rows # {} /\ Fault
        /\ targets' = IF rows = {} THEN targets ELSE Saved(CHOOSE row \in rows : TRUE)
        /\ run' = [run EXCEPT !.pc = "store",
                     !.drafts = (UNION {InvestCards(row, rejected) : row \in rows})
                                \union SwingCards(run.session, picks)]
    /\ UNCHANGED <<world, data, cards, marks, tables, done, ran>>

\* A failure after the row is written leaves a row without its cards.
DecideFails ==
    /\ At("cards") /\ Failed("orders")
    /\ \/ UNCHANGED targets
       \/ \E ranking \in Rankings : \E row \in Step(run.session, ranking) : targets' = Saved(row)
    /\ UNCHANGED <<world, data, cards, marks, tables, done, ran>>

\* save_live_cards: a card that is stored stays exactly as it was issued.
Store ==
    /\ At("store")
    /\ cards' = cards \union run.drafts
    /\ status' = [c \in cards' |-> IF c \in cards THEN status[c] ELSE "pending"]
    /\ run' = [run EXCEPT !.pc = "orders", !.drafts = {}]
    /\ UNCHANGED <<world, data, targets, flagged, tables, done, ran, faults>>

StoreFails ==
    /\ At("store") /\ Fault
    /\ run' = [run EXCEPT !.pc = "orders", !.drafts = {}, !.ok = FALSE]
    /\ UNCHANGED <<world, data, decisions, marks, tables, done, ran>>

-----------------------------------------------------------------------------
(* step_state: the replay, then four transactions.  Nothing the replay reads   *)
(* changes between them.  One that fails ends the step.                        *)

\* MUTANT of Merged: what the replay no longer produces stays.
MergedOnly(old, new) == old \union new

\* Rows the replay no longer produces are deleted.
Merged(old, new) == new

SyncOrders ==
    /\ At("orders") /\ Go("positions")
    /\ orders' = Merged(orders, OrdersUpTo(run.session))
    /\ UNCHANGED <<world, data, decisions, marks, positions, snaps, done, ran, faults>>

SyncPositions ==
    /\ At("positions") /\ Go("snapshots")
    /\ positions' = Merged(positions, PositionsUpTo(run.session))
    /\ UNCHANGED <<world, data, decisions, marks, orders, snaps, done, ran, faults>>

\* Every session of the replay is written again.
SyncSnapshots ==
    /\ At("snapshots") /\ Go("recommendations")
    /\ snaps' = [e \in Sessions |-> IF e \in Cal(run.session) THEN BookAt(e) ELSE snaps[e]]
    /\ UNCHANGED <<world, data, decisions, marks, orders, positions, done, ran, faults>>

SyncRecommendations ==
    /\ At("recommendations") /\ Go("finish")
    /\ status' = [c \in cards |-> IF c.at <= run.session THEN StatusUpTo(c, run.session) ELSE status[c]]
    /\ UNCHANGED <<world, data, decisions, flagged, tables, done, ran, faults>>

StateFails ==
    /\ run.pc \in {"orders", "positions", "snapshots", "recommendations"}
    /\ Failed("finish")
    /\ UNCHANGED <<world, data, decisions, marks, tables, done, ran>>

Finish ==
    /\ At("finish")
    /\ run' = Idle
    /\ done' = [ok |-> run.ok, session |-> run.session]
    /\ UNCHANGED <<world, data, decisions, marks, tables, ran, faults>>

Daily ==
    \/ Start \/ ApplyUniverse \/ Ingest \/ SyncCalendar \/ Features \/ Flags \/ Decide \/ Store
    \/ SyncOrders \/ SyncPositions \/ SyncSnapshots \/ SyncRecommendations \/ Finish
Fails ==
    \/ UniverseFails \/ IngestFails \/ CalendarFails \/ FeaturesFail \/ FlagsFail \/ DecideFails
    \/ StoreFails \/ StateFails \/ Kill
Next == NextDay \/ EditFile \/ Daily \/ Fails

Spec == Init /\ [][Next]_vars

-----------------------------------------------------------------------------
(* Properties *)

\* The session after the last tranche of a rebalance, the record holds every
\* member at the weight the rebalance decided, whatever steps between the two
\* were lost or repeated; only an exit decided later that day takes precedence.
BookReachesTarget ==
    At("idle") /\ done # None /\ done.ok =>
        \A k \in DOMAIN targets :
            /\ targets[k].kind = "tranche" /\ targets[k].n = TRANCHES
            /\ ~\E m \in DOMAIN targets : m > k /\ targets[m].at = targets[k].at
            => \A e \in Next1(targets[k].at, done.session), x \in targets[k].roll :
                   {w \in 1..UNIT : <<"invest", x, w>> \in snaps[e]} = {targets[k].final[x]} \ {0}

\* A name that has left the universe never grows in the book, until it returns.
NeverToppedUp ==
    \A k \in DOMAIN targets, x \in Names :
        policy = "next_rebalance" /\ x \notin targets[k].roll =>
            targets[k].current[x] <= Prev(k)[x]

\* After a run that reports success every table is the replay of the decisions
\* up to its session: nothing an earlier failed or killed run wrote survives.
TablesEqualReplay ==
    At("idle") /\ done # None /\ done.ok =>
        /\ orders = OrdersUpTo(done.session)
        /\ positions = PositionsUpTo(done.session)
        /\ \A e \in Sessions : snaps[e] = IF e \in Cal(done.session) THEN BookAt(e) ELSE None
        /\ \A c \in cards : c.at <= done.session /\ status[c] = StatusUpTo(c, done.session)

\* The record of a past session is never rewritten: later decisions, edits,
\* failures and repeated runs leave the book of a session as it was stored.
PastStands == [][\A e \in Sessions : snaps[e] # None => snaps'[e] = snaps[e]]_vars

\* After a run that reports success an open card carries the flag exactly when
\* its name was no member on the session of the run.
FlagsTell ==
    At("idle") /\ done # None /\ done.ok =>
        \A c \in Open : c \in flagged <=> c.name \notin members[done.session]

\* What the operator's guide says of a name that left the universe: the next
\* rebalance sells it like any dropped name.
SoldAtTheRebalance ==
    \A j, k \in DOMAIN targets, x \in Names :
        /\ targets[j].kind = "rebalance" /\ x \notin targets[j].roll
        /\ targets[k].kind = "tranche" /\ targets[k].n = TRANCHES /\ x \notin targets[k].roll
        /\ Month[targets[j].at] = Month[targets[k].at]
        => targets[k].current[x] = 0

\* Through lost, failed and repeated runs a rebalance ends where it was decided,
\* and a name that left the universe does not grow on the way.
BookFollowsTheTargets == BookReachesTarget /\ NeverToppedUp

\* After a run that reports success the tables are the replay of the decisions and
\* the flags of the open cards tell who left.
TablesTellTheDecisions == TypeOK /\ TablesEqualReplay /\ FlagsTell
=============================================================================
