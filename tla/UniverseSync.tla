---------------------------- MODULE UniverseSync ----------------------------
(***************************************************************************)
(* Point-in-time identities and memberships: instrument life-cycle events  *)
(* (instruments.py), the snapshot job (universe_sync.py) and the lookups   *)
(* they share (db/repo.py, universe.py).                                   *)
(*                                                                         *)
(* Three tables of half-open intervals [from, to) and a change log.  A     *)
(* snapshot file is a sequence of rows applied in one transaction; a row   *)
(* goes through four stages (who is it, where is it listed, may it trade,  *)
(* is it a member), each an action, and any exception rolls the whole file *)
(* back.  One transaction runs at a time: the job is single-flight.  The   *)
(* `instrument` commands change the same tables without a snapshot.        *)
(***************************************************************************)
EXTENDS Naturals, Sequences, FiniteSets

CONSTANTS
    Universes,
    Tickers,
    Exchanges,
    Weights,
    Files,        \* snapshot files: sequences of rows
    None,         \* an empty column
    Forever,      \* valid_to IS NULL
    Floor,        \* history_floor: when an instrument of unknown age begins
    MaxDate,      \* bound of the checked instances: last effective date
    MaxInst,      \* bound of the checked instances: instruments
    Commands      \* the `instrument` commands used: rename, exchange, status

Dates == Floor..MaxDate
Instruments == 1..MaxInst
STATUSES == {"active", "suspended", "delisted"}

Row == [symbol: Tickers, prev: Tickers \union {None}, exchange: Exchanges \union {None},
        weight: Weights \union {None}, status: STATUSES, from: Nat \union {None}]

ASSUME SnapshotAssumption ==
    /\ Files \subseteq Seq(Row)
    /\ \A f \in Files : f # <<>> /\ \A i, j \in 1..Len(f) :
           /\ f[i].symbol = f[j].symbol => i = j
           /\ f[i].prev # f[i].symbol
    /\ Floor \in Nat /\ MaxDate \in Nat /\ MaxInst \in Nat \ {0}
    /\ None \notin Tickers \union Exchanges \union Weights \union Nat
    /\ Forever \notin Nat
    /\ Commands \subseteq {"rename", "exchange", "status"}

VARIABLES
    symbols,     \* instrument_symbol_history
    statuses,    \* instrument_status_history
    members,     \* universe_membership
    changes,     \* universe_change_log
    txn,         \* the transaction of apply_snapshot
    request      \* history: the snapshot that nothing has followed yet

tables == <<symbols, statuses, members, changes>>
vars == <<tables, txn, request>>

-----------------------------------------------------------------------------
(* Types *)

SymbolRow == [inst: Instruments, symbol: Tickers, exchange: Exchanges \union {None},
              from: Nat, to: Nat \union {Forever}]
StatusRow == [inst: Instruments, status: {"suspended", "delisted"},
              from: Nat, to: Nat \union {Forever}]
Membership == [universe: Universes, inst: Instruments, weight: Weights \union {None},
               from: Nat, to: Nat \union {Forever}]
Actions == {"rename", "exchange_set", "exchange_change", "delist", "suspend",
            "resume", "add", "remove", "weight_change"}
Change == [universe: Universes, inst: Instruments, action: Actions, at: Nat, since: Nat]

Stages == {"resolve", "exchange", "status", "member"}
Saved == [symbols: SUBSET SymbolRow, statuses: SUBSET StatusRow,
          members: SUBSET Membership, changes: SUBSET Change]

\* inst and isNew: the instrument of the row at hand.  open: the open rows read
\* at the start.  empty: nothing was ever recorded of the universe.
Txn == [stage: Stages, universe: Universes, file: Seq(Row), n: Nat \ {0}, eff: Nat,
        inst: Instruments, isNew: BOOLEAN, empty: BOOLEAN, saved: Saved,
        open: SUBSET [inst: Instruments, from: Nat], handled: SUBSET Instruments]

ASSUME NoTransaction == None \notin Txn

TypeOK ==
    /\ symbols \subseteq SymbolRow /\ statuses \subseteq StatusRow
    /\ members \subseteq Membership /\ changes \subseteq Change
    /\ txn \in Txn \union {None}
    /\ request \in [universe: Universes, file: Seq(Row), eff: Nat] \union {None}

-----------------------------------------------------------------------------
(* Lookups *)

Valid(r, d) == r.from <= d /\ (r.to = Forever \/ d < r.to)

\* order_by(valid_from.desc()).limit(1): any of the latest.
Newest(rows) == {r \in rows : \A s \in rows : s.from <= r.from}

\* find_symbol_row, open_symbol_row
OfTicker(t) == {r \in symbols : r.symbol = t}
TickerOn(t, d) == {r \in OfTicker(t) : Valid(r, d)}
SymbolOn(i, d) == {r \in symbols : r.inst = i /\ Valid(r, d)}
OpenSymbol(i) == {r \in symbols : r.inst = i /\ r.to = Forever}

\* status_at takes any row that covers the date, "active" without one.
StatusOn(i, d) ==
    LET rows == {r \in statuses : r.inst = i /\ Valid(r, d)}
    IN IF rows = {} THEN {"active"} ELSE {r.status : r \in rows}
OpenStatus(i) == {r \in statuses : r.inst = i /\ r.to = Forever}

\* get_member_records: members on a date that have a ticker on it.
MembersOn(u, d) ==
    {i \in Instruments : /\ \E m \in members : m.universe = u /\ m.inst = i /\ Valid(m, d)
                         /\ SymbolOn(i, d) # {}}
TradableOn(u, d) == {i \in MembersOn(u, d) : StatusOn(i, d) = {"active"}}

\* latest_symbol_row: the newest ticker up to a date, even one that has ended.
TickersUpTo(i, d) == Newest({r \in symbols : r.inst = i /\ r.from <= d})

\* get_instruments_between: the members of any day of a range, each under its
\* ticker at the end of the range or, failing that, its last one.
InstrumentsBetween(u, from, to) ==
    {m.inst : m \in {x \in members : x.universe = u /\ x.from <= to /\ (x.to = Forever \/ x.to > from)}}
Label(i, to) ==
    {r.symbol : r \in IF TickersUpTo(i, to) # {} THEN TickersUpTo(i, to)
                      ELSE Newest({s \in symbols : s.inst = i})}

Used == {r.inst : r \in symbols}
Fresh == {i \in Instruments : i \notin Used /\ \A j \in Instruments : j < i => j \in Used}

Ended(r, d) == [r EXCEPT !.to = d]

\* A new row breaks the table's unique key.
Taken(rows, i, d) == \E r \in rows : r.inst = i /\ r.from = d

-----------------------------------------------------------------------------
(* instruments.py: what each event does, and when it raises instead *)

\* rename_symbol
RenamesAnyway(r, new, d) == r.to = Forever /\ r.from < d               \* mutant
Renames(r, new, d) ==
    /\ r.to = Forever /\ r.from < d
    /\ \A s \in OfTicker(new) : s.inst = r.inst \/ (s.to # Forever /\ s.to <= d)
Rename(r, new, ex, d) ==
    symbols' = (symbols \ {r}) \union
        {Ended(r, d), [inst |-> r.inst, symbol |-> new, from |-> d, to |-> Forever,
                       exchange |-> IF ex = None THEN r.exchange ELSE ex]}

\* change_exchange
SetsExchange(r) == r.to = Forever /\ r.exchange = None
MovesExchange(r, ex, d) == r.to = Forever /\ r.exchange \notin {None, ex} /\ r.from < d
KeepsExchange(r, ex) == r.to = Forever /\ r.exchange = ex
SetExchange(r, ex) == symbols' = (symbols \ {r}) \union {[r EXCEPT !.exchange = ex]}
MoveExchange(r, ex, d) ==
    symbols' = (symbols \ {r}) \union
        {Ended(r, d), [r EXCEPT !.exchange = ex, !.from = d]}

\* set_status: it returns False and changes nothing ...
NoNews(i, want) ==
    \/ want = "active" /\ OpenStatus(i) = {}
    \/ want = "suspended" /\ \E r \in OpenStatus(i) : r.status = "suspended"
    \/ want = "delisted" /\ \E r \in OpenStatus(i) : r.status = "delisted"

\* ... or ends the suspension,
Resumes(i, d) == \E r \in OpenStatus(i) : r.status = "suspended" /\ r.from < d
ResumeErases(i, d) == statuses' = statuses \ OpenStatus(i)             \* mutant
Resume(i, d) == statuses' = (statuses \ OpenStatus(i)) \union {Ended(r, d) : r \in OpenStatus(i)}

\* ... or opens one, without a look at the closed rows,
Suspends(i, d) == OpenStatus(i) = {} /\ ~Taken(statuses, i, d)
Suspend(i, d) ==
    statuses' = statuses \union {[inst |-> i, status |-> "suspended", from |-> d, to |-> Forever]}

\* ... or delists: a suspension that began that day becomes the delisting, an
\* earlier one ends, and the open ticker is closed.
Delists(i, d) ==
    /\ \A r \in OpenStatus(i) : r.status = "suspended" /\ r.from <= d
    /\ \A r \in statuses : r.inst = i /\ r.from = d => r \in OpenStatus(i)
    /\ \A r \in OpenSymbol(i) : r.from < d
LeaveOpen(i, d) == {s \in OpenStatus(i) : s.from < d}                 \* mutant
EndSuspension(i, d) == {Ended(r, d) : r \in {s \in OpenStatus(i) : s.from < d}}
DelistOnly(i, d) ==                                                   \* mutant
    /\ statuses' = (statuses \ OpenStatus(i)) \union EndSuspension(i, d) \union
                       {[inst |-> i, status |-> "delisted", from |-> d, to |-> Forever]}
    /\ symbols' = symbols
Delist(i, d) ==
    /\ statuses' = (statuses \ OpenStatus(i)) \union EndSuspension(i, d) \union
                       {[inst |-> i, status |-> "delisted", from |-> d, to |-> Forever]}
    /\ symbols' = (symbols \ OpenSymbol(i)) \union {Ended(r, d) : r \in OpenSymbol(i)}

-----------------------------------------------------------------------------
(* The `instrument` commands: one event, one transaction *)

Named(t, d) == IF TickerOn(t, d) # {} THEN Newest(TickerOn(t, d)) ELSE Newest(OfTicker(t))

Command(c) == c \in Commands /\ txn = None /\ request' = None /\ UNCHANGED <<txn, members, changes>>

InstrumentRename(old, new, d) ==
    /\ Command("rename")
    /\ \E r \in Newest(TickerOn(old, d)) : Renames(r, new, d) /\ Rename(r, new, None, d)
    /\ UNCHANGED statuses

InstrumentExchange(t, ex, d) ==
    /\ Command("exchange")
    /\ \E r \in Named(t, d) : \E s \in Newest(SymbolOn(r.inst, d)) :
           \/ SetsExchange(s) /\ SetExchange(s, ex)
           \/ MovesExchange(s, ex, d) /\ MoveExchange(s, ex, d)
    /\ UNCHANGED statuses

InstrumentStatus(t, want, d) ==
    /\ Command("status")
    /\ \E r \in Named(t, d) :
        /\ ~NoNews(r.inst, want)
        /\ \/ want = "active" /\ Resumes(r.inst, d) /\ Resume(r.inst, d) /\ UNCHANGED symbols
           \/ want = "suspended" /\ Suspends(r.inst, d) /\ Suspend(r.inst, d) /\ UNCHANGED symbols
           \/ want = "delisted" /\ Delists(r.inst, d) /\ Delist(r.inst, d)

-----------------------------------------------------------------------------
(* apply_snapshot: the start *)

\* _latest_event
Events(u) == {m.from : m \in {x \in members : x.universe = u}}
      \union ({m.to : m \in {x \in members : x.universe = u}} \ {Forever})
      \union {c.at : c \in {x \in changes : x.universe = u}}

AnyOrder(u, eff) == TRUE                                              \* mutant
InOrder(u, eff) == \A e \in Events(u) : e <= eff

Begin(u, f, eff) ==
    /\ txn = None /\ InOrder(u, eff)
    /\ txn' = [stage |-> "resolve", universe |-> u, file |-> f, n |-> 1, eff |-> eff,
               inst |-> 1, isNew |-> FALSE, empty |-> Events(u) = {}, handled |-> {},
               open |-> {[inst |-> m.inst, from |-> m.from] :
                            m \in {x \in members : x.universe = u /\ x.to = Forever}},
               saved |-> [symbols |-> symbols, statuses |-> statuses,
                          members |-> members, changes |-> changes]]
    /\ UNCHANGED <<tables, request>>

-----------------------------------------------------------------------------
(* apply_snapshot: one row, four stages *)

At(stage) == txn # None /\ txn.n <= Len(txn.file) /\ txn.stage = stage
Line == txn.file[txn.n]

\* emit; since: the valid_from an addition records.
Entry(i, action, d) == [universe |-> txn.universe, inst |-> i, action |-> action,
                        at |-> txn.eff, since |-> d]
Log(i, action) == changes' = changes \union {Entry(i, action, txn.eff)}

\* _resolve_instrument: a rename that was already applied on this very date,
Current == Newest(TickerOn(Line.symbol, txn.eff))
AlreadyRenamed ==
    /\ Line.prev # None
    /\ \E c \in Current, s \in symbols :
           s.inst = c.inst /\ s.symbol = Line.prev /\ s.to = txn.eff
\* a rename to apply,
CanRename ==
    /\ Line.prev # None /\ ~AlreadyRenamed
    /\ \E r \in Newest(TickerOn(Line.prev, txn.eff)) : Renames(r, Line.symbol, txn.eff)
\* a ticker in use, one that ended and is delisted again, one never seen.
IsListed == Line.prev = None /\ TickerOn(Line.symbol, txn.eff) # {}
WasListed == /\ Line.prev = None /\ TickerOn(Line.symbol, txn.eff) = {}
             /\ OfTicker(Line.symbol) # {} /\ Line.status = "delisted"
IsUnknown == Line.prev = None /\ OfTicker(Line.symbol) = {}

\* The first day of an instrument the system meets for the first time.
FirstDay == Floor

Is(i, isNew) == txn' = [txn EXCEPT !.stage = "exchange", !.inst = i, !.isNew = isNew,
                                   !.handled = @ \union {i}]

Resolve ==
    /\ At("resolve")
    /\ \/ /\ IsListed \/ AlreadyRenamed
          /\ \E c \in Current : Is(c.inst, FALSE)
          /\ UNCHANGED <<symbols, changes>>
       \/ /\ WasListed
          /\ \E r \in Newest(OfTicker(Line.symbol)) : Is(r.inst, FALSE)
          /\ UNCHANGED <<symbols, changes>>
       \/ /\ CanRename
          /\ \E r \in Newest(TickerOn(Line.prev, txn.eff)) :
             /\ Renames(r, Line.symbol, txn.eff)
             /\ Rename(r, Line.symbol, Line.exchange, txn.eff)
             /\ Log(r.inst, "rename") /\ Is(r.inst, FALSE)
       \/ /\ IsUnknown
          /\ \E i \in Fresh :
             /\ symbols' = symbols \union {[inst |-> i, symbol |-> Line.symbol, from |-> FirstDay,
                                            to |-> Forever, exchange |-> Line.exchange]}
             /\ Is(i, TRUE)
          /\ UNCHANGED changes
    /\ UNCHANGED <<statuses, members, request>>
ResolveFails == ~(IsListed \/ AlreadyRenamed \/ WasListed \/ CanRename \/ IsUnknown)

\* change_exchange, for a row with an exchange of an instrument that has a ticker.
Listing == Newest(SymbolOn(txn.inst, txn.eff))
NamesExchange == Line.exchange # None /\ ~txn.isNew /\ Listing # {}

Exchange ==
    /\ At("exchange")
    /\ txn' = [txn EXCEPT !.stage = "status"]
    /\ \/ /\ NamesExchange => \E r \in Listing : KeepsExchange(r, Line.exchange)
          /\ UNCHANGED <<symbols, changes>>
       \/ /\ NamesExchange
          /\ \E r \in Listing : SetsExchange(r) /\ SetExchange(r, Line.exchange)
          /\ Log(txn.inst, "exchange_set")
       \/ /\ NamesExchange
          /\ \E r \in Listing : /\ MovesExchange(r, Line.exchange, txn.eff)
                                /\ MoveExchange(r, Line.exchange, txn.eff)
          /\ Log(txn.inst, "exchange_change")
    /\ UNCHANGED <<statuses, members, request>>
ExchangeFails ==
    /\ NamesExchange
    /\ \A r \in Listing : ~ \/ KeepsExchange(r, Line.exchange) \/ SetsExchange(r)
                            \/ MovesExchange(r, Line.exchange, txn.eff)

\* A row listed as active resumes what is suspended on the date; a resume is
\* logged even when set_status finds no open suspension to end.
Status ==
    /\ At("status")
    /\ txn' = [txn EXCEPT !.stage = "member"]
    /\ \/ /\ Line.status # "active" /\ NoNews(txn.inst, Line.status)
          /\ UNCHANGED <<symbols, statuses, changes>>
       \/ /\ Line.status = "delisted" /\ ~NoNews(txn.inst, "delisted")
          /\ Delists(txn.inst, txn.eff) /\ Delist(txn.inst, txn.eff) /\ Log(txn.inst, "delist")
       \/ /\ Line.status = "suspended" /\ Suspends(txn.inst, txn.eff)
          /\ Suspend(txn.inst, txn.eff) /\ Log(txn.inst, "suspend") /\ UNCHANGED symbols
       \/ /\ Line.status = "active" /\ "active" \in StatusOn(txn.inst, txn.eff)
          /\ UNCHANGED <<symbols, statuses, changes>>
       \/ /\ Line.status = "active" /\ "suspended" \in StatusOn(txn.inst, txn.eff)
          /\ \/ Resumes(txn.inst, txn.eff) /\ Resume(txn.inst, txn.eff)
             \/ NoNews(txn.inst, "active") /\ UNCHANGED statuses
          /\ Log(txn.inst, "resume") /\ UNCHANGED symbols
    /\ UNCHANGED <<members, request>>
StatusFails ==
    \/ /\ Line.status = "delisted"
       /\ ~NoNews(txn.inst, "delisted") /\ ~Delists(txn.inst, txn.eff)
    \/ /\ Line.status = "suspended"
       /\ ~NoNews(txn.inst, "suspended") /\ ~Suspends(txn.inst, txn.eff)
    \/ Line.status = "active" /\ "delisted" \in StatusOn(txn.inst, txn.eff)
    \/ /\ Line.status = "active" /\ "suspended" \in StatusOn(txn.inst, txn.eff)
       /\ ~Resumes(txn.inst, txn.eff) /\ ~NoNews(txn.inst, "active")

-----------------------------------------------------------------------------
(* apply_snapshot: the membership, and the end *)

\* The rows of open_rows for some instruments, as they are now.
Members(keys) == {m \in members : /\ m.universe = txn.universe
                                  /\ \E k \in keys : k.inst = m.inst /\ k.from = m.from}
Mine == Members({k \in txn.open : k.inst = txn.inst})
JoinsOn == IF Line.from = None THEN txn.eff ELSE Line.from
CanJoin(d) == \A m \in members : ~(m.universe = txn.universe /\ m.inst = txn.inst /\ m.from = d)
Closable(rows) == \A m \in rows : m.from < txn.eff
Closed(rows) == {Ended(m, txn.eff) : m \in rows}
Joined(d) == [universe |-> txn.universe, inst |-> txn.inst, weight |-> Line.weight,
              from |-> d, to |-> Forever]
SameWeight == \A m \in Mine : m.weight = Line.weight

\* The weight changes in place on the day the row began, else the row is rolled.
InPlace == Mine # {} /\ ~SameWeight /\ \A m \in Mine : m.from = txn.eff
Rolls == Mine # {} /\ ~SameWeight /\ Closable(Mine) /\ CanJoin(txn.eff)

NextLine(gone) == txn' = [txn EXCEPT !.stage = "resolve", !.n = @ + 1,
                                     !.open = {k \in @ : k.inst \notin gone}]

AlwaysBackfills == JoinsOn <= txn.eff                                 \* mutant
Backfillable == txn.empty /\ JoinsOn <= txn.eff
Joins == JoinsOn = txn.eff \/ Backfillable

Member ==
    /\ At("member")
    /\ \/ /\ Line.status = "delisted" /\ Mine = {}
          /\ NextLine({}) /\ UNCHANGED <<members, changes>>
       \/ /\ Line.status = "delisted" /\ Mine # {} /\ Closable(Mine)
          /\ members' = (members \ Mine) \union Closed(Mine)
          /\ Log(txn.inst, "remove") /\ NextLine({txn.inst})
       \/ /\ Line.status # "delisted" /\ Mine = {} /\ Joins /\ CanJoin(JoinsOn)
          /\ members' = members \union {Joined(JoinsOn)}
          /\ changes' = changes \union {Entry(txn.inst, "add", JoinsOn)} /\ NextLine({})
       \/ /\ Line.status # "delisted" /\ Mine # {} /\ SameWeight
          /\ NextLine({}) /\ UNCHANGED <<members, changes>>
       \/ /\ Line.status # "delisted" /\ InPlace
          /\ members' = (members \ Mine) \union {[m EXCEPT !.weight = Line.weight] : m \in Mine}
          /\ Log(txn.inst, "weight_change") /\ NextLine({})
       \/ /\ Line.status # "delisted" /\ Rolls
          /\ members' = (members \ Mine) \union Closed(Mine) \union {Joined(txn.eff)}
          /\ Log(txn.inst, "weight_change") /\ NextLine({})
    /\ UNCHANGED <<symbols, statuses, request>>
MemberFails ==
    \/ Line.status = "delisted" /\ ~Closable(Mine)
    \/ Line.status # "delisted" /\ Mine = {} /\ ~(Joins /\ CanJoin(JoinsOn))
    \/ Line.status # "delisted" /\ Mine # {} /\ ~SameWeight /\ ~InPlace /\ ~Rolls

\* After the last row: who is absent from the file leaves, and the caller commits.
AtEnd == txn # None /\ txn.n > Len(txn.file)
NoneGone == {}                                                        \* mutant
Gone == {k \in txn.open : k.inst \notin txn.handled}
Absent == Members(Gone)
Commit ==
    /\ AtEnd /\ Closable(Absent)
    /\ members' = (members \ Absent) \union Closed(Absent)
    /\ changes' = changes \union {Entry(m.inst, "remove", txn.eff) : m \in Absent}
    /\ txn' = None
    /\ request' = [universe |-> txn.universe, file |-> txn.file, eff |-> txn.eff]
    /\ UNCHANGED <<symbols, statuses>>

\* Any exception: the transaction rolls back.
Fails ==
    \/ At("resolve") /\ ResolveFails
    \/ At("exchange") /\ ExchangeFails
    \/ At("status") /\ StatusFails
    \/ At("member") /\ MemberFails
    \/ AtEnd /\ ~Closable(Absent)
Abort ==
    /\ Fails
    /\ symbols' = txn.saved.symbols /\ statuses' = txn.saved.statuses
    /\ members' = txn.saved.members /\ changes' = txn.saved.changes
    /\ txn' = None /\ UNCHANGED request

-----------------------------------------------------------------------------
(* The specification *)

Init ==
    /\ symbols = {} /\ statuses = {} /\ members = {} /\ changes = {}
    /\ txn = None /\ request = None

Next ==
    \/ \E u \in Universes, f \in Files, d \in Dates : Begin(u, f, d)
    \/ Resolve \/ Exchange \/ Status \/ Member \/ Commit \/ Abort
    \/ \E old, new \in Tickers, d \in Dates : InstrumentRename(old, new, d)
    \/ \E t \in Tickers, ex \in Exchanges, d \in Dates : InstrumentExchange(t, ex, d)
    \/ \E t \in Tickers, want \in STATUSES, d \in Dates : InstrumentStatus(t, want, d)

Spec == Init /\ [][Next]_vars

-----------------------------------------------------------------------------
(* universe.py: the structural checks that the database cannot enforce *)

\* _overlaps: the rows sorted by start, each compared with the next.
NextAfter(rows, r, s) ==
    /\ r # s /\ r.from <= s.from
    /\ \A t \in rows \ {r, s} : t.from <= r.from \/ s.from <= t.from
Overlaps(rows) ==
    \E r, s \in rows : NextAfter(rows, r, s) /\ (r.to = Forever \/ s.from < r.to)

check_integrity ==
    UNION {{<<"symbol history", i>> : i \in {x \in Instruments : Overlaps({r \in symbols : r.inst = x})}},
           {<<"two instruments", t>> : t \in {x \in Tickers : Overlaps(OfTicker(x))}},
           {<<"status history", i>> : i \in {x \in Instruments : Overlaps({r \in statuses : r.inst = x})}},
           {<<"membership", m.inst>> : m \in {x \in members :
                Overlaps({y \in members : y.universe = x.universe /\ y.inst = x.inst})}},
           {<<"no ticker", m.inst>> : m \in {x \in members : SymbolOn(x.inst, x.from) = {}}}}

-----------------------------------------------------------------------------
(* Safety *)

Overlap(r, s) == /\ r # s
                 /\ s.to = Forever \/ r.from < s.to
                 /\ r.to = Forever \/ s.from < r.to

\* check_integrity: an instrument has one ticker on any date.
SymbolsAreDisjoint == \A r, s \in symbols : r.inst = s.inst => ~Overlap(r, s)

\* check_integrity: a ticker names one instrument on any date, through renames,
\* swaps and delistings.
TickersAreUnique == \A r, s \in symbols : r.symbol = s.symbol => ~Overlap(r, s)

\* check_integrity: an instrument is once a member of a universe on any date, and
\* has one status (instruments.py: any past date can be answered point-in-time).
PeriodsAreDisjoint ==
    /\ \A r, s \in members : r.universe = s.universe /\ r.inst = s.inst => ~Overlap(r, s)
    /\ \A r, s \in statuses : r.inst = s.inst => ~Overlap(r, s)

\* Once a snapshot has committed, an instrument has a ticker on each day of its
\* memberships (check_integrity looks at the first day of each).
MembersHaveATicker ==
    txn = None => \A m \in members : \A d \in Dates : Valid(m, d) => SymbolOn(m.inst, d) # {}

\* Delisting is terminal and closes the ticker: from that date on the instrument
\* has none, and so is no universe's member.
DelistedHasNoTicker ==
    \A r \in statuses : r.status = "delisted" =>
        \A s \in symbols : s.inst = r.inst => s.to # Forever /\ s.to <= r.from

\* The snapshot describes the members wanted on the effective date: right after
\* the commit they are the tickers of the file that are not delisted, and those
\* that may trade are the ones it lists as active.
TickersOf(is, d) == {r.symbol : r \in {x \in symbols : x.inst \in is /\ Valid(x, d)}}
Listed(f, want) == {f[k].symbol : k \in {n \in 1..Len(f) : f[n].status \in want}}
SnapshotIsApplied ==
    txn = None /\ request # None =>
        /\ TickersOf(MembersOn(request.universe, request.eff), request.eff)
             = Listed(request.file, {"active", "suspended"})
        /\ TickersOf(TradableOn(request.universe, request.eff), request.eff)
             = Listed(request.file, {"active"})

\* Every change is in the change log: an instrument is a member today exactly when
\* the log's latest word on it is "add".
Dated(u, i, action) == {c.since : c \in {x \in changes : x.universe = u /\ x.inst = i /\ x.action = action}}
AuditTrail ==
    txn = None =>
        \A u \in Universes, i \in Instruments :
            (\E m \in members : m.universe = u /\ m.inst = i /\ m.to = Forever)
                <=> \E a \in Dated(u, i, "add") : \A r \in Dated(u, i, "remove") : r <= a

\* Applying the same file again changes nothing, on the same date.
Now == [symbols |-> symbols, statuses |-> statuses, members |-> members, changes |-> changes]
Again(dates) == /\ txn # None /\ request # None
                /\ txn.universe = request.universe /\ txn.file = request.file
                /\ txn.eff \in dates
Repeatable == (request # None /\ Again({request.eff})) => ~Fails /\ Now = txn.saved

\* History is not rewritten: a snapshot of a universe that has a history changes
\* nothing about the dates before its effective date, neither members, nor tickers,
\* nor what may trade.
Same(i, d) == /\ {r.symbol : r \in SymbolOn(i, d)}' = {r.symbol : r \in SymbolOn(i, d)}
              /\ StatusOn(i, d)' = StatusOn(i, d)
              /\ \A u \in Universes : (i \in MembersOn(u, d))' <=> i \in MembersOn(u, d)
HistoryStands ==
    txn # None /\ ~txn.empty =>
        \A i \in Used \cap Used' : \A d \in Floor..(txn.eff - 1) : Same(i, d)
HistoryIsNotRewritten == [][HistoryStands]_vars

\* Whatever order the snapshots come in: a ticker is one instrument, and an
\* instrument has one ticker, on any date.
IdentitiesAreSound == TypeOK /\ TickersAreUnique /\ SymbolsAreDisjoint

\* The range lookup of the training data and of the ingest agrees with the
\* lookup of the day: over a range of one day it has the same members, under
\* the same tickers, and over a longer one it can name everyone.
RangesAgree ==
    txn = None => \A u \in Universes, d \in Dates :
        LET one == InstrumentsBetween(u, d, d)
        IN  /\ MembersOn(u, d) \subseteq one
            /\ \A i \in MembersOn(u, d) : Label(i, d) = {r.symbol : r \in SymbolOn(i, d)}
            /\ \A i \in InstrumentsBetween(u, Floor, d) : Cardinality(Label(i, d)) = 1

\* Status and membership periods never overlap, a member has a ticker on each of
\* its days, and the change log tells who is a member: after every transaction
\* check_integrity reports nothing.
RecordIsConsistent ==
    /\ PeriodsAreDisjoint /\ MembersHaveATicker /\ AuditTrail /\ RangesAgree
    /\ txn = None => check_integrity = {}

\* The files of which the record's soundness is proved: no ticker is listed beside a
\* rename from it, the delisted rows come first, and no membership is dated before
\* the history begins.
Tidy(f) ==
    \A i, j \in 1..Len(f) :
        /\ f[i].prev # f[j].symbol
        /\ i < j /\ f[j].status = "delisted" => f[i].status = "delisted"
        /\ f[i].from = None \/ f[i].from >= Floor

\* A sync leaves its file applied, and repeated it finds nothing to do.
SnapshotTakesHold == SnapshotIsApplied /\ Repeatable
=============================================================================
