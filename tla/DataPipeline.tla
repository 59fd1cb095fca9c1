---------------------------- MODULE DataPipeline ----------------------------
(***************************************************************************)
(* The daily data job (data/ingest.py, data/backfill.py, pipeline.py) over *)
(* a vendor that publishes, fills in late and restates its history, the    *)
(* trading calendar and the readiness alerts derived from the stored bars, *)
(* and the cards whose bars lifecycle/provenance.py reconstructs later.    *)
(*                                                                         *)
(* A bar is its close: a rewrite of another column takes the same path.    *)
(* job_runs and data_ingest_runs are logs of what these actions say; they  *)
(* are not kept here.  Dates are consecutive; `today` is the local date of *)
(* the clock.  One symbol is ingested per step, the code's transaction.    *)
(***************************************************************************)
EXTENDS Integers, FiniteSets, FiniteSetsExt

CONSTANTS
    Stocks,         \* instrument ids of the configured universes
    LastDate,       \* bound: the last date of the model
    Overlap,        \* ingest.overlap_calendar_days
    TolNum, TolDen, \* ingest.adjust_rel_tolerance as a fraction
    MinNum, MinDen, \* ingest.calendar_min_stock_fraction as a fraction
    Grace,          \* ingest.calendar_grace_days
    MinSessions,    \* ingest.min_sessions
    FingerprintBars,
    Base,           \* the close of every new bar
    MaxEvents,      \* bound: missing, late and restated bars, failures, deaths, commands
    MaxJobs, MaxCards \* bounds

ASSUME DataConstants ==
    /\ {LastDate, TolDen, MinDen, FingerprintBars, Base} \subseteq Nat \ {0}
    /\ {Overlap, TolNum, MinNum, Grace, MinSessions} \subseteq Nat
    /\ {MaxEvents, MaxJobs, MaxCards} \subseteq Nat

Dates == 1 .. LastDate
None == -1
Closes == 0 .. Base

VARIABLES
    vendor,     \* what DNSE serves: close by stock and date, None = no bar
    today, closed, \* the date, and whether close + buffer has passed
    members,    \* training members as of today
    bars,       \* price_bar
    revisions,  \* price_bar_revisions
    calendar,   \* trading_calendar
    alerts,     \* open insufficient_history alert: the sessions it tells
    job,        \* the data job under way
    clock,      \* whole seconds: every write and every card has its own
    cards,      \* recommendations with the provenance frozen at issue
    ended,      \* aux: the command of the last job, once it has ended
    upToDate,   \* aux: stocks ingested since the vendor last changed them
    unseen,     \* aux: dates changed where an incremental run may not look
    events, jobs \* aux: how much of the bounds is spent

dataVars == <<vendor, today, closed, members, bars, revisions, calendar, alerts, job, clock, cards,
          ended, upToDate, unseen, events, jobs>>

world == <<vendor, today, closed, members>>
tables == <<bars, revisions, calendar, alerts>>

\* The whole evening, or one step of it from the command line.
Commands == {"data", "backfill", "ingest", "quality"}
Idle == [command |-> "none", phase |-> "idle", todo |-> {}, failed |-> {}, full |-> FALSE]
Job == [command : Commands \union {"none"}, phase : {"idle", "backfill", "ingest", "quality"},
        todo : SUBSET Stocks, failed : SUBSET Stocks, full : BOOLEAN]

DataTypeOK ==
    /\ vendor \in [Stocks -> [Dates -> Closes \union {None}]]
    /\ bars \in [Stocks -> [Dates -> Closes \union {None}]]
    /\ today \in 0 .. LastDate /\ closed \in BOOLEAN
    /\ members \subseteq Stocks
    /\ revisions \subseteq [stock : Stocks, date : Dates, close : Closes, superseded_at : Nat]
    /\ calendar \subseteq Dates
    /\ alerts \in [Stocks -> 0 .. LastDate \union {None}]
    /\ job \in Job
    /\ clock \in Nat
    /\ ended \in Commands \union {"none"}
    /\ upToDate \subseteq Stocks /\ unseen \in [Stocks -> SUBSET Dates]
    /\ {events, jobs} \subseteq Nat

DataInit ==
    /\ vendor = [s \in Stocks |-> [d \in Dates |-> None]]
    /\ today = 0 /\ closed = TRUE /\ members = Stocks
    /\ bars = [s \in Stocks |-> [d \in Dates |-> None]]
    /\ revisions = {} /\ calendar = {} /\ alerts = [s \in Stocks |-> None]
    /\ job = Idle /\ clock = 0 /\ cards = {}
    /\ ended = "none" /\ upToDate = {} /\ unseen = [s \in Stocks |-> {}]
    /\ events = 0 /\ jobs = 0

-----------------------------------------------------------------------------
(* Reading the tables.                                                     *)

StoredDates(table, s) == {d \in Dates : table[s][d] # None}

Abs(n) == IF n < 0 THEN -n ELSE n

\* A bar is final once its session is over, with a buffer for today's.
is_final(d) == d < today \/ (d = today /\ closed)

\* The client: one bar per date of the range the vendor has one for.
fetch_daily(s, start, end) == {d \in start .. end : vendor[s][d] # None}

\* fetch(frm): what the vendor has up to today, the final bars only.
Fetched(s, frm) == {d \in fetch_daily(s, frm, today) : is_final(d)}

\* _drifted: some stored close of the window disagrees beyond the tolerance.
Drifted(s, window) ==
    \E d \in window :
        LET old == bars[s][d] new == vendor[s][d] IN
        old # None /\ (old = 0 \/ Abs(new - old) * TolDen > TolNum * old)

\* Where ingest_symbol starts: the overlap window, or the whole history.
FetchFrom(s, full) ==
    LET stored == StoredDates(bars, s)
        recent == IF full \/ stored = {} THEN 1 ELSE Max({1, Max(stored) - Overlap})
    IN  IF Drifted(s, Fetched(s, recent)) /\ ~full THEN 1 ELSE recent

\* compute_trading_days: enough of the active stocks have a bar on the date.
ActiveOn(table, d) ==
    {s \in Stocks : LET stored == StoredDates(table, s) IN
        stored # {} /\ Min(stored) <= d /\ d <= Max(stored) + Grace}

ComputeTradingDays(table) ==
    {d \in Dates : LET n == Cardinality({s \in Stocks : table[s][d] # None}) IN
        n >= 1 /\ n * MinDen >= MinNum * Cardinality(ActiveOn(table, d))}

Sessions(s) == Cardinality(StoredDates(bars, s))

\* block_reason and readiness: too few sessions to learn from.
Blocked(s) == Sessions(s) < MinSessions
readiness(of) == {s \in of : Blocked(s)}

\* sync_readiness_alerts: opened or rewritten when blocked, acknowledged when
\* ready; an instrument that is no member any more is in neither list.
SyncReadinessAlerts ==
    alerts' = [s \in Stocks |->
        IF s \in readiness(members) THEN Sessions(s)
        ELSE IF s \in members THEN None ELSE alerts[s]]

\* run_quality_checks: what the calendar says of the series of one stock.
CalendarFindings(s) ==
    LET stored == StoredDates(bars, s)
        last == Max(stored)
        Found(check, dates) == {[check |-> check, date |-> d] : d \in dates}
    IN  IF stored = {} THEN Found("no_data", {None})
        ELSE IF calendar = {} THEN {}
        ELSE Found("missing_trading_day", (calendar \ stored) \intersect (Min(stored) .. last))
             \union Found("extra_day", stored \ calendar)
             \union Found("stale_series", IF last < Max(calendar) THEN {last} ELSE {})

\* calendar_gaps: the dates between two sessions that some stock traded and
\* that are no session.  (The others are holidays.)
PartialSessions ==
    IF calendar = {} THEN {}
    ELSE {d \in (Min(calendar) .. Max(calendar)) \ calendar :
              \E s \in Stocks : bars[s][d] # None}

\* bars_as_known: the last n bars up to as_of of the table as it is now, each
\* with the oldest value the revision log took over after known_at, if any.
LastDates(s, as_of) ==
    {d \in StoredDates(bars, s) : d <= as_of
        /\ Cardinality({e \in StoredDates(bars, s) : d <= e /\ e <= as_of}) <= FingerprintBars}

RevisionsAfter(s, d, known_at) ==
    {r \in revisions : r.stock = s /\ r.date = d /\ r.superseded_at > known_at}

ValueAsKnown(s, d, known_at) ==
    LET later == RevisionsAfter(s, d, known_at) IN
    IF later = {} THEN bars[s][d]
    ELSE (CHOOSE r \in later : \A q \in later : r.superseded_at <= q.superseded_at).close

BarsAsKnown(s, as_of, known_at) ==
    [d \in LastDates(s, as_of) |-> ValueAsKnown(s, d, known_at)]

\* trace: the bars read back hash to the fingerprint the card froze.
Verifies(c) == BarsAsKnown(c.stock, c.as_of, c.issued_at) = c.data

-----------------------------------------------------------------------------
(* The vendor and the calendar of the exchange: the environment.  It moves  *)
(* between two jobs: a job reads the clock once, when it starts, and a      *)
(* symbol is the same to the others of its job whatever the vendor does.    *)

\* What happens to the job is counted against one bound.
Event == events < MaxEvents /\ events' = events + 1

VendorChanges(s, table, dates) ==
    /\ job = Idle
    /\ vendor' = table
    /\ upToDate' = upToDate \ {s}
    /\ unseen' = [unseen EXCEPT ![s] = @ \union dates]
    /\ UNCHANGED <<today, closed, members, tables, job, clock, cards, ended>>

\* A session opens: the stocks have a bar at once, a suspended one has none.
NewDay ==
    /\ job = Idle /\ today < LastDate
    /\ today' = today + 1 /\ closed' = FALSE
    /\ \E traded \in SUBSET Stocks :
        /\ vendor' = [s \in Stocks |->
               [vendor[s] EXCEPT ![today + 1] = IF s \in traded THEN Base ELSE None]]
        /\ IF traded = Stocks THEN UNCHANGED events ELSE Event
    /\ upToDate' = {}
    /\ UNCHANGED <<members, tables, job, clock, cards, ended, unseen, jobs>>

MarketCloses ==
    /\ job = Idle /\ ~closed
    /\ closed' = TRUE /\ upToDate' = {}
    /\ UNCHANGED <<vendor, today, members, tables, job, clock, cards, ended, unseen, events, jobs>>

\* A bar the vendor had not served is there later.
VendorFills(s, d) ==
    /\ d <= today /\ vendor[s][d] = None
    /\ VendorChanges(s, [vendor EXCEPT ![s][d] = Base], {d})
    /\ Event /\ UNCHANGED jobs

\* Restated before an ex-date: halved (a split) or moved by one step (a small
\* dividend).  Only a restatement of every bar beyond the tolerance is certain
\* to be seen by a run that looks at the overlap window.
VendorRestates(s, x, halved) ==
    LET old == vendor[s]
        new == [d \in Dates |-> IF d >= x \/ old[d] = None THEN old[d]
                                ELSE IF halved THEN old[d] \div 2 ELSE Max({0, old[d] - 1})]
        moved == {d \in Dates : new[d] # old[d]}
        plain == \A d \in Dates : old[d] # None => Abs(new[d] - old[d]) * TolDen > TolNum * old[d]
    IN  /\ moved # {}
        /\ VendorChanges(s, [vendor EXCEPT ![s] = new], IF plain THEN {} ELSE moved)
        /\ Event /\ UNCHANGED jobs

\* A stock leaves the training universe (it stays an ingest target).
Leave(s) ==
    /\ s \in members /\ members' = members \ {s}
    /\ Event /\ UNCHANGED jobs
    /\ UNCHANGED <<vendor, today, closed, tables, job, clock, cards, ended, upToDate, unseen>>

-----------------------------------------------------------------------------
(* The job.                                                                *)

\* The instruments with no bar at all.
find_new_targets == {s \in Stocks : StoredDates(bars, s) = {}}

Start(command, phase, todo, full) ==
    /\ job = Idle /\ jobs < MaxJobs
    /\ job' = [command |-> command, phase |-> phase, todo |-> todo, failed |-> {}, full |-> full]
    /\ ended' = "none"
    /\ jobs' = jobs + 1
    /\ UNCHANGED <<world, tables, clock, cards, upToDate, unseen>>

\* run_data_pipeline starts with backfill.
StartPipeline == Start("data", "backfill", find_new_targets, FALSE) /\ UNCHANGED events

\* The commands that do one of its steps.  `ingest --refetch` takes every target
\* from the first date.  Nothing follows any of them.
StartCommand ==
    /\ \/ Start("backfill", "backfill", find_new_targets, FALSE)
       \/ \E refetch \in BOOLEAN : Start("ingest", "ingest", Stocks, refetch)
       \/ Start("quality", "quality", {}, FALSE)
    /\ Event

\* `calendar sync`, and a step of the daily run.
SyncCalendar ==
    /\ job = Idle
    /\ calendar' = ComputeTradingDays(bars)
    /\ UNCHANGED <<world, bars, revisions, alerts, job, clock, cards, ended, upToDate, unseen, events, jobs>>

\* _differs: a stored value is about to change.
Differs(s, d) == bars[s][d] # None /\ bars[s][d] # vendor[s][d]

\* mutant: the row of the log holds the values that came, not those that went
NewValues(s, dates) ==
    {[stock |-> s, date |-> d, close |-> vendor[s][d], superseded_at |-> clock + 1] :
        d \in {e \in dates : Differs(s, e)}}

\* The rows of the window whose values change, as they were.
Superseded(s, dates) ==
    {[stock |-> s, date |-> d, close |-> bars[s][d], superseded_at |-> clock + 1] :
        d \in {e \in dates : Differs(s, e)}}

\* mutant: a drift is not followed by the full re-fetch
IngestWindowOnly(s) ==
    LET stored == StoredDates(bars, s)
        frm == IF job.full \/ stored = {} THEN 1 ELSE Max({1, Max(stored) - Overlap})
        dates == Fetched(s, frm)
    IN  /\ s \in job.todo
        /\ revisions' = revisions \union Superseded(s, dates)
        /\ bars' = [bars EXCEPT ![s] = [d \in Dates |-> IF d \in dates THEN vendor[s][d] ELSE @[d]]]
        /\ clock' = clock + 1
        /\ job' = [job EXCEPT !.todo = @ \ {s}]
        /\ upToDate' = upToDate \union {s}
        /\ unseen' = [unseen EXCEPT ![s] = @ \ (frm .. LastDate)]
        /\ UNCHANGED <<world, calendar, alerts, cards, ended, events, jobs>>

\* ingest_symbol and its data_ingest_runs row, in the symbol's transaction:
\* new and changed bars are written, the others are left alone.
IngestSymbol(s) ==
    LET frm == FetchFrom(s, job.full)
        dates == Fetched(s, frm)
    IN  /\ s \in job.todo
        /\ revisions' = revisions \union Superseded(s, dates)
        /\ bars' = [bars EXCEPT ![s] = [d \in Dates |-> IF d \in dates THEN vendor[s][d] ELSE @[d]]]
        /\ clock' = clock + 1
        /\ job' = [job EXCEPT !.todo = @ \ {s}]
        /\ upToDate' = upToDate \union {s}
        /\ unseen' = [unseen EXCEPT ![s] = @ \ (frm .. LastDate)]
        /\ UNCHANGED <<world, calendar, alerts, cards, ended, events, jobs>>

\* DnseError: the transaction is rolled back, the other symbols go on.
IngestFails(s) ==
    /\ s \in job.todo
    /\ job' = [job EXCEPT !.todo = @ \ {s}, !.failed = @ \union {s}]
    /\ Event /\ UNCHANGED jobs
    /\ UNCHANGED <<world, tables, clock, cards, ended, upToDate, unseen>>

JobEnds == job' = Idle /\ ended' = job.command

\* The pipeline goes on to its next step whatever the last one raised; a command
\* is done.
GoesOn(next) == IF job.command = "data" THEN job' = next /\ UNCHANGED ended ELSE JobEnds

\* backfill writes the alerts and rebuilds the calendar, and raises its failures
\* only then.
BackfillEnds ==
    /\ job.phase = "backfill" /\ job.todo = {}
    /\ SyncReadinessAlerts
    /\ calendar' = ComputeTradingDays(bars)
    /\ GoesOn([job EXCEPT !.phase = "ingest", !.todo = Stocks, !.failed = {}])
    /\ UNCHANGED <<world, bars, revisions, clock, cards, upToDate, unseen, events, jobs>>

\* mutant: the failures are raised before sync_trading_days
IngestRaisesFirst ==
    /\ job.phase = "ingest" /\ job.todo = {}
    /\ calendar' = IF job.failed = {} THEN ComputeTradingDays(bars) ELSE calendar
    /\ GoesOn([job EXCEPT !.phase = "quality"])
    /\ UNCHANGED <<world, bars, revisions, alerts, clock, cards, upToDate, unseen, events, jobs>>

\* ingest_universe: the calendar is rebuilt, then the failures are raised.
IngestEnds ==
    /\ job.phase = "ingest" /\ job.todo = {}
    /\ calendar' = ComputeTradingDays(bars)
    /\ GoesOn([job EXCEPT !.phase = "quality"])
    /\ UNCHANGED <<world, bars, revisions, alerts, clock, cards, upToDate, unseen, events, jobs>>

\* run_quality: here its readiness alerts.
QualityEnds ==
    /\ job.phase = "quality"
    /\ SyncReadinessAlerts
    /\ JobEnds
    /\ UNCHANGED <<world, bars, revisions, calendar, clock, cards, upToDate, unseen, events, jobs>>

\* The process dies between two transactions; nothing takes the job up again.
JobDies ==
    /\ job # Idle
    /\ job' = Idle /\ Event /\ UNCHANGED jobs
    /\ UNCHANGED <<world, tables, clock, cards, ended, upToDate, unseen>>

\* provenance.build: the card keeps the moment and a hash of the bars read.
IssueCard(s) ==
    /\ job = Idle /\ Cardinality(cards) < MaxCards
    /\ StoredDates(bars, s) # {}
    /\ clock' = clock + 1
    /\ cards' = cards \union {[stock |-> s, as_of |-> today, issued_at |-> clock + 1,
                               data |-> BarsAsKnown(s, today, clock + 1),
                               stored |-> StoredDates(bars, s)]}
    /\ UNCHANGED <<world, tables, job, ended, upToDate, unseen, events, jobs>>

DataNext ==
    \/ NewDay \/ MarketCloses
    \/ \E s \in Stocks, d \in Dates : VendorFills(s, d)
    \/ \E s \in Stocks, x \in 2 .. LastDate + 1, halved \in BOOLEAN : VendorRestates(s, x, halved)
    \/ \E s \in Stocks : Leave(s)
    \/ StartPipeline \/ StartCommand \/ SyncCalendar
    \/ \E s \in Stocks : IngestSymbol(s) \/ IngestFails(s)
    \/ BackfillEnds \/ IngestEnds \/ QualityEnds \/ JobDies
    \/ \E s \in Stocks : IssueCard(s)

DataSpec == DataInit /\ [][DataNext]_dataVars

-----------------------------------------------------------------------------
(* Properties.                                                             *)

\* trace (provenance.py) verifies: a card's bars, read back through the
\* revision log after any number of rewrites, are the bars it was built from -
\* as long as no bar was stored since inside the period the card looked at.
CardsAreTraceable ==
    \A c \in cards :
        {d \in StoredDates(bars, c.stock) : d <= c.as_of} = c.stored
            => Verifies(c)

\* The splice the overlap window is there to prevent (ingest.py): once a symbol
\* is ingested and the vendor has not moved, every stored bar is the vendor's,
\* apart from the dates that moved where an incremental run does not look, and
\* no bar of an unfinished session is stored.
NoSplice ==
    \A s \in upToDate : \A d \in Dates \ unseen[s] :
        bars[s][d] = IF is_final(d) THEN vendor[s][d] ELSE None

\* A finding about the sessions of a stock has another stock for a witness: it
\* traded the session that is missing, or one after the series ends; and a bar
\* on an extra day is one the report of the calendar's gaps tells of too.
FindingsHaveAWitness ==
    \A s \in Stocks : \A f \in CalendarFindings(s) :
        LET others == UNION {StoredDates(bars, o) : o \in Stocks \ {s}} IN
        /\ f.check = "missing_trading_day" => f.date \in others
        /\ f.check = "stale_series" => \E d \in others : d > f.date
        /\ f.check = "extra_day" /\ f.date \in Min(calendar) .. Max(calendar)
              => f.date \in PartialSessions

\* When a job has ended and no other has begun, whatever symbols failed in it: the
\* calendar is what the stored bars say, and the findings a quality run makes of it
\* hold together, unless the job was `quality run` alone; and a member has an open alert exactly when it is
\* short of history, telling the number of sessions stored now, unless the job was
\* `ingest` alone, which leaves the alerts as they are.
DerivedTablesAgree ==
    /\ ended \in {"data", "backfill", "ingest"} =>
           calendar = ComputeTradingDays(bars) /\ FindingsHaveAWitness
    /\ ended \in {"data", "backfill", "quality"} =>
           \A s \in members :
               alerts[s] = IF Sessions(s) < MinSessions THEN Sessions(s) ELSE None
=============================================================================
