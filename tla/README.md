# predict_stock: a TLA+ verification project

`predict_stock` keeps a research and paper-trading record of Vietnamese stocks: it ingests daily bars from one vendor,
computes features, trains models, writes recommendation cards, replays the cards through a backtest engine into a
paper portfolio, and manages which model serves. MySQL holds the record; command lines, a daily job and a scheduler
change it. This directory holds TLA+ models of the parts where the order of steps matters, TLC runs over small
instances, and proofs checked by TLAPS. Paths below are relative to `src/predict_stock/` unless they start with `docs/`.

## 1. Inventory

| component | state | operations | interacts with | what is hard |
|---|---|---|---|---|
| Model registry (`lifecycle/registry.py`, `compare.py`, `retrain.py`, `swing/registry.py`) | `models.status/version`, `model_status_log`, retrain and `holdout:consumed` experiments | register, retrain, start shadow, compare, promote, reject, rollback, init | read by cards, shadow, monitor, the daily run | concurrent sessions, long computations between a read and the write that rests on it, kills half-way |
| Scheduler (`paper/scheduler.py`, `paper/schedule.py`) | `scheduler_state.json`, `.jobs.lock`, heartbeat | tick, due, run_job, save | starts the daily run, backup, restore test as child processes | two containers, crashes between job and record, retries, midnight |
| Instruments and universe (`instruments.py`, `universe.py`, `universe_sync.py`, `db/repo.py`) | half-open histories: symbols, exchanges, statuses, memberships | create, rename, change exchange, set status, apply snapshot, check | ingest, cards, removed-member flags | date order across universes, overlaps, ticker reuse |
| Ingest (`data/ingest.py`, `backfill.py`, `calendar.py`, `pipeline.py`, `dnse_client.py`) | bars, revisions, calendar, readiness alerts | backfill, full / incremental fetch, drift refetch, quality | adjustments, quality, provenance, datasets | partial failure per symbol, restated history, late bars, non-final bar |
| Adjustments and quality (`data/adjustments.py`, `quality.py`, `quality_store.py`, `quality_report.py`) | corporate actions, factors, findings, known issues, alerts | detect, confirm, reject, resolve, open again | ingest | state machine driven by repeated runs over edited files |
| Provenance (`lifecycle/provenance.py`) | fingerprint frozen in a card | bars_as_known, trace | ingest | equality of a past read after later restatements |
| Backtest engine (`backtest/engine.py`, `market.py`, `portfolio.py`) | cash, lots, pending orders, positions | one session: expiry, fills, exits, kill switch, new orders | replay, comparison, research | order of steps inside a session, T+2 settlement, limits |
| Paper record (`paper/daily.py`, `live.py`, `replay.py`, `sync.py`, `state.py`, `flags`) | cards, target book, paper tables | init, daily run, replay, sync | engine, registry, universe | idempotence, crash between four transactions |
| Cards (`reco/*.py`, `backtest/market.py`) | cards, plan of orders, tranches | build, validate, aggregate, plan, generate | registry, engine, paper record | limits cut one card twice, rounding to ticks and lots, tranches of a rejected card |
| Signals (`backtest/portfolio.py`, `baselines.py`, `swing/strategies.py`, `invest/weights.py`, `strategy.py`) | none: a history to its signals | choose, weigh, cap, phase in | engine | look-ahead, rebalances cut short, sums under a cap |
| Lifecycle jobs (`lifecycle/job.py`, `shadow.py`, `monitor.py`, `outcomes.py`, `compare.py`) | predictions, metrics, monthly experiment, alerts | shadow, replay, monitor, monthly evaluation, automatic retrain | registry, daily run | repeated, missed and killed runs |
| Datasets (`features/dataset.py`, `sets.py`, `paper/backup.py`) | rows of versions and Parquet files, definitions | build, reuse, restore, read, prune | research, registry | no lock between reading rows, writing a file and inserting |
| Features and labels (`features/*.py`) | none: bars to rows | panel, windows, ranks, rows, labels | datasets, walk-forward | a stored value that changes, warm-up, gaps |
| Walk-forward and held-out period (`backtest/walkforward.py`, `swing/*`, `invest/*`) | verdict files, experiments, final models | plan folds, purge, embargo, run, oos | registry, datasets | leakage at boundaries, one reveal, a verdict gone stale |
| Backup (`paper/backup.py`) | dump files with checksums | dump, verify, prune, restore test | scheduler | crash between file operations, retention |
| Reports, command line, configuration (`*/report.py`, `cli.py`, `config.py`) | none | formatting, parsing | all | none |

Every component, with its status, is also listed in `PROJECT.json`.

The hazards of the code, each at its line with the properties that would catch it going wrong, are in `PROJECT.json`.

## 2. Modules

| module | what it is |
|---|---|
| `ModelRegistry` / `MCModelRegistry` / `ModelRegistryProofs` | sessions over the registry's tables |
| `Scheduler` / `MCScheduler` / `SchedulerProofs` | containers, lock, state file, clock |
| `UniverseSync` / `MCUniverseSync` / `UniverseSyncProofs` | identities, statuses and memberships in time |
| `Account` | abstract: a long-only T+2 account |
| `Engine` / `MCEngine` / `EngineProofs` | one session of the backtest engine after the other; implements `Account` |
| `MCCore` | `ModelRegistry`, `Scheduler` and `Engine` side by side; composes nothing: `focus` names the one that steps |
| `PaperRecord` / `MCPaperRecord` / `PaperRecordProofs` | the daily run, the target book, the replay and the tables it writes |
| `DataPipeline` / `DataPipelineProofs` | vendor, data job, calendar, alerts, revisions, cards' fingerprints |
| `DataQuality` / `DataPipelineProofs` | candidates, confirmed events, factors, findings and their alerts |
| `Backup` / `OperationsProofs` | dumps, checksums, retention, restore test |
| `Datasets` / `OperationsProofs` | definitions, versions and files of training sets |
| `Lifecycle` / `OperationsProofs` | shadow predictions, monthly evaluation, evidence for a promotion |
| `MCOperations` | the five modules above side by side, as `MCCore` |
| `Fractions` | exact numbers with the two kinds of missing value |
| `Features` | panel, feature columns, assembled rows |
| `WalkForward` / `ResearchProofs` | labels, folds, purge, embargo, the rows a study reads |
| `HeldOut` / `ResearchProofs` | research, `oos` and retraining commands around the held-out period |
| `Cards` / `ResearchProofs` | builders, limits, plans of a history and of one evening |
| `Signals` | choice, weights, caps, tranches of the strategies and baselines |
| `MCResearch` | `Features` to `Signals` side by side, as `MCOperations` |

Definitions marked `mutant` in a comment are wrong variants of the definition that follows. No specification uses them:
`PROJECT.json` substitutes them one at a time to show that each property notices a plausible bug.

### 2.1 ModelRegistry

State: `status`, `version` (table `models`), `late` (a model whose training data reaches the held-out period), `log`
(`model_status_log`, a set of rows per transaction, each with the length the log had when the command read the model), `exps` and `consumed` (the experiments the commands leave), and
`job`, what each session has read and not yet used. Each command is a path through `job[p].at`:

| command | actions | code |
|---|---|---|
| retrain | `Retrain`, `RetrainTrain`, `RegisterReused` / `RegisterRead`, `RegisterWrite`, `VersionTaken`, `Trained`, `Consume`, `LogAttempt`, `StartShadow`, `Retrained` | `lifecycle/retrain.py`, `swing/registry.py:register_artifact` |
| research registration | `Research`, then the registration | `swing/registry.py` |
| compare, promote, reject | `Compare`, `CompareChampion`, `Promote`, `Reject` | `lifecycle/compare.py` |
| rollback | `RollbackChampion`, `RollbackRecall`, `RollbackLog`, `Rollback` | `lifecycle/registry.py` |
| init | `InitCheck`, `InitPick`, `InitCount`, `InitCrown` | `lifecycle/registry.py` |
| killed | `KillSession`, between any two actions | |

A command is cut where it commits, and inside a transaction where another may commit between a plain read and the write
that rests on it. This assumes InnoDB at its default level REPEATABLE READ, where a plain `SELECT` takes no lock and
`SELECT ... FOR UPDATE` reads the last committed row. So `set_status` is one action (it locks what it changes) except
that it counts champions without a lock when it makes a first one, and `register_artifact` is two (it locks nothing).
The verdict of a comparison and what is trained are free choices.

### 2.2 Scheduler

State: the wall clock (`day`, `slot`), `file` and `tmp` (`scheduler_state.json` and its temporary file), `fd` (what an
open descriptor points at), `held` (the lock), and per container its step `pc`, the tick it is in, the state it read
(`mem`), the jobs left (`todo`) and the job in hand (`cur`). `tally` counts what really ran and is read by properties
only. `Tick` is the poll with `load_state` and `due`; `Acquire`, `Finish` the child under the lock; `Record`, `OpenTmp`,
`WriteTmp`, `Rename`, `RenameFails` are `save_state`; `TickEnds`, `Crash`, `Start`, and `Pass` moves the clock. A slot is
longer than `poll_seconds` and shorter than the retry pause: the clock waits for every sleeping container to have polled.
The lock dies with its process, and a child with the container.

### 2.3 UniverseSync

State: `symbols`, `statuses`, `members` (half-open intervals), `changes` (the change log), `txn` (the snapshot
transaction, with what to restore if it fails) and `request` (the last file applied). A row of a file passes through
`Resolve` (who is it: known, renamed, new), `Exchange`, `Status`, `Member`; `Commit` drops the members the file no
longer lists; any error is `Abort`, which restores all four tables. `InstrumentRename`, `InstrumentExchange` and
`InstrumentStatus` are the commands, open to any date the code accepts. One transaction runs at a time.

### 2.4 Account and Engine

`Account` promises what the engine's docstring does: shares are bought with cash that is there, sold when they are two
sessions old, the oldest first, and nothing else moves. `Engine` goes through the phases of the loop in `run_backtest`:
`NextSession` (time-stops), `SellFills` / `SellWaits`, `BuyFills` / `BuyFails`, `Exit` / `NoExit`, `Close` (mark, peak,
kill switch), `Decide` / `NoSignal`, and one order after another (`Skip` and the order actions). Prices are in ticks,
money in thousandths of a tick, so fees and taxes are exact; the price band is a constant number of ticks.
`ImplementsAccount` maps the lots of a position to shares by the session they were bought in: every step of the engine
is a purchase, a sale, the next session, or nothing.

### 2.5 PaperRecord

State: the world (`today`, the universe `file`, the `policy` of removed names), the data (`members`, `stored`,
`calendar`), the decisions (`targets`, the rows of the target book, and `cards`), the marks on cards (`status`,
`flagged`), the tables `orders`, `positions`, `snaps`, and the `run` in progress. `NextDay` and `EditFile` are the world.
A run goes through `Start`, `ApplyUniverse`, `Ingest`, `SyncCalendar`, `Features`, `Flags`, `Decide`, `Store`,
`SyncOrders`, `SyncPositions`, `SyncSnapshots`, `SyncRecommendations`, `Finish`. Each step can fail, which ends that step
and not the run (`*Fails`), and `Kill` ends the run between any two. The replay is a set of operators over decisions and
calendar (`BookAt`, `OrdersUpTo`, `PositionsUpTo`, `StatusUpTo`): the code computes all of it again on every run, and
each table is one transaction.

Simplifications: SWING and one INVEST sleeve; every order fills at the next open (module `Engine` has the orders that
do not); a SWING position lives `HOLD` sessions; a run is never made for an earlier date than one before it; the record
begins with the first session. One run at a time, which is `OneJobAtATime` of `Scheduler`.

### 2.6 DataPipeline

State: what the `vendor` serves by stock and date, `today` and whether its session is `closed`, the tables `bars`,
`revisions`, `calendar`, `alerts`, the data `job` (phase, symbols to do, symbols failed), and issued `cards` with the
bars they froze. The environment opens and closes sessions, fills in bars late (`VendorFills`) and restates history
before an ex-date (`VendorRestates`). The job is `run_data_pipeline`: `StartPipeline` (the new targets), `IngestSymbol`
or `IngestFails` per stock, `BackfillEnds`, the ingest of all, `IngestEnds` (calendar, then the failures are raised),
`QualityEnds`. `StartCommand` runs one of these steps alone, as `backfill`, `ingest [--refetch]` and `quality run` do:
nothing follows it (`GoesOn`, `JobEnds`), and `ended` remembers which command was the last to end. `SyncCalendar` is
`calendar sync`, and `JobDies` stops any of them between two transactions. `FetchFrom` has the
overlap window and the drift test; `BarsAsKnown` is the read of a past date; `CalendarFindings` and `PartialSessions`
are the two reports over the calendar. A bar is its close. Auxiliary variables name what the properties must exempt: dates
that moved outside the window of an incremental run (`unseen`) are drift the code cannot see, by its design.

### 2.7 DataQuality and Backup

`DataQuality` runs over one instrument. `RunQuality` is record_candidates and store_findings in the order of the code,
`ApplyConfirmed` a CSV file of events with its rollback, `Acknowledge` the operator. `Applied` is
the table after all rows of a file, in closed form: the last row about an event counts, and only a first one rejects the gap. Gaps in prices and the findings of
a series are what the bars are (`StoredBarsChange`). `Backup` takes dumps (`DumpStarts` to `DumpEnds`), prunes file by
file, and may be killed between any two; the day's last dump and the week's first of the rest are kept.

### 2.8 Datasets and Lifecycle

`Datasets`: a build is cut where it has stored its definitions and assembled the frame, where it has numbered, written
and inserted it; a training between read and registration; the prune between files. The environment changes bars,
the definitions file, files on disk and the Parquet library. `Lifecycle`: the daily job's `Shadow*`, `Monitors`,
`EvaluationIsDue` to `EvaluationIsRecorded` steps for one strategy, each of which may fail without ending the job,
kills, replays of past sessions, and the operator's retrain, reject and promote between any two transactions.

### 2.9 Features and WalkForward

`Features` recomputes a dataset (`BuildFrame`) while sessions are stored and histories are rescaled. Its series are those
of the code over `Fractions`, missing values included (own history too short, and no value); a root or a logarithm is
represented by what is under it. `WalkForward` keeps two histories that part at a session: whatever is fitted before it
must not tell them apart. Labels, `make_folds`, `with_label_end`, purge, embargo and the split into fit, validation and
test rows are those of the code; a model is the set of rows it has seen.

### 2.10 HeldOut

A command is cut where it commits: `RunStarts`, `RunRegistersFinal` per preset, `RunStoresPayload`; `OosOpens` or
`BaselinesOpen`, then `LooksUp` and `Reveals`, the two statements of `reveal_holdout`, which takes no lock; `RetrainStarts`, `RetrainRegisters`, `RetrainAdmits`; `CommandDies` anywhere. The world
closes sessions, restates history and edits the configuration between any two. `Stands` is the comparison with the
stored pre-registration, `Scored` the choice of the model that is scored. Whether a preset passes under a configuration
is a constant (`Passing`): the statistics are not modelled, runs that fail are.

### 2.11 Cards and Signals

`Cards` works in hundredths of ten dong. `build_swing_card` and `build_invest_card` follow the builders to the level where they
refuse; `Fitted` is a rescale; `PlanSwing`, `PlanInvest` add the items of a session to the plan of a history,
`GenerateLive` makes the cards of an evening. `Signals` computes the signals of a growing history anew each session.

## 3. What the runs show

| run | question | bounds | states |
|---|---|---|---|
| `core` | what two interleaved sessions may do to a strategy; one container: files, tries, pauses, catch-up; order of steps, settlement, caps, kill switch of the engine | 3 models of one name, 2 sessions, 6 committed changes; 2 jobs, 6 slots, 2 days, 2 tries, pause 2, 2 kills; 4 columns, 5 sessions, T+2, lot 1, kill at 15 %, cooldown 2 | 840k |
| `scheduler_shared` | two containers on one directory; a tick ends | 1 job, 3 slots, 1 day, 1 kill | 70k |
| `universe` | snapshots of one universe, dated in order | 8 files, 2 tickers, 3 instruments, dates 0 to 2 | 659k |
| `universe_events` | commands at any date, in any order, beside two universes | 1 instrument, dates 0 to 2, universes and exchanges symmetric | 770k |
| `paper` | what is decided stands, tables are its replay | 4 sessions, 3 tranches and the next rebalance, 1 fault, 2 edits | 907k |
| `operations` | each component behind the daily work, over its own faults | 2 stocks, 3 dates, 2 events; 2 ex-dates, 4 changes; 5 days, 1 kill; 2 builders, 2 rows, 1 mishap; 4 sessions, 3 models, 1 fault | 1,015k |
| `research` | each part of research, over its own inputs | 4 sessions of features; 6 of folds; 2 operators, 3 commands, 2 changes; 3 evenings of cards; 5 of signals | 1,093k |

`core`, `operations` and `research` check components that share no variable side by side. A behaviour steps one of them
only, so their states add and do not multiply; an interleaving of two would add nothing that either could see.

Why the bounds are enough for the case that matters:

- `core`, registry: three models are a champion, its challenger and the next registration of the same name; they are
  alike, so the run lets them come into being in one order (`InOrder`). Six changes reach promote after retrain, the
  reject of what remains, and a rollback that follows both; two sessions are the least that interfere, and every hazard
  listed involves one pair. Scheduler: two days give a tick that ends after midnight; six slots leave room for all
  tries, the pause between them and a container that comes up late. Two kills break a save and its repetition. Engine:
  five sessions are a buy, its settlement, a second lot, an exit and the cooldown after a kill. The bars include one
  through both levels, a suspension and a missing open; the signals all four kinds of order.
- `scheduler_shared`: a lock needs two containers and one job. One kill, which falls anywhere: while the lock is
  held, while it is awaited, inside a save.
- `universe`: a seed, a change and the return are three dates; two tickers and three instruments allow a rename, the
  reuse of the old ticker and a swap. The files cover every column of a row.
- `universe_events`: one instrument suffices, as statuses and tickers of different instruments meet only in
  `TickersAreUnique`, which is proved, as are both properties of the run for any instruments. The two universes are there
  because their event dates are checked separately; the commands come at any date the code accepts, so that suspensions
  come out of order.
- `paper`: three tranches are the least with one between the first and the last. The fourth session starts the next
  period and so the next rebalance, from what the tranches left. Two edits are a name that leaves and returns.
- `operations`, data: three dates are a bar, the overlap window of one day and a bar beyond it; two events are a
  restatement and a failure, two restatements, or a command run alone and one of them. Two stocks make the calendar a vote. Quality: two ex-dates and five
  files hold a correction, a dividend that moves with the close, a factor of 1 and a file that must be rolled back.
  Backup: five days of two-day weeks with two daily and one weekly dump kept reach a deletion under each rule. Datasets:
  two builders race for the version `MaxRows` allows; the prune keeps one. Lifecycle: two months, three models.
- `research`, features: windows of two and three over four sessions make the first full row and one after it; the tapes
  hold a missing bar, an empty volume, a bar whose open lies outside its range, and an index that begins late, on a
  session where the fallback has a value and on one where it has none. The features of a set declare one warm-up
  (`MCSets`), so each is tested at the first row its own warm-up allows. Folds: six sessions
  give two folds, a validation window and horizons 1 and 2. Held-out: three commands are a run, an evaluation and one that
  interferes; two presets make a run that dies half-way, and under one of the two settings the second fails. Cards: three names over three evenings fill each limit, with
  three tranches cut short by a rebalance. Signals: five evenings hold two rebalances and a full window.

Where `CHECK_DEADLOCK FALSE` stands the model stops at its bound: the log and the last session of `core`, the dates and
instruments of `universe*`, the bounds of `operations` and `research`. `scheduler_shared` checks for deadlock: there a
container can still start or poll when the clock has stopped.

### Fairness

Only `scheduler_shared` checks liveness (`EveryTickEnds`). `FairSpec` assumes weak fairness on a container's own steps
(a process that is up is run by the system, and a child ends: each job is a finite sequence of calls with timeouts) and
strong fairness on taking the lock (`flock` wakes a waiter; without it one container could take it for ever).
Kills and restarts are not fair. Nothing else is said to happen eventually: every other command is an operator's.

## 4. Where the code does not do what is said of it

Each is a run that TLC finds violated, listed in `PROJECT.json` with the quoted line.

1. `paper_never_sold` (`paper/live.py:172`): with several tranches a name that left the universe is only scaled down at
   the rebalance, and no tranche sells the rest. The operator's guide says it is sold like any dropped name.
2. `card_orders` (`reco/backtest.py:109`): a name whose first card was rejected keeps its partial weight in the plan and
   is ordered without a card at the next tranche or rebalance where that weight does not grow. The comment at line 105:
   "the backtest buys only what a card asks for".
3. `scored_unseen` (`swing/job.py:325`): `oos` scores the newest version of the final model, which a retraining may have
   registered after seeing the held-out sessions; `backtest/walkforward.py:13` calls them excluded.

4. `stale_promotion` (`lifecycle/compare.py:202`): a challenger is compared while it is in shadow, another session rejects
   it, and `promote` makes what is retired by now the champion. `lifecycle/registry.py:6`: "the only way back from
   `retired` to `champion` is a rollback to the champion it replaced". `set_status` reads the status again but allows the
   move to whoever asks for it (`ALLOWED`, line 19); `init_champions` can take it too, when what its card names was
   retired after its row was read. What does hold is `ChampionsAreEarned`: a promoted model was in shadow when its
   comparison read it.
5. `revealed_twice` (`backtest/walkforward.py:126`): two evaluations of one period that overlap both find no record and
   both write one, as `reveal_holdout` takes no lock and the table has no key of the period. Line 14: "It may be REVEALED
   once: the first reveal is recorded in the ``experiments`` table and any later one raises"; `backtest/job.py:97` says
   the same of a call. Commands that do not overlap do reveal it once, which is proved (`SecondRevealsOverlap`).

The first uses two tranches of weight 8 and one edit, the second three evenings, the third one retraining between a
passing run and `oos`, the last two a pair of commands at once: the sequences are ordinary.

Further divergences met while modelling, which the models follow and no run is kept for:

- `universe_sync.py:185`: `open_rows` is read once per snapshot, so in a universe without history a file that lists a
  ticker and, on another date, a row that was renamed from it makes two overlapping memberships of one instrument,
  which `check_integrity` reports (`PeriodsAreDisjoint` is therefore no theorem of every file; see section 5).
- `universe_sync.py:274`: a row that delists a ticker which ended takes the instrument that had it, whatever its ticker is
  now. After a rename of A to B, a file that lists B and, below it, A as delisted comes to one instrument twice and
  delists the member it has just listed; the other order is refused.
- `swing/registry.py:102`: a registration selects candidates without a lock and retires by id what another session has
  made shadow or champion since; line 84 says such a version "is never touched here".
- `universe_sync.py:263`: a file with a rename is refused on every date after the first, though line 18 says that
  "applying the same file again changes nothing" and the daily job applies its file each day.
- `paper/live.py:166`: under `close_now` a tranche or rebalance of the same session is written after the exit row and
  brings the name back (`docs/OPERATIONS.md:52`).
- `paper/sync.py:192`: the card of a second tranche stays `holding` after its position is sold (`docs/OPERATIONS.md:27`).
- `lifecycle/compare.py:126`: the shadow time of a challenger is the span of its stored predictions, and rows written by
  a replay of past sessions (`lifecycle/shadow.py:69`) count, so a challenger may meet it without a week of shadow.
- `features/ts.py:166`: `Gap` declares a warm-up of 1 and reads two bars, against `features/registry.py:68` ("Sessions of
  the instrument's own history needed before the output is fully defined"). A row needs `warmup` sessions
  (`features/engine.py:65`), so in a set whose other features need no more the first session of a stock gives a row
  without the value; every feature set of the repository has a longer warm-up. `tests/test_features_ts.py:261` counts
  rows from zero and so asks for one bar more than a row needs. `RowsHaveTheirHistory` exempts that row and no other.
- `features/data.py:82`: where the fallback index has no value on the first date of the primary, the primary is returned
  alone, and the values spliced in for the sessions before it, shown by rows already built, become missing once that
  date is stored. The docstring says of the series "Never uses a later value". `RowsStayAsBuilt` exempts the columns
  that read the index in these rows (`Blanked`) and requires that nothing of them is left.
- `instruments.py:104`: a suspension may be dated before one that has ended, and the two may overlap. Suspended on day 2,
  resumed on 5, suspended on 1 and resumed on 3, a stock is suspended on 3 and 4 by the first row, though the last
  resumption says otherwise; line 4 says that each event closes the row that was open on its date.
- `cli.py:290`: `ingest [--refetch]` alone leaves the findings and the readiness alerts as they were before the bars it
  changed, and `quality run` alone the calendar. `DerivedTablesAgree` says which table each command leaves true.
- `data/adjustments.py:120`: a stale gap that is seen again is a candidate without a new alert.
- `backtest/runner.py:166`: a row some of whose labels have no end yet is purged by the ends it has.

Other behaviour met while modelling, which the models follow and no run contradicts:

- data: the readiness alerts that the daily run writes in its step `features` (`paper/daily.py:247`) are those of the
  members of its last session; the model writes them in the data job only.
- registry: a champion can be retired by the promotion of a challenger that was compared with its
  predecessor.
- scheduler: a try killed before it is recorded is not counted (`SlotsAreServed` allows for it). Two containers that
  share a directory may each run a job once, one after the other, because the state is read before the lock is awaited (`RunsAreOwed` is stated for one container). A try's pause is counted
  from the start of its tick. A daily job that succeeded on late bars is done for the day.
- universe: the order of dates is checked per universe while statuses are shared, so `PeriodsAreDisjoint` holds for one
  universe and not for two with dates out of order. A file that lists a new ticker and, on the same date,
  a rename from it is refused.
- engine: a partial sell that waits puts a time-stop off, hence the condition in `TimeExitOnTime`; a sell is tried on
  `max_pending_sell_sessions + 1` sessions, so `KillSellsEverything` needs `kill_cooldown` to be no longer than that
  (the defaults are 21 and 20 + 1, and nothing enforces it); a decision at the last session has no effect.
- data: bars the vendor removes stay; a late bar older than the window, or a restatement below the tolerance, is not seen
  until a refetch; the readiness alert of a stock that left the training universe stays open.
- quality: the alert of a candidate stays open after a file rejects it; two confirmed events of one ex-date with different
  factors violate the unique key and the whole file is rolled back, with equal factors they collapse into one; removing a
  line from the CSV does not remove the known issue; a gap detected after its event was confirmed stays a candidate.
- backup: a restore-test dump killed before its checksum is the day's latest, and the next prune deletes the earlier one
  that could be verified. `BackupsAreUsable` says what is left.
- datasets: a model registered after the prune read its list can lose its file, against the docstring of
  `paper/backup.py:187`; a killed prune leaves a file gone and its row unmarked; two builds race for one file name and the
  loser's bytes may stay, which the checksum catches at the next read; a restored file keeps its `file_pruned` mark; a
  restore under another library overwrites the file and then fails.
- held-out: the pre-registration leaves out the number of trees, early stopping and quantiles; its identifier holds the
  dates, so each new session makes a new period; `lifecycle/retrain.py:116` looks at the last training date, so within the embargo after the protected start labels
  read protected sessions unrecorded.
- features: `splice_benchmark` rescales earlier levels by the first later one, which no feature shows, as they are
  ratios.
- cards: two rescales can leave a card under half of its size (`reco/aggregate.py:6` says it is rejected then); a card
  rejected after a rescale keeps the smaller size; an INVEST order asks for the target weight and not for the size of
  its card; a cancel price is taken before the zone is cut to the band; a SWING name is not compared with the cap again
  when a later INVEST rebalance buys it; `Card.problems` is called by tests only.
- signals: a rebalance date without predictions still cuts the tranches of the one before it short.
- paper: the staleness check of `paper/daily.py:132` compares the newest bar with a session taken from the same calendar;
  `on_removal.swing: close_now` is accepted (`config.py:364`) and has no effect; snapshots after an earlier `--as-of` stay
  (`paper/sync.py:139`), which is why the model never goes back.

## 5. What is proved

TLAPS checks these for every value of the constants that satisfies the named assumptions, which TLC also evaluates on
each run. Each names its module's types and bounds and no more: `NamesAssumption`, `ScheduleAssumption`,
`FilesAssumption`, `SnapshotAssumption`, `NoTransaction` (the absence of a transaction is not one), `EngineAssumption`, `DataConstants`, `QualityConstants`, `DatasetsConstants`, `BackupConstants`,
`LifecycleConstants`, `HeldOutConstants`, `RecordAssumption`. The ones a reader may stop at: the instruments of `Engine` are finitely many (the columns of a frame)
and no group is called `None`; the file of a definition is none that stands for its absence (`Undefined`); the calendar
of `Lifecycle` has a session; a file of confirmed events has a row (an empty one is refused).

Every theorem `[]P` of a `Spec` follows one pattern: an invariant is stated beside the theorem, TLC has checked it on the
run of the module, and three facts are proved: `Init` implies it, each action and a stutter keep it, and it implies `P`.
Below, what the invariant adds to `P` and why that is needed.

| theorem | argument |
|---|---|
| `ModelRegistryProofs!TypeCorrect` | one case per action. The type holds two relations the rest needs: a row has a version exactly when it exists, and what a session is about to retire exists |
| `OneChampionAlways` | inductive with the type: `set_status` locks and retires every other champion of the strategy in the same action, a registration makes none |
| `VersionsAreUniqueAlways` | inductive with the type: only the insert gives a version, and the unique key refuses a taken one |
| `LogTellsStatusAlways` | every action leaves `db` alone or appends the rows of all models whose status it changes (`StepShape`, `LogStep`) |
| `HeldOutUseIsRecordedAlways` | not inductive: a session decides to record the use several steps before it starts a shadow. `HeldOutInv` adds what a session in between knows: past the recording, `late` implies `consumed`, and what it starts is what it registered |
| `ChampionsAreEarnedAlways` | not inductive: a comparison reads a status several commits before the promotion it leads to. `EarnedInv` adds that what a session will promote was in shadow in the part of the log it has read, that what it will restore is in the log already, and that who lost a title was logged with it; the log only grows |
| `RegistryIsConsistentAlways` | type, champions and versions together, as the run states them |
| `SchedulerProofs!TypeCorrect` | one case per action |
| `OneJobAtATimeAlways` | from `LockInv`: a container that runs a job holds the lock |
| `StateIsWholeAlways`, `DoneIsDoneAlways` | for one container, from `AloneInv`: what it has read agrees with the file on every job still to do, and a save renames only what is completely written |
| `StateFileIsSoundAlways` | the type and the whole file together, as the run states them |
| `SlotsAreServedAlways`, `RunsAreOwedAlways` | for one container, from `OwedInv`, which follows a job from the poll to the rename: what is planned is allowed by what was read (`PlanOK`), tries are counted (`CountOK`), a poll's jobs are to do, in hand or recorded (`ServedOK`), and what really ran differs from the file by one record per kill at most (`Told`) |
| `UniverseSyncProofs!TypeCorrect` | one case per stage of a row and per command |
| `TickersAreUniqueAlways`, `SymbolsAreDisjointAlways` | from `Inv`: both hold of the tables and of the copy a rollback restores, and opening, closing and moving an interval keep them |
| `IdentitiesAreSoundAlways` | the three of `UniverseSync` together, as the run states them |
| `DelistedHasNoTickerAlways` | from `TerminalInv`: a delisting stands open and alone and after every ticker of its instrument, and only a delisted instrument has no open ticker; the same of the copy a rollback restores |
| `HistoryIsNotRewrittenAlways` | from `HistoryInv`: during a transaction the days before its date read as at its start, a row it read as open is open or closed by this transaction, and no instrument is lost. One lemma (`CutStands`) serves the three tables of intervals |
| `RecordIsConsistentAlways` | under `OneRecord`. `SyncInv` follows a transaction: the open rows it read at its start are still those of every instrument no row has settled (`ReadsStand`), since a tidy file comes to an instrument once unless it is delisted (`RowsHandled`); every day in a table is the first or was logged (`DaysTold`), so a snapshot after the latest event comes after every row (`UpTo`). A member has a ticker on each of its days (`Covered`), but for the membership of an instrument just delisted, from the moment its ticker is closed until its row ends it too (`Doomed`, `TickersStand`). One lemma (`CutFits`) serves the three tables; `LeaversAreAudited`, `JoinerIsAudited` and `WeightIsAudited` relate each change of a membership to its entry in the log |
| `SnapshotTakesHoldAlways` | under `OneRecord`, from `AppliedInv`, which says what an applied file looks like row by row (`AppliedTo`: an instrument listed, trading and a member as its row says, or a ticker that has ceased with its last holder delisted), of the rows behind the one in hand and of the last file committed. A row behind stands because the row in hand touches one instrument, and only an open row of it or the listed ticker (`Shifts`, `RowStays`); at the end who is still a member was handled, so is listed. A repeat finds at each stage the state the row asks for, so no stage has anything to do or to refuse (`RepeatStep`) |
| `EngineProofs!TypeCorrect`, `StopIsHonouredAlways` | from `EngineInv`: which variables are idle in which phase, no two waiting orders of a side for one instrument, lots of different sessions, and the stops of the positions the exit phase has been through |
| `StopNeverFallsAlways` | an action property, from `EngineInv`: a buy takes the larger stop, a first target the larger of the stop and the cost |
| `OneOrderEachAlways`, `TimeExitAlways` | for `DatedAreFlat`, from `DatesOK`: an instrument with a date awaits no buy while it is held or on sale, and is on sale for all there is |
| `KillSellsEverythingAlways` | for `COOLDOWN <= MAX_SELL + 1`, from `KillOK`: while killed nothing is to be bought, and what is held is on sale until the cooldown ends |
| `ExitsAreHonouredAlways` | the three exits together, under the hypotheses of both and `SETTLE > 0` |
| `SlotsAreBoundedAlways`, `OrdersFitTheBookAlways` | for `OneGroupEach`: a buy is ordered only under the caps, filling one turns a waiting instrument into a held one, and a position keeps the group of its order |
| `ImplementsAccountAlways` | the refinement: shares by session of purchase, cash and session map each step of `Engine` to one of `Account` or to a stutter; FIFO (`Removed`) is shown to take nothing from a lot while an older one is left, and never more than is settled |
| `PaperRecordProofs!TypeCorrect`, `PastStandsAlways` | from `RecordInv`: the calendar grows at its end only and decisions come in the order of their sessions, so what the replay says of a session it says ever after (`ReplayStands`) |
| `TablesTellTheDecisionsAlways` | `Progress` follows a run from step to step: what each table holds once its step is over in a run nothing failed in. The statuses need more: a card settled by an earlier run is settled by the replay too, as its past stands (`SettledIsSettled`, `StatusTells`) |
| `BookFollowsTheTargetsAlways` | each row of the target book has members at the rebalance's weight after its last tranche, and names off its roll at most at their weight of the row before (`RowIsSound`, from `StepsBetween`). Under `next_rebalance` a session writes at most one row, so the row before is the book before; after the last tranche the latest decision before the next session is that row |
| `DataPipelineProofs!TypeCorrect`, `NoSpliceAlways` | from `DataInv`. The overlap window needs two facts of every stock, ingested or not: its bars mirror the vendor's but for dates known to be out of sight, or all of them have drifted beyond the tolerance, so that any window shows it (`DriftShows`); and the vendor still serves what is stored |
| `CardsAreTraceableAlways` | a rewrite has a second of its own and keeps the old value, so what a past moment reads never changes (`RevisionsAreDated`, `CardsAreTrue`) |
| `DerivedTablesAgreeAlways` | once the calendar is rebuilt nothing is ingested until the next job (`CalendarFollows`); the same of the alerts for a job whose last step writes them |
| `DataPipelineProofs!QualityTypeCorrect`, `FactorsFollowTheActionsAlways` | from `QualityInv`: only gaps are ever rejected, and a file names no gap, so a run of the checks cannot touch what is confirmed and a file confirms only what it names |
| `FindingsTellTheDataAlways`, `NothingIsUndoneAlways` | from the same invariant: a file that rejects a candidate takes it from both sides of the equation, and an alert acknowledged by hand changes no status |
| `OperationsProofs!VersionsAreTrueAlways` | from `DatasetsInv`: a frame in memory was computed under the stored definition, which nobody replaces; a number that is still free is the next one; a hash is of the content it stands for |
| `OperationsProofs!BackupTypeCorrect` | dumps are numbered as they are taken, at most `PerDay` a day (`NumbersSuffice`) |
| `RetentionIsPathIndependentAlways` | not inductive: a prune sees only what earlier ones left. `RetentionOK` adds that the days that must be kept of all days ever dumped have a dump, also once a prune under way has deleted the rest. A new dump makes no given-up day wanted again (`EssentialGrows`), and a prune of any set that has the wanted days keeps those and no others (`PruneKeeps`, from `NewestAmong`: a subset that has the newest of a set has the same newest) |
| `BackupsAreUsableAlways` | from the same invariant: the last dump of a recent day is among what remains, a checksum goes after its dump |
| `ResearchProofs!HeldOutTypeCorrect`, `ShutWithoutAPassAlways` | what a command scores, and what else of the family had run, was chosen among verdicts that stood when it opened the period; verdicts are only added to the history (`ScoredHavePassed`, `PayloadsAreFinished`) |
| `SecondRevealsOverlapAlways` | a command that will record has seen a list without its period, and the list only grows (`RecordersHaveLooked`, `RevealsHaveLooked`) |
| `TargetsAreSettledAlways` | from `FoldsInv`: the two histories are alike up to the fork, and a study is made of a whole one. A label that is known by a session is a matter of the bars up to it (`LabelStands`), because the walk along the barriers is told without its steps by the first session that touches one (`TouchedIsTold`); and what a fold fits, tunes and calibrates on ends before its window (`SplitIs`) |
| `FirstTouchDecidesAlways` | the same `TouchedIsTold`, with prices in order within a bar: a session that opens beyond a barrier leaves at its open, which is within its range |
| `CardsCanBeTradedAlways` | a rounded price lies in the part of the ladder its step belongs to, or is the first price of the next part (`Rounded`), so whatever `round_down` and `round_up` give is a price; the band's floor is the least price at or above it, hence at most a trigger above the close (`LeastAbove`); the rest is what the builders refuse (`LevelsAre`), and a rescale keeps the levels (`FittedIs`) |
| `LimitsHoldAlways` | from `CardsInv`: what the aggregator counts of a limit is never less than the sum over its cards (`AccOK`), also when a card is there already; a weight on its way is between two targets in proportion, and the inequality of each name adds up (`OnTheWay`, `LinearSums`) |
| `LifecycleTypeCorrect`, `MonthsAreServedOnceAlways` | a month that is over starts nothing, so the bounds are carried through the present one only: there every challenger but one in shadow was settled in it, and every attempt but one was not recorded |

Assumptions on the constants are named in the modules that declare them (`…Constants`, `FoldConstants`); TLC evaluates
them in the runs. `FoldConstants` says of the market what `repair_ohlc` sees to (`features/data.py`): low, open and high
of a bar are in order. Of the plans it asks for positive windows: `make_folds` refuses others, a step of zero
is the test window, and a validation window of zero, which nothing refuses, would leave nothing to fit (125 by default).
`CardConstants` says that a price at which the step changes is a multiple of both steps (`tick_size_vnd` of
`config/default.yaml`), that the high of 20 sessions, which counts today's, is not below today's close, and that
`min_rr` is at least its default of 1.5; nothing enforces the last, and a card's worth is stated with it.

Hypotheses of single theorems, and why the code has them:

- One container (`Containers = {c}`) for the theorems about the state file: `docs/DEPLOY.md` runs one. With two the
  state is read before the lock is awaited, and `RunsAreOwed` fails.
- `OneRecord`, of `RecordIsConsistentAlways` and `SnapshotTakesHoldAlways`: one universe (with several, a snapshot of one may be dated before events of
  another, and the tickers are shared), no `instrument` commands (they take any date, so a later snapshot may come
  before one of them), and tidy files: no ticker is listed beside a rename from it, delisted rows come first, and no
  membership is dated before `history_floor`. The first two conditions on files exclude the two divergences of section 4;
  the third a backfill before the first day of every ticker. The files of runs `universe` and `universe_events` are tidy
  (`FilesAreTidy`), and run `universe` has one universe and no commands.
- `DatedAreFlat`: every strategy of the repository that gives a holding period buys a name only when it holds none. A
  strategy that dates a name and adds to it can have a time-stop beside a buy that waits.
- `OneGroupEach`: the sleeves of the paper record are virtual columns (`reco/backtest.py`), so a column has one group.
- `COOLDOWN <= MAX_SELL + 1`: the defaults are 21 and 20. Nothing enforces it, and beyond it a sell can lapse before the
  cooldown has ended. `SETTLE > 0`: T+2.

The quantities in these proofs are recursive functions on numbers and sets (shares of lots, totals over instruments,
filtered sequences). What they satisfy is proved by a least counterexample: the set of arguments at which the fact fails
has a smallest member, which the recursion refutes. This replaces the library's induction theorems, which take an
operator and cannot be instantiated by the installed backends. It does not reach `RECURSIVE` operators: `Fractions`
declares one (Euclid's), so `Features` and `Signals` stay with TLC.

Only model-checked:

- `Features`, `Signals`.
- Liveness (`EveryTickEnds`): fairness needs `ENABLED`, which the prover does not handle.

## 6. What is not modelled

`PROJECT.json` lists each component with its reason. Reports, parsing, schema migrations, deployment and the lines of
crontab change none of the state modelled; fitting, tuning, calibration, bootstrap and metrics are numeric, and a
verdict or a score is a free choice where they decide one. Within the modelled components:

- `PaperRecord`: alerts, `paper init`, prices, and the shadow, monitor and report steps that follow.
- `DataPipeline`: benchmarks, intraday bars, the price basis, the client's retries, columns other than the close, two
  writes within one second, a start after the end of a range.
- `DataQuality`: the checks of one series and the arithmetic of a gap (inputs), `set_price_basis`, the adjusted view.
- `Lifecycle`: contents of monitoring, reference windows and outcome statistics, and their alerts.
- `Features`: the look-ahead audit, validation of the registry, fundamentals, rescales at a date still ahead, padding of
  missing values in a change; `liquidity` version 1 is in no checked set.
- `WalkForward`: a bar without an open (`repair_ohlc` drops an open outside the range), whose trade leaves at the barrier.
- `Cards`: the kill state, open risk and holdings that `aggregate` accepts and no caller passes; `gate_on_verdict`
  (default off); `save_live_cards`, scenario prices, evidence and texts.
- `Signals`: risk parity, minimum variance and hierarchical risk parity (represented by inverse variance), random
  baselines, the average of two momentum ranks.

## 7. Plan

The order follows what would hurt most: who serves (registry), when things run (scheduler), the dates all rests on
(universe), the money (engine, paper record), then the data, the daily operations and the research. All of these are built.
What is left, in order:

1. Proofs: `PaperRecord` as an implementation of an abstract log of decisions.
2. Composition: the cards of `Cards` as the signals of `Engine`, and the registrations of `HeldOut` as those of
   `ModelRegistry`.
3. The checks of one series in `data/quality.py` and the alerts of monitoring, as pure operators.

New questions replace weaker ones: a property that a theorem already covers in full leaves the runs first.
