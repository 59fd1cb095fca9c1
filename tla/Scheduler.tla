----------------------------- MODULE Scheduler -----------------------------
(***************************************************************************)
(* The container's scheduler (paper/scheduler.py): a loop that polls the   *)
(* clock, reads logs/scheduler_state.json, runs what is due as child       *)
(* processes under the lock logs/.jobs.lock and records the outcome.       *)
(*                                                                         *)
(* The state is read before the lock is taken and saved after it is        *)
(* released, so a tick is cut at the lock, at the child's start and end    *)
(* and at the three steps of the save: open (truncates) the shared .tmp    *)
(* file, write it, rename it.  Several containers may share the logs       *)
(* directory; a container may be killed at any step, with its child.       *)
(*                                                                         *)
(* Time is a day and a slot of the day.  A slot is shorter than the retry  *)
(* pause and longer than poll_seconds: the clock leaves a slot only when   *)
(* every container that is asleep has polled in it.  What takes time is a  *)
(* child, or the wait for another's: the scheduler's own code takes none.  *)
(***************************************************************************)
EXTENDS Naturals

CONSTANTS
    Containers,    \* schedulers that share the logs directory
    Jobs,          \* daily, backup, restore_test
    Rank,          \* their order in the dict of jobs()
    At,            \* slot of the day at which a job becomes due
    CronDays,      \* day-of-week field, as a set of ranges <<from, to>>
    Slots,         \* slots in a day
    MAX_TRIES,
    RETRY,         \* RETRY_MINUTES, in slots
    NoOne,         \* nobody holds the lock
    Torn,          \* a file that does not parse: opened and not written
    Absent,        \* no such file
    MaxDay,        \* bound of the checked instances: last day
    MaxCrashes     \* bound of the checked instances: kills

ASSUME ScheduleAssumption ==
    /\ Rank \in [Jobs -> Nat]
    /\ \A i, j \in Jobs : Rank[i] = Rank[j] => i = j
    /\ At \in [Jobs -> Nat]
    /\ CronDays \in [Jobs -> SUBSET (Nat \X Nat)]
    /\ Slots \in Nat \ {0} /\ MAX_TRIES \in Nat \ {0} /\ RETRY \in Nat \ {0}
    /\ Jobs # {} /\ NoOne \notin Containers /\ Absent # Torn
    /\ MaxDay \in Nat /\ MaxCrashes \in Nat

VARIABLES
    day, slot,    \* the wall clock
    polled,       \* containers that ticked in this slot
    file,         \* logs/scheduler_state.json
    tmp,          \* logs/scheduler_state.tmp, one name for every container
    held,         \* owner of logs/.jobs.lock
    pc,           \* where each container is
    tick,         \* the day and slot at which its tick began (`now`)
    mem,          \* the state it loaded then and updates (`state`)
    todo,         \* the due jobs it has not begun
    cur,          \* the job it is at, its try and, once ended, its outcome
    fd,           \* the file its open descriptor writes to
    tally,        \* history: what really ran, per job, on its latest day
    crashes

clock == <<day, slot>>
files == <<file, tmp, fd>>
local == <<tick, mem, todo>>
schedulerVars == <<clock, polled, files, held, pc, local, cur, tally, crashes>>

-----------------------------------------------------------------------------
(* Types *)

Entry == [day: Nat, ok: BOOLEAN, tries: Nat, last: Nat]

\* An entry of no date is no entry: day 0 is before the first.
NoEntry == [day |-> 0, ok |-> FALSE, tries |-> 0, last |-> 0]
State == [Jobs -> Entry]
Empty == [j \in Jobs |-> NoEntry]
ASSUME FilesAssumption == Torn \notin State /\ Absent \notin State

Cur == [job: Jobs, tries: Nat, ok: BOOLEAN]
Stages == {"down", "asleep", "working", "waiting", "running",
           "recording", "opening", "writing", "renaming"}
Tally == [day: Nat, starts: Nat, won: BOOLEAN, begun: Nat]

SchedulerTypeOK ==
    /\ day \in Nat \ {0} /\ slot \in Nat /\ crashes \in Nat
    /\ polled \subseteq Containers
    /\ file \in State \union {Torn, Absent} /\ tmp \in State \union {Torn, Absent}
    /\ held \in Containers \union {NoOne}
    /\ pc \in [Containers -> Stages]
    /\ tick \in [Containers -> [day: Nat, slot: Nat]]
    /\ mem \in [Containers -> State]
    /\ todo \in [Containers -> SUBSET Jobs]
    /\ cur \in [Containers -> Cur]
    /\ fd \in [Containers -> {"closed", "tmp", "state", "unlinked"}]
    /\ tally \in [Jobs -> Tally]

-----------------------------------------------------------------------------
(* What is due *)

\* cron's 0 and 7 are Sunday; Monday is Python's 0.
Weekdays(spec) == UNION {{(d + 6) % 7 : d \in r[1]..r[2]} : r \in spec}

RetryDone(s, t) == s.tries < MAX_TRIES /\ t >= s.last + RETRY      \* mutant
CanRetry(s, t) == ~s.ok /\ s.tries < MAX_TRIES /\ t >= s.last + RETRY

OnTheDot(j, d, t) == d % 7 \in Weekdays(CronDays[j]) /\ t = At[j]  \* mutant
Scheduled(j, d, t) == d % 7 \in Weekdays(CronDays[j]) /\ t >= At[j]

DueJobs(state, d, t) ==
    {j \in Jobs : /\ Scheduled(j, d, t)
                  /\ \/ state[j].day # d
                     \/ CanRetry(state[j], t)}

\* load_state: a missing or unreadable file is an empty state.
Loaded == IF file \in {Torn, Absent} THEN Empty ELSE file

\* run_job's try number.
Try(prev, today) == IF prev.day = today THEN prev.tries + 1 ELSE 1

-----------------------------------------------------------------------------
(* One turn of run_forever *)

\* tick: read the state, list what is due.
Tick(c) ==
    /\ pc[c] = "asleep"
    /\ tick' = [tick EXCEPT ![c] = [day |-> day, slot |-> slot]]
    /\ mem' = [mem EXCEPT ![c] = Loaded]
    /\ todo' = [todo EXCEPT ![c] = DueJobs(Loaded, day, slot)]
    /\ pc' = [pc EXCEPT ![c] = "working"]
    /\ polled' = polled \union {c}
    /\ UNCHANGED <<clock, files, held, cur, tally, crashes>>

\* run_job up to the lock: the try number comes from the loaded state.
Begin(c, j) ==
    /\ pc[c] = "working" /\ j \in todo[c]
    /\ \A k \in todo[c] : Rank[j] <= Rank[k]
    /\ cur' = [cur EXCEPT ![c] = [job |-> j, tries |-> Try(mem[c][j], tick[c].day), ok |-> FALSE]]
    /\ todo' = [todo EXCEPT ![c] = @ \ {j}]
    /\ pc' = [pc EXCEPT ![c] = "waiting"]
    /\ UNCHANGED <<clock, polled, files, held, tick, mem, tally, crashes>>

\* History of the runs; the count stops above every bound on it.
Started(c) ==
    LET r == tally[cur[c].job]
        again == r.day = tick[c].day
    IN [tally EXCEPT ![cur[c].job] =
           [day |-> tick[c].day, begun |-> tick[c].slot,
            won |-> again /\ r.won,
            starts |-> IF ~again THEN 1
                       ELSE IF r.starts > MAX_TRIES + MaxCrashes THEN r.starts ELSE r.starts + 1]]

\* flock(LOCK_EX) returns and the child starts.
AnyTime == TRUE                                                     \* mutant
Free == held = NoOne
Acquire(c) ==
    /\ pc[c] = "waiting" /\ Free
    /\ held' = c
    /\ pc' = [pc EXCEPT ![c] = "running"]
    /\ tally' = Started(c)
    /\ UNCHANGED <<clock, polled, files, local, cur, crashes>>

StillLocked == held                                                 \* mutant
Unlocked == NoOne

\* The child ends; closing the lock file releases the lock.
Finish(c, ok) ==
    /\ pc[c] = "running"
    /\ cur' = [cur EXCEPT ![c] = [job |-> @.job, tries |-> @.tries, ok |-> ok]]
    /\ held' = Unlocked
    /\ pc' = [pc EXCEPT ![c] = "recording"]
    /\ tally' = [tally EXCEPT ![cur[c].job] =
                    [day |-> @.day, starts |-> @.starts, begun |-> @.begun,
                     won |-> @.won \/ ok]]
    /\ UNCHANGED <<clock, polled, files, local, crashes>>

\* run_job writes the entry: the day and time are those of the tick.
Outcome(k, t) == [day |-> t.day, ok |-> k.ok, tries |-> k.tries, last |-> t.slot]
Record(c) ==
    /\ pc[c] = "recording"
    /\ mem' = [mem EXCEPT ![c][cur[c].job] = Outcome(cur[c], tick[c])]
    /\ pc' = [pc EXCEPT ![c] = "opening"]
    /\ UNCHANGED <<clock, polled, files, held, tick, todo, cur, tally, crashes>>

OpenState(c) ==                                                     \* mutant
    /\ pc[c] = "opening"
    /\ file' = Torn
    /\ fd' = [fd EXCEPT ![c] = "state"]
    /\ pc' = [pc EXCEPT ![c] = "writing"]
    /\ UNCHANGED <<clock, polled, tmp, held, local, cur, tally, crashes>>

\* save_state, write_text: open truncates whatever .tmp names ...
OpenTmp(c) ==
    /\ pc[c] = "opening"
    /\ tmp' = Torn
    /\ fd' = [fd EXCEPT ![c] = "tmp"]
    /\ pc' = [pc EXCEPT ![c] = "writing"]
    /\ UNCHANGED <<clock, polled, file, held, local, cur, tally, crashes>>

\* ... and the text goes to the opened file, wherever it has been renamed since.
WriteTmp(c) ==
    /\ pc[c] = "writing"
    /\ tmp' = IF fd[c] = "tmp" THEN mem[c] ELSE tmp
    /\ file' = IF fd[c] = "state" THEN mem[c] ELSE file
    /\ fd' = [fd EXCEPT ![c] = "closed"]
    /\ pc' = [pc EXCEPT ![c] = "renaming"]
    /\ UNCHANGED <<clock, polled, held, local, cur, tally, crashes>>

Follow(f) == IF f = "tmp" THEN "state" ELSE IF f = "state" THEN "unlinked" ELSE f

\* save_state, replace.
Rename(c) ==
    /\ pc[c] = "renaming" /\ tmp # Absent
    /\ file' = tmp /\ tmp' = Absent
    /\ fd' = [d \in Containers |-> Follow(fd[d])]
    /\ pc' = [pc EXCEPT ![c] = "working"]
    /\ UNCHANGED <<clock, polled, held, local, cur, tally, crashes>>

\* Another container has renamed the shared .tmp: FileNotFoundError leaves tick,
\* run_forever prints it and goes to sleep; the jobs left are dropped.
RenameFails(c) ==
    /\ pc[c] = "renaming" /\ tmp = Absent
    /\ todo' = [todo EXCEPT ![c] = {}]
    /\ pc' = [pc EXCEPT ![c] = "asleep"]
    /\ UNCHANGED <<clock, polled, files, held, tick, mem, cur, tally, crashes>>

TickEnds(c) ==
    /\ pc[c] = "working" /\ todo[c] = {}
    /\ pc' = [pc EXCEPT ![c] = "asleep"]
    /\ UNCHANGED <<clock, polled, files, held, local, cur, tally, crashes>>

-----------------------------------------------------------------------------
(* The environment *)

\* The container is killed: its child and its lock go with it.
Crash(c) ==
    /\ pc[c] # "down" /\ crashes < MaxCrashes
    /\ crashes' = crashes + 1
    /\ pc' = [pc EXCEPT ![c] = "down"]
    /\ todo' = [todo EXCEPT ![c] = {}]
    /\ fd' = [fd EXCEPT ![c] = "closed"]
    /\ held' = IF held = c THEN NoOne ELSE held
    /\ polled' = polled \ {c}
    /\ UNCHANGED <<clock, file, tmp, tick, mem, cur, tally>>

\* restart: unless-stopped; the database answers and the loop begins.
Start(c) ==
    /\ pc[c] = "down"
    /\ pc' = [pc EXCEPT ![c] = "asleep"]
    /\ UNCHANGED <<clock, polled, files, held, local, cur, tally, crashes>>

Asleep == {c \in Containers : pc[c] = "asleep"}

Pass ==
    /\ Asleep \subseteq polled
    /\ \A c \in Containers : pc[c] \in {"asleep", "down", "waiting", "running"}
    /\ IF slot + 1 < Slots
       THEN slot' = slot + 1 /\ day' = day
       ELSE slot' = 0 /\ day' = day + 1 /\ day < MaxDay
    /\ polled' = {}
    /\ UNCHANGED <<files, held, pc, local, cur, tally, crashes>>

-----------------------------------------------------------------------------
(* The specification *)

SchedulerInit ==
    /\ day = 1 /\ slot = 0 /\ polled = {} /\ crashes = 0
    /\ file = Absent /\ tmp = Absent /\ held = NoOne
    /\ pc = [c \in Containers |-> "asleep"]
    /\ tick = [c \in Containers |-> [day |-> 1, slot |-> 0]]
    /\ mem = [c \in Containers |-> Empty]
    /\ todo = [c \in Containers |-> {}]
    /\ cur = [c \in Containers |-> [job |-> CHOOSE j \in Jobs : TRUE, tries |-> 0, ok |-> FALSE]]
    /\ fd = [c \in Containers |-> "closed"]
    /\ tally = [j \in Jobs |-> [day |-> 0, starts |-> 0, won |-> FALSE, begun |-> 0]]

Turn(c) ==
    \/ \E j \in Jobs : Begin(c, j)
    \/ \E ok \in BOOLEAN : Finish(c, ok)
    \/ Record(c) \/ OpenTmp(c) \/ WriteTmp(c)
    \/ Rename(c) \/ RenameFails(c) \/ TickEnds(c)

SchedulerNext ==
    \/ Pass
    \/ \E c \in Containers : Tick(c) \/ Acquire(c) \/ Turn(c) \/ Crash(c) \/ Start(c)

SchedulerSpec == SchedulerInit /\ [][SchedulerNext]_schedulerVars

\* A container that is up keeps going; a child ends (each job is a finite
\* sequence of bounded calls); a waiter gets the lock if it keeps coming free.
FairSpec ==
    /\ SchedulerSpec
    /\ \A c \in Containers : WF_schedulerVars(Turn(c)) /\ SF_schedulerVars(Acquire(c))

-----------------------------------------------------------------------------
(* Safety *)

\* run_job's docstring: only one job at a time, also across containers that
\* share the logs directory.
OneJobAtATime ==
    \A c, d \in Containers : pc[c] = "running" /\ pc[d] = "running" => c = d

\* The state file always parses: a kill in the middle of a save leaves the old
\* state, never a torn one (save_state writes aside and renames).  One container.
StateIsWhole == file # Torn

\* Catch-up (docstring): once an idle container has polled, every job whose time
\* has passed today has been run today, however late the container came up and
\* whatever happened before.  One container.
Ought(j) == /\ day % 7 \in UNION {{(d + 6) % 7 : d \in r[1]..r[2]} : r \in CronDays[j]}
            /\ slot >= At[j]
NothingIsForgotten ==
    \A c \in Asleep \cap polled : \A j \in Jobs :
        Ought(j) => file # Absent /\ file[j].day = day

\* At most max_tries a day, counted by what really ran; a kill before the try is
\* recorded costs at most one try more.  One container.
TriesAreBounded == \A j \in Jobs : tally[j].starts <= MAX_TRIES + crashes

Starts(c, j) == pc[c] = "waiting" /\ pc'[c] = "running" /\ cur[c].job = j
AgainToday(c, j) == Starts(c, j) /\ tally[j].day = tick[c].day

\* A job whose success of the day is in the state file is not run again that day,
\* across crashes and restarts.  One container.
NoneRecorded ==
    \A c \in Containers, j \in Jobs :
        Starts(c, j) => file = Absent \/ file[j].day # tick[c].day \/ ~file[j].ok
DoneIsDone == [][NoneRecorded]_schedulerVars

\* Two runs of a job on one day were decided at least RETRY apart, as long as
\* nothing is killed.  One container.
Paced ==
    \A c \in Containers, j \in Jobs :
        AgainToday(c, j) /\ crashes = 0 => tick[c].slot >= tally[j].begun + RETRY
TriesArePaced == [][Paced]_schedulerVars

\* Docstring: a job is due once per day when "it has not succeeded today": what
\* really ran, not what the file says, as long as nothing is killed.
NotWon == \A c \in Containers, j \in Jobs : AgainToday(c, j) /\ crashes = 0 => ~tally[j].won
NotAfterSuccess == [][NotWon]_schedulerVars

\* The state file is whole whenever the scheduler may read it, and what it says
\* has its type.  One container.
StateFileIsSound == SchedulerTypeOK /\ StateIsWhole

\* Every slot that was due is served, and not without end.  One container.
SlotsAreServed == NothingIsForgotten /\ TriesAreBounded

\* A run is started only when one is owed: not after a success of the day, as the
\* file tells it or as it really was, and not sooner than RETRY after the last.
RunsAreOwed == DoneIsDone /\ TriesArePaced /\ NotAfterSuccess

-----------------------------------------------------------------------------
(* Liveness *)

\* A tick ends, whoever holds the lock: the loop comes back to its heartbeat.
EveryTickEnds ==
    \A c \in Containers : (pc[c] # "asleep") ~> (pc[c] \in {"asleep", "down"})
=============================================================================
