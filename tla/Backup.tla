------------------------------- MODULE Backup -------------------------------
(***************************************************************************)
(* The dumps of the database (paper/backup.py): taken, given a checksum,   *)
(* pruned by day and by week, and read back by the restore test, with the  *)
(* process killed between any two operations on the files.                 *)
(*                                                                         *)
(* A dump is the day of its time stamp and its place among the dumps ever  *)
(* taken; a week has DaysPerWeek days.  One process works at a time: the   *)
(* backup and the restore test are started under one lock.                 *)
(***************************************************************************)
EXTENDS Integers, FiniteSets, FiniteSetsExt

CONSTANTS
    daily_keep, weekly_keep, \* backup.daily_keep, backup.weekly_keep
    DaysPerWeek,
    LastDay, PerDay, MaxKills \* bounds

ASSUME BackupConstants ==
    /\ {daily_keep, DaysPerWeek, LastDay} \subseteq Nat \ {0}
    /\ {weekly_keep, PerDay, MaxKills} \subseteq Nat

VARIABLES
    date,       \* UTC day of the clock
    dumps,      \* the complete *.sql.gz files
    sides,      \* the dumps that have their *.sha256 file
    part,       \* a *.part file is there
    worker,     \* the process: step, what it is for, its dump, what it deletes
    taken,      \* aux: every dump ever listed
    torn,       \* aux: dumps whose process was killed before the checksum
    pruned      \* aux: the last process ran its prune to the end

backupVars == <<date, dumps, sides, part, worker, taken, torn, pruned>>

Nobody == [step |-> "none", goal |-> "none", file |-> <<0, 0>>, doomed |-> {}]

Files == (1 .. LastDay) \X (1 .. LastDay * PerDay)

BackupTypeOK ==
    /\ date \in 1 .. LastDay
    /\ dumps \subseteq Files /\ sides \subseteq Files /\ part \in BOOLEAN
    /\ worker \in [step : {"none", "dumping", "named", "written", "deleting", "half"},
                   goal : {"none", "keep", "prune", "restore"},
                   file : Files \union {<<0, 0>>}, doomed : SUBSET Files]
    /\ taken \subseteq Files /\ torn \subseteq Files /\ pruned \in BOOLEAN

BackupInit ==
    /\ date = 1 /\ dumps = {} /\ sides = {} /\ part = FALSE /\ worker = Nobody
    /\ taken = {} /\ torn = {} /\ pruned = FALSE

-----------------------------------------------------------------------------
(* Retention.                                                              *)

Earlier(f, g) == f[2] < g[2]
Week(f) == (f[1] - 1) \div DaysPerWeek

\* mutant: the first dump of the day wins
FirstOfDay(fs) == {f \in fs : \A g \in fs : g[1] = f[1] => ~ Earlier(g, f)}

\* by_day: the last dump of the day wins.
LatestOfDay(fs) == {f \in fs : \A g \in fs : g[1] = f[1] => ~ Earlier(f, g)}

\* The members of fs with at most n - 1 others of a greater rank.
Newest(fs, n, rank) == {f \in fs : Cardinality({rank[g] : g \in {h \in fs : rank[h] > rank[f]}}) < n}

KeptDaily(fs) == Newest(LatestOfDay(fs), daily_keep, [f \in fs |-> f[1]])

\* mutant: the weeks also count the days the daily rule keeps
KeptWeeklyOfAll(fs) ==
    Newest({f \in fs : \A g \in fs : Week(g) = Week(f) => ~ Earlier(g, f)}, weekly_keep,
           [f \in fs |-> Week(f)])

\* weeks: the oldest dump of each week, of the days the daily rule does not keep.
KeptWeekly(fs) ==
    LET days == {f[1] : f \in KeptDaily(fs)}
        rest == {f \in fs : f[1] \notin days}
    IN  Newest({f \in rest : \A g \in rest : Week(g) = Week(f) => ~ Earlier(g, f)}, weekly_keep,
           [f \in fs |-> Week(f)])

Keep(fs) == KeptDaily(fs) \union KeptWeekly(fs)

verify(f) == f \in sides

-----------------------------------------------------------------------------
(* The processes.                                                          *)

NextDay ==
    /\ worker = Nobody /\ date < LastDay
    /\ date' = date + 1
    /\ UNCHANGED <<dumps, sides, part, worker, taken, torn, pruned>>

\* dump: mysqldump writes a .part file.
DumpStarts(goal) ==
    /\ worker = Nobody
    /\ Cardinality({f \in taken : f[1] = date}) < PerDay
    /\ part' = TRUE
    /\ worker' = [step |-> "dumping", goal |-> goal, file |-> <<date, Cardinality(taken) + 1>>, doomed |-> {}]
    /\ pruned' = FALSE
    /\ UNCHANGED <<date, dumps, sides, taken, torn>>

\* mysqldump fails: the .part file is deleted and nothing is pruned.
DumpFails ==
    /\ worker.step = "dumping"
    /\ part' = FALSE /\ worker' = Nobody
    /\ UNCHANGED <<date, dumps, sides, taken, torn, pruned>>

\* A complete dump gets its name at once: it is complete or absent.
DumpIsNamed ==
    /\ worker.step = "dumping"
    /\ part' = FALSE
    /\ dumps' = dumps \union {worker.file} /\ taken' = taken \union {worker.file}
    /\ worker' = [worker EXCEPT !.step = "named"]
    /\ UNCHANGED <<date, sides, torn, pruned>>

\* The checksum is written, and with --prune the files to delete are chosen.
ChecksumIsWritten ==
    /\ worker.step = "named"
    /\ sides' = sides \union {worker.file}
    /\ worker' = [worker EXCEPT !.step = IF worker.goal = "prune" THEN "deleting" ELSE "written",
                                !.doomed = IF worker.goal = "prune" THEN dumps \ Keep(dumps) ELSE {}]
    /\ UNCHANGED <<date, dumps, part, taken, torn, pruned>>

\* A pruned dump goes first, its checksum after it; oldest first.
PruneUnlinks ==
    /\ worker.step = "deleting" /\ worker.doomed # {}
    /\ \E f \in worker.doomed :
        /\ \A g \in worker.doomed : ~ Earlier(g, f)
        /\ dumps' = dumps \ {f}
        /\ worker' = [worker EXCEPT !.step = "half", !.file = f, !.doomed = @ \ {f}]
    /\ UNCHANGED <<date, sides, part, taken, torn, pruned>>

PruneUnlinksSide ==
    /\ worker.step = "half"
    /\ sides' = sides \ {worker.file}
    /\ worker' = [worker EXCEPT !.step = "deleting"]
    /\ UNCHANGED <<date, dumps, part, taken, torn, pruned>>

PruneEnds ==
    /\ worker.step = "deleting" /\ worker.doomed = {}
    /\ worker' = Nobody /\ pruned' = TRUE
    /\ UNCHANGED <<date, dumps, sides, part, taken, torn>>

\* A backup without --prune, or a restore test of the dump just taken, ends; the
\* scratch database is dropped whatever the comparison says.
DumpEnds ==
    /\ worker.step = "written" /\ (worker.goal = "restore" => verify(worker.file))
    /\ worker' = Nobody
    /\ UNCHANGED <<date, dumps, sides, part, taken, torn, pruned>>

\* The process is killed: no `finally` runs.
Killed ==
    /\ worker # Nobody /\ Cardinality(torn) < MaxKills
    /\ worker' = Nobody
    /\ torn' = IF worker.step = "named" THEN torn \union {worker.file} ELSE torn
    /\ UNCHANGED <<date, dumps, sides, part, taken, pruned>>

BackupNext ==
    \/ NextDay
    \/ \E goal \in {"keep", "prune", "restore"} : DumpStarts(goal)
    \/ DumpFails \/ DumpIsNamed \/ ChecksumIsWritten
    \/ PruneUnlinks \/ PruneUnlinksSide \/ PruneEnds \/ DumpEnds
    \/ Killed

BackupSpec == BackupInit /\ [][BackupNext]_backupVars

-----------------------------------------------------------------------------
(* Properties.                                                             *)

Days(fs) == {f[1] : f \in fs}

RecentDays == {d \in Days(taken) : Cardinality({e \in Days(taken) : e > d}) < daily_keep}
OldDays == Days(taken) \ RecentDays
WeekOf(d) == (d - 1) \div DaysPerWeek
WeekStarts ==
    {d \in OldDays :
        /\ \A e \in OldDays : WeekOf(e) = WeekOf(d) => d <= e
        /\ Cardinality({WeekOf(e) : e \in {x \in OldDays : WeekOf(x) > WeekOf(d)}}) < weekly_keep}

\* The retention of backup.py, said of every dump ever taken: whatever days were
\* missed, and whichever prunes were interrupted, a prune that ends leaves the
\* newest days and the first day of the newest older weeks; none has deleted
\* what a later one had to keep.
RetentionIsPathIndependent == pruned => Days(dumps) = RecentDays \union WeekStarts

\* What is listed can be restored: a dump without its checksum is being written
\* or its process was killed at that point; and no prune, whole or interrupted,
\* takes the last dump of a recent day.
BackupsAreUsable ==
    /\ \A f \in dumps : verify(f) \/ f \in torn \/ (worker.step = "named" /\ f = worker.file)
    /\ \A f \in taken : f[1] \in RecentDays /\ (\A g \in taken : g[1] = f[1] => ~ Earlier(f, g))
          => f \in dumps
=============================================================================
