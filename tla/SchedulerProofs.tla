-------------------------- MODULE SchedulerProofs --------------------------
(***************************************************************************)
(* What holds of the scheduler for any set of containers, jobs and any     *)
(* schedule; and of a single container, the deployment DEPLOY.md assumes.  *)
(***************************************************************************)
EXTENDS Scheduler, TLAPS

USE ScheduleAssumption

\* What Tick loads is a state, and every step that builds an entry builds one.
LEMMA LoadedType == SchedulerTypeOK => Loaded \in State
  BY DEF SchedulerTypeOK, Loaded, State, Empty, NoEntry, Entry

LEMMA EntryType ==
    ASSUME NEW k \in Cur, NEW t \in [day: Nat, slot: Nat]
    PROVE  Outcome(k, t) \in Entry
  BY DEF Outcome, Entry, Cur

LEMMA TryType ==
    ASSUME NEW e \in Entry, NEW d \in Nat
    PROVE  Try(e, d) \in Nat
  BY DEF Try, Entry

LEMMA StartedType ==
    ASSUME SchedulerTypeOK, NEW c \in Containers
    PROVE  Started(c) \in [Jobs -> Tally]
  BY SMTT(30) DEF SchedulerTypeOK, Started, Tally, Cur

\* Type correctness of every reachable state.
THEOREM TypeCorrect == SchedulerSpec => []SchedulerTypeOK
  <1>1. SchedulerInit => SchedulerTypeOK
    BY DEF SchedulerInit, SchedulerTypeOK, State, Empty, NoEntry, Entry, Cur, Tally, Stages
  <1>2. SchedulerTypeOK /\ [SchedulerNext]_schedulerVars => SchedulerTypeOK'
    <2> SUFFICES ASSUME SchedulerTypeOK, [SchedulerNext]_schedulerVars PROVE SchedulerTypeOK'
      OBVIOUS
    <2>1. ASSUME NEW c \in Containers, Tick(c) PROVE SchedulerTypeOK'
      <3>1. Loaded \in State
        BY LoadedType
      <3> QED
        BY <2>1, <3>1 DEF SchedulerTypeOK, Tick, clock, files, Stages, DueJobs
    <2>2. ASSUME NEW c \in Containers, NEW j \in Jobs, Begin(c, j) PROVE SchedulerTypeOK'
      <3>1. mem[c][j] \in Entry /\ tick[c].day \in Nat
        BY DEF SchedulerTypeOK, State
      <3>2. Try(mem[c][j], tick[c].day) \in Nat
        BY <3>1, TryType
      <3> QED
        BY <2>2, <3>2 DEF SchedulerTypeOK, Begin, clock, files, Stages, Cur
    <2>3. ASSUME NEW c \in Containers, Acquire(c) PROVE SchedulerTypeOK'
      <3>1. Started(c) \in [Jobs -> Tally]
        BY StartedType
      <3> QED
        BY <2>3, <3>1 DEF SchedulerTypeOK, Acquire, clock, files, local, Stages
    <2>4. ASSUME NEW c \in Containers, NEW ok \in BOOLEAN, Finish(c, ok) PROVE SchedulerTypeOK'
      <3>1. cur'[c] \in Cur /\ cur' \in [Containers -> Cur]
        BY <2>4 DEF SchedulerTypeOK, Finish, Cur
      <3>2. tally' \in [Jobs -> Tally]
        BY <2>4 DEF SchedulerTypeOK, Finish, Tally, Cur
      <3> QED
        BY <2>4, <3>1, <3>2 DEF SchedulerTypeOK, Finish, Unlocked, clock, files, local, Stages
    <2>5. ASSUME NEW c \in Containers, Record(c) PROVE SchedulerTypeOK'
      <3>1. Outcome(cur[c], tick[c]) \in Entry
        BY EntryType DEF SchedulerTypeOK
      <3>2. mem' \in [Containers -> State]
        BY <2>5, <3>1 DEF SchedulerTypeOK, Record, State
      <3> QED
        BY <2>5, <3>2 DEF SchedulerTypeOK, Record, clock, files, Stages
    <2>6. ASSUME NEW c \in Containers, OpenTmp(c) \/ WriteTmp(c) PROVE SchedulerTypeOK'
      <3>1. CASE OpenTmp(c)
        BY <3>1 DEF SchedulerTypeOK, OpenTmp, clock, local, Stages
      <3>2. CASE WriteTmp(c)
        BY <3>2 DEF SchedulerTypeOK, WriteTmp, clock, local, Stages
      <3> QED
        BY <2>6, <3>1, <3>2
    <2>7. ASSUME NEW c \in Containers, Rename(c) \/ RenameFails(c) PROVE SchedulerTypeOK'
      <3>1. CASE Rename(c)
        BY <3>1 DEF SchedulerTypeOK, Rename, Follow, clock, local, Stages
      <3>2. CASE RenameFails(c)
        BY <3>2 DEF SchedulerTypeOK, RenameFails, clock, files, local, Stages
      <3> QED
        BY <2>7, <3>1, <3>2
    <2>8. ASSUME NEW c \in Containers, TickEnds(c) \/ Crash(c) \/ Start(c) PROVE SchedulerTypeOK'
      <3>1. CASE TickEnds(c)
        BY <3>1 DEF SchedulerTypeOK, TickEnds, clock, files, local, Stages
      <3>2. CASE Crash(c)
        BY <3>2 DEF SchedulerTypeOK, Crash, clock, Stages
      <3>3. CASE Start(c)
        BY <3>3 DEF SchedulerTypeOK, Start, clock, files, local, Stages
      <3> QED
        BY <2>8, <3>1, <3>2, <3>3
    <2>9. CASE Pass
      BY <2>9 DEF SchedulerTypeOK, Pass, files, local
    <2>10. CASE UNCHANGED schedulerVars
      BY <2>10 DEF SchedulerTypeOK, schedulerVars, clock, files, local
    <2> QED
      BY <2>1, <2>2, <2>3, <2>4, <2>5, <2>6, <2>7, <2>8, <2>9, <2>10 DEF SchedulerNext, Turn
  <1> QED
    BY <1>1, <1>2, PTL DEF SchedulerSpec

-----------------------------------------------------------------------------
(* Mutual exclusion *)

\* Whoever runs a child holds the lock.
LockInv == \A c \in Containers : pc[c] = "running" => held = c

\* However many containers share the logs directory, wherever they are killed,
\* one job runs at a time (run_job's docstring).
THEOREM OneJobAtATimeAlways == SchedulerSpec => []OneJobAtATime
  <1>1. SchedulerInit => LockInv
    BY DEF SchedulerInit, LockInv
  <1>2. SchedulerTypeOK /\ LockInv /\ [SchedulerNext]_schedulerVars => LockInv'
    <2> SUFFICES ASSUME SchedulerTypeOK, LockInv, [SchedulerNext]_schedulerVars PROVE LockInv'
      OBVIOUS
    <2>1. ASSUME NEW c \in Containers, Acquire(c) PROVE LockInv'
      BY <2>1 DEF SchedulerTypeOK, LockInv, Acquire, Free
    <2>2. ASSUME NEW c \in Containers, NEW ok \in BOOLEAN, Finish(c, ok) PROVE LockInv'
      BY <2>2 DEF SchedulerTypeOK, LockInv, Finish
    <2>3. ASSUME NEW c \in Containers, Crash(c) PROVE LockInv'
      BY <2>3 DEF SchedulerTypeOK, LockInv, Crash
    <2>4. ASSUME NEW c \in Containers,
                 \/ Tick(c) \/ (\E j \in Jobs : Begin(c, j)) \/ Record(c) \/ OpenTmp(c)
                 \/ WriteTmp(c) \/ Rename(c) \/ RenameFails(c) \/ TickEnds(c) \/ Start(c)
          PROVE  LockInv'
      BY <2>4 DEF SchedulerTypeOK, LockInv, Tick, Begin, Record, OpenTmp, WriteTmp, Rename,
                  RenameFails, TickEnds, Start, files
    <2>5. CASE Pass \/ UNCHANGED schedulerVars
      BY <2>5 DEF LockInv, Pass, schedulerVars
    <2> QED
      BY <2>1, <2>2, <2>3, <2>4, <2>5 DEF SchedulerNext, Turn
  <1>3. LockInv => OneJobAtATime
    BY DEF LockInv, OneJobAtATime
  <1> QED
    BY <1>1, <1>2, <1>3, TypeCorrect, PTL DEF SchedulerSpec

-----------------------------------------------------------------------------
(* A single container *)

\* Between the tick and the record, what the container loaded is what the file
\* says, and what it still has to do is not recorded as done today.
Open(e, d) == e.day # d \/ ~e.ok

Busy == {"waiting", "running", "recording", "opening", "writing", "renaming"}

AloneOf(c) ==
    /\ fd[c] = (IF pc[c] = "writing" THEN "tmp" ELSE "closed")
    /\ pc[c] = "renaming" => tmp = mem[c]
    /\ pc[c] \in {"working", "waiting", "running"} => mem[c] = Loaded
    /\ pc[c] \in Busy \union {"working"} => \A j \in todo[c] : Open(mem[c][j], tick[c].day)
    /\ pc[c] \in Busy => cur[c].job \notin todo[c]
    /\ pc[c] = "waiting" => Open(mem[c][cur[c].job], tick[c].day)

AloneInv == file # Torn /\ \A c \in Containers : AloneOf(c)

LEMMA DueIsOpen ==
    ASSUME NEW s \in State, NEW d \in Nat, NEW t \in Nat, NEW j \in DueJobs(s, d, t)
    PROVE  Open(s[j], d)
  BY DEF DueJobs, CanRetry, Open

LEMMA AloneStep ==
    ASSUME NEW c, Containers = {c}, SchedulerTypeOK, AloneInv, [SchedulerNext]_schedulerVars
    PROVE  AloneInv'
  <1> USE DEF AloneInv, AloneOf
  <1>t. /\ file \in State \union {Torn, Absent} /\ mem \in [Containers -> State]
        /\ pc \in [Containers -> Stages] /\ fd \in [Containers -> {"closed", "tmp", "state", "unlinked"}]
        /\ todo \in [Containers -> SUBSET Jobs] /\ cur \in [Containers -> Cur]
        /\ tick \in [Containers -> [day: Nat, slot: Nat]]
    BY DEF SchedulerTypeOK
  <1>1. CASE Tick(c)
    <2>1. Loaded \in State /\ day \in Nat /\ slot \in Nat
      BY LoadedType DEF SchedulerTypeOK
    <2>2. \A j \in DueJobs(Loaded, day, slot) : Open(Loaded[j], day)
      BY <2>1, DueIsOpen
    <2> QED
      BY <1>1, <1>t, <2>2 DEF Tick, Loaded, files, Busy
  <1>2. ASSUME NEW j \in Jobs, Begin(c, j) PROVE AloneInv'
    BY <1>2, <1>t DEF Begin, Loaded, files, Busy
  <1>3. CASE Acquire(c)
    BY <1>3, <1>t DEF Acquire, Loaded, files, local, Busy
  <1>4. ASSUME NEW ok \in BOOLEAN, Finish(c, ok) PROVE AloneInv'
    <2>1. cur'[c].job = cur[c].job
      BY <1>4, <1>t DEF Finish, Cur
    <2> QED
      BY <1>4, <1>t, <2>1 DEF Finish, files, local, Busy
  <1>5. CASE Record(c)
    <2>1. \A j \in todo[c] : mem'[c][j] = mem[c][j]
      BY <1>5, <1>t DEF Record, State, Busy
    <2> QED
      BY <1>5, <1>t, <2>1 DEF Record, files, Busy
  <1>6. CASE OpenTmp(c)
    BY <1>6, <1>t DEF OpenTmp, local, Busy
  <1>7. CASE WriteTmp(c)
    BY <1>7, <1>t DEF WriteTmp, local, Busy
  <1>8. CASE Rename(c)
    <2>1. file' = mem[c] /\ mem[c] \in State /\ mem[c] \notin {Torn, Absent}
      BY <1>8, <1>t, FilesAssumption DEF Rename
    <2>2. fd'[c] = "closed" /\ pc'[c] = "working"
      BY <1>8, <1>t DEF Rename, Follow
    <2> QED
      BY <1>8, <1>t, <2>1, <2>2 DEF Rename, local, Loaded, Busy
  <1>9. CASE RenameFails(c) \/ TickEnds(c) \/ Crash(c) \/ Start(c)
    BY <1>9, <1>t DEF RenameFails, TickEnds, Crash, Start, files, local, Busy
  <1>10. CASE Pass \/ UNCHANGED schedulerVars
    BY <1>10, <1>t DEF Pass, schedulerVars, files, local, Loaded, Busy
  <1> QED
    BY <1>1, <1>2, <1>3, <1>4, <1>5, <1>6, <1>7, <1>8, <1>9, <1>10 DEF SchedulerNext, Turn

LEMMA AloneInit == SchedulerInit => AloneInv
  BY FilesAssumption DEF SchedulerInit, AloneInv, AloneOf, Busy

\* One container: the state file always parses (save_state).
THEOREM StateIsWholeAlways ==
    ASSUME NEW c, Containers = {c}
    PROVE  SchedulerSpec => []StateIsWhole
  <1>1. SchedulerInit => AloneInv
    BY AloneInit
  <1>2. SchedulerTypeOK /\ AloneInv /\ [SchedulerNext]_schedulerVars => AloneInv'
    BY AloneStep
  <1>3. AloneInv => StateIsWhole
    BY DEF AloneInv, StateIsWhole
  <1> QED
    BY <1>1, <1>2, <1>3, TypeCorrect, PTL DEF SchedulerSpec

\* One container, killed and restarted at will: what the state file records as a
\* success of the day is not run again that day.
THEOREM DoneIsDoneAlways ==
    ASSUME NEW c, Containers = {c}
    PROVE  SchedulerSpec => DoneIsDone
  <1>1. SchedulerInit => AloneInv
    BY AloneInit
  <1>2. SchedulerTypeOK /\ AloneInv /\ [SchedulerNext]_schedulerVars => AloneInv'
    BY AloneStep
  <1>3. SchedulerTypeOK /\ AloneInv /\ [SchedulerNext]_schedulerVars => [NoneRecorded]_schedulerVars
    BY DEF AloneInv, AloneOf, NoneRecorded, Starts, Loaded, Open
  <1> QED
    BY <1>1, <1>2, <1>3, TypeCorrect, PTL DEF SchedulerSpec, DoneIsDone

\* One container: what a reader of the state file finds parses and has its type.
THEOREM StateFileIsSoundAlways ==
    ASSUME NEW c, Containers = {c}
    PROVE  SchedulerSpec => []StateFileIsSound
  BY TypeCorrect, StateIsWholeAlways, PTL DEF StateFileIsSound

-----------------------------------------------------------------------------
(* What really ran, and what the file says of it.  The promises about runs    *)
(* are kept by a container that reads the file, decides, waits, runs, and     *)
(* only then records: the invariant follows each job through these stages.    *)

\* The tries an entry counts on day d, and an entry that lets its job run now.
TriesOn(e, d) == IF e.day = d THEN e.tries ELSE 0
Ready(e, t) == e.day # t.day \/ CanRetry(e, t.slot)

\* From the start of the child to the rename, the job is ahead of the file.
Ahead == {"running", "recording", "opening", "writing", "renaming"}
AheadOf(c, j) == pc[c] \in Ahead /\ cur[c].job = j

\* What a container is about to do is allowed by what it loaded, and what it is about to
\* save is what it loaded with one entry replaced.
PlanOK(c) ==
    /\ pc[c] \in Busy \union {"working"} => \A j \in todo[c] : Ready(mem[c][j], tick[c])
    /\ pc[c] = "waiting" => Ready(mem[c][cur[c].job], tick[c])
    /\ pc[c] \in {"waiting", "running"} => ~cur[c].ok
    /\ pc[c] \in {"asleep", "down"} => todo[c] = {}
    /\ pc[c] = "recording" => mem[c] = Loaded
    /\ pc[c] \in {"opening", "writing", "renaming"} =>
          mem[c] = [Loaded EXCEPT ![cur[c].job] = Outcome(cur[c], tick[c])]

\* The tries counted in the file and in the container.
CountOK(c) ==
    /\ \A j \in Jobs : Loaded[j].tries <= MAX_TRIES
    /\ pc[c] \in Busy =>
          /\ cur[c].tries = TriesOn(Loaded[cur[c].job], tick[c].day) + 1
          /\ cur[c].tries <= MAX_TRIES

\* What really ran: a kill loses one record at most, and without one nothing is lost.
Told(c, j) ==
    IF AheadOf(c, j)
    THEN /\ tally[j].day = tick[c].day
         /\ tally[j].starts <= cur[c].tries + crashes
         /\ crashes = 0 => tally[j].begun = tick[c].slot /\ (tally[j].won => cur[c].ok)
    ELSE /\ tally[j].starts <= TriesOn(Loaded[j], tally[j].day) + crashes
         /\ crashes = 0 => /\ tally[j].day = Loaded[j].day
                           /\ tally[j].begun = Loaded[j].last
                           /\ tally[j].won => Loaded[j].ok

\* A poll of this slot is served, or is being served.
ServedOK(c) ==
    c \in polled =>
        /\ pc[c] # "down" /\ tick[c].day = day /\ tick[c].slot = slot
        /\ \A j \in Jobs : Scheduled(j, day, slot) =>
              \/ j \in todo[c]
              \/ pc[c] \in Busy /\ cur[c].job = j
              \/ Loaded[j].day = day

OwedInv(c) == PlanOK(c) /\ CountOK(c) /\ ServedOK(c) /\ \A j \in Jobs : Told(c, j)

LEMMA OwedTypes ==
    ASSUME SchedulerTypeOK, NEW c, Containers = {c}
    PROVE  /\ Loaded \in State /\ mem[c] \in State /\ cur[c] \in Cur /\ todo[c] \subseteq Jobs
           /\ tick[c] \in [day: Nat, slot: Nat] /\ tick[c].day \in Nat /\ tick[c].slot \in Nat
           /\ crashes \in Nat /\ MAX_TRIES \in Nat \ {0}
           /\ cur[c].job \in Jobs /\ cur[c].tries \in Nat /\ cur[c].ok \in BOOLEAN
           /\ \A j \in Jobs : Loaded[j] \in Entry /\ Loaded[j].tries \in Nat /\ Loaded[j].day \in Nat
                              /\ Loaded[j].last \in Nat /\ Loaded[j].ok \in BOOLEAN
           /\ \A j \in Jobs : tally[j] \in Tally /\ tally[j].starts \in Nat /\ tally[j].day \in Nat
                              /\ tally[j].begun \in Nat /\ tally[j].won \in BOOLEAN
           /\ pc \in [Containers -> Stages] /\ cur \in [Containers -> Cur] /\ mem \in [Containers -> State]
           /\ todo \in [Containers -> SUBSET Jobs] /\ tick \in [Containers -> [day: Nat, slot: Nat]]
           /\ tally \in [Jobs -> Tally]
  <1>1. Loaded \in State
    BY LoadedType
  <1>2. /\ mem[c] \in State /\ cur[c] \in Cur /\ todo[c] \subseteq Jobs
        /\ tick[c] \in [day: Nat, slot: Nat] /\ crashes \in Nat
        /\ \A j \in Jobs : tally[j] \in Tally
    BY DEF SchedulerTypeOK
  <1>3. cur[c].job \in Jobs /\ cur[c].tries \in Nat /\ cur[c].ok \in BOOLEAN
    BY <1>2 DEF Cur
  <1>4. \A j \in Jobs : Loaded[j] \in Entry
    BY <1>1 DEF State
  <1>5. \A j \in Jobs : /\ Loaded[j].tries \in Nat /\ Loaded[j].day \in Nat
                        /\ Loaded[j].last \in Nat /\ Loaded[j].ok \in BOOLEAN
    BY <1>4 DEF Entry
  <1>6. \A j \in Jobs : /\ tally[j].starts \in Nat /\ tally[j].day \in Nat
                        /\ tally[j].begun \in Nat /\ tally[j].won \in BOOLEAN
    BY <1>2 DEF Tally
  <1> QED
    BY <1>1, <1>2, <1>3, <1>4, <1>5, <1>6 DEF SchedulerTypeOK

\* tick: what is due is ready, and nothing due is left out.
LEMMA OwedTick ==
    ASSUME NEW c, Containers = {c}, SchedulerTypeOK, AloneInv, OwedInv(c), Tick(c)
    PROVE  OwedInv(c)'
  <1>1. /\ pc[c] = "asleep" /\ pc'[c] = "working" /\ mem'[c] = Loaded /\ Loaded' = Loaded
        /\ tick'[c] = [day |-> day, slot |-> slot] /\ todo'[c] = DueJobs(Loaded, day, slot)
        /\ UNCHANGED <<day, slot, cur, tally, crashes>>
    BY OwedTypes DEF Tick, clock, files, Loaded
  <1>2. tick'[c].day = day /\ tick'[c].slot = slot
    BY <1>1
  <1>3. PlanOK(c)'
    BY <1>1, <1>2 DEF PlanOK, DueJobs, Ready, Busy
  <1>4. CountOK(c)'
    BY <1>1 DEF OwedInv, CountOK, Busy
  <1>5. ServedOK(c)'
    BY <1>1, <1>2 DEF ServedOK, DueJobs
  <1>6. \A j \in Jobs : Told(c, j)'
    BY <1>1 DEF OwedInv, Told, AheadOf, Ahead
  <1> QED
    BY <1>3, <1>4, <1>5, <1>6 DEF OwedInv

\* run_job up to the lock.
LEMMA OwedBegin ==
    ASSUME NEW c, Containers = {c}, SchedulerTypeOK, AloneInv, OwedInv(c), NEW j \in Jobs, Begin(c, j)
    PROVE  OwedInv(c)'
  <1>1. /\ pc[c] = "working" /\ pc'[c] = "waiting" /\ j \in todo[c] /\ mem[c] = Loaded
        /\ cur'[c] = [job |-> j, tries |-> Try(mem[c][j], tick[c].day), ok |-> FALSE]
        /\ todo'[c] = todo[c] \ {j} /\ Loaded' = Loaded
        /\ UNCHANGED <<day, slot, polled, tick, mem, tally, crashes>>
    BY OwedTypes DEF Begin, clock, files, Loaded, AloneInv, AloneOf
  <1>2. cur'[c].job = j /\ cur'[c].tries = Try(Loaded[j], tick[c].day) /\ cur'[c].ok = FALSE
    BY <1>1
  <1>3. Ready(Loaded[j], tick[c])
    BY <1>1 DEF OwedInv, PlanOK
  <1>4. PlanOK(c)'
    BY <1>1, <1>2, <1>3 DEF OwedInv, PlanOK, Busy, Ready, CanRetry
  <1>5. cur'[c].tries = TriesOn(Loaded[j], tick[c].day) + 1 /\ cur'[c].tries <= MAX_TRIES
    BY <1>2, <1>3, OwedTypes DEF Try, TriesOn, Ready, CanRetry
  <1>6. CountOK(c)'
    BY <1>1, <1>2, <1>5 DEF OwedInv, CountOK, TriesOn
  <1>7. ServedOK(c)'
    BY <1>1, <1>2 DEF OwedInv, ServedOK, Busy
  <1>8. \A k \in Jobs : Told(c, k)'
    BY <1>1 DEF OwedInv, Told, AheadOf, Ahead
  <1> QED
    BY <1>4, <1>6, <1>7, <1>8 DEF OwedInv

\* The child starts: the job gets ahead of the file.
LEMMA OwedAcquire ==
    ASSUME NEW c, Containers = {c}, SchedulerTypeOK, AloneInv, OwedInv(c), Acquire(c)
    PROVE  OwedInv(c)'
  <1>1. /\ pc[c] = "waiting" /\ pc'[c] = "running" /\ mem[c] = Loaded /\ Loaded' = Loaded
        /\ tally' = Started(c)
        /\ UNCHANGED <<day, slot, polled, tick, mem, todo, cur, crashes>>
    BY OwedTypes DEF Acquire, clock, files, local, Loaded, AloneInv, AloneOf
  <1>2. PICK i \in Jobs : i = cur[c].job
    BY OwedTypes
  <1>3. /\ Ready(Loaded[i], tick[c]) /\ ~cur[c].ok
        /\ cur[c].tries = TriesOn(Loaded[i], tick[c].day) + 1 /\ cur[c].tries <= MAX_TRIES
    BY <1>1, <1>2 DEF OwedInv, PlanOK, CountOK, Busy
  <1>4. /\ \A j \in Jobs \ {i} : tally'[j] = tally[j]
        /\ tally'[i].day = tick[c].day /\ tally'[i].begun = tick[c].slot
        /\ tally'[i].won <=> tally[i].day = tick[c].day /\ tally[i].won
        /\ tally[i].day # tick[c].day => tally'[i].starts = 1
        /\ tally[i].day = tick[c].day => tally'[i].starts <= tally[i].starts + 1
    <2>1. tally \in [Jobs -> Tally] /\ tally[i].starts \in Nat
      BY OwedTypes
    <2>2. tally' = [tally EXCEPT ![i] =
             [day |-> tick[c].day, begun |-> tick[c].slot,
              won |-> tally[i].day = tick[c].day /\ tally[i].won,
              starts |-> IF ~(tally[i].day = tick[c].day) THEN 1
                         ELSE IF tally[i].starts > MAX_TRIES + MaxCrashes THEN tally[i].starts
                         ELSE tally[i].starts + 1]]
      BY <1>1, <1>2 DEF Started
    <2>3. PICK n : n = IF tally[i].starts > MAX_TRIES + MaxCrashes THEN tally[i].starts
                       ELSE tally[i].starts + 1
      OBVIOUS
    <2>4. n <= tally[i].starts + 1
      BY <2>1, <2>3
    <2>5. tally' = [tally EXCEPT ![i] =
             [day |-> tick[c].day, begun |-> tick[c].slot,
              won |-> tally[i].day = tick[c].day /\ tally[i].won,
              starts |-> IF ~(tally[i].day = tick[c].day) THEN 1 ELSE n]]
      BY <2>2, <2>3, Zenon
    <2> QED
      BY <2>1, <2>4, <2>5
  <1>5. PlanOK(c)' /\ CountOK(c)' /\ ServedOK(c)'
    BY <1>1 DEF OwedInv, PlanOK, CountOK, ServedOK, Busy, Ready, CanRetry, TriesOn
  <1>6. ~AheadOf(c, i) /\ Told(c, i)
    BY <1>1, <1>2 DEF OwedInv, AheadOf, Ahead
  <1>7. tally'[i].starts <= cur[c].tries + crashes
    <2>1. CASE tally[i].day = tick[c].day
      <3>1. tally[i].starts <= TriesOn(Loaded[i], tick[c].day) + crashes
        BY <1>6, <2>1 DEF Told
      <3>2. tally[i].starts \in Nat /\ TriesOn(Loaded[i], tick[c].day) \in Nat /\ tally'[i].starts \in Nat
        <4>1. tally'[i] \in Tally
          BY <1>1, StartedType
        <4> QED
          BY <4>1, OwedTypes DEF TriesOn, Tally
      <3> QED
        BY <1>3, <1>4, <2>1, <3>1, <3>2, OwedTypes
    <2>2. CASE tally[i].day # tick[c].day
      <3>1. TriesOn(Loaded[i], tick[c].day) \in Nat
        BY OwedTypes DEF TriesOn
      <3> QED
        BY <1>3, <1>4, <2>2, <3>1, OwedTypes
    <2> QED
      BY <2>1, <2>2
  <1>8. crashes = 0 => ~tally'[i].won
    <2>1. crashes = 0 /\ tally'[i].won => Loaded[i].day = tick[c].day /\ Loaded[i].ok
      BY <1>4, <1>6 DEF Told
    <2> QED
      BY <1>3, <2>1 DEF Ready, CanRetry
  <1>9. Told(c, i)'
    BY <1>1, <1>2, <1>4, <1>7, <1>8 DEF Told, AheadOf, Ahead
  <1>10. \A j \in Jobs \ {i} : Told(c, j)'
    BY <1>1, <1>2, <1>4 DEF OwedInv, Told, AheadOf, Ahead, TriesOn
  <1> QED
    BY <1>5, <1>9, <1>10 DEF OwedInv

\* The child ends: its outcome is in hand.
LEMMA OwedFinish ==
    ASSUME NEW c, Containers = {c}, SchedulerTypeOK, AloneInv, OwedInv(c), NEW ok \in BOOLEAN, Finish(c, ok)
    PROVE  OwedInv(c)'
  <1>1. /\ pc[c] = "running" /\ pc'[c] = "recording" /\ mem[c] = Loaded /\ Loaded' = Loaded
        /\ cur'[c] = [job |-> cur[c].job, tries |-> cur[c].tries, ok |-> ok]
        /\ tally' = [tally EXCEPT ![cur[c].job] =
                        [day |-> @.day, starts |-> @.starts, begun |-> @.begun, won |-> @.won \/ ok]]
        /\ UNCHANGED <<day, slot, polled, tick, mem, todo, crashes>>
    BY OwedTypes DEF Finish, clock, files, local, Loaded, AloneInv, AloneOf
  <1>2. PICK i \in Jobs : i = cur[c].job
    BY OwedTypes
  <1>3. cur'[c].job = i /\ cur'[c].tries = cur[c].tries /\ cur'[c].ok = ok
    BY <1>1, <1>2
  <1>4. /\ \A j \in Jobs \ {i} : tally'[j] = tally[j]
        /\ tally'[i].day = tally[i].day /\ tally'[i].begun = tally[i].begun
        /\ tally'[i].starts = tally[i].starts /\ tally'[i].won = (tally[i].won \/ ok)
    <2>1. tally \in [Jobs -> Tally]
      BY OwedTypes
    <2>2. tally' = [tally EXCEPT ![i] =
             [day |-> tally[i].day, starts |-> tally[i].starts, begun |-> tally[i].begun,
              won |-> tally[i].won \/ ok]]
      BY <1>1, <1>2, <2>1
    <2> QED
      BY <2>1, <2>2
  <1>5. PlanOK(c)'
    BY <1>1 DEF OwedInv, PlanOK, Busy, Ready, CanRetry
  <1>6. CountOK(c)'
    BY <1>1, <1>2, <1>3 DEF OwedInv, CountOK, Busy, TriesOn
  <1>7. ServedOK(c)'
    BY <1>1, <1>2, <1>3 DEF OwedInv, ServedOK, Busy
  <1>8. AheadOf(c, i) /\ AheadOf(c, i)' /\ Told(c, i) /\ ~cur[c].ok
    BY <1>1, <1>2, <1>3 DEF OwedInv, PlanOK, AheadOf, Ahead
  <1>9. Told(c, i)'
    BY <1>1, <1>3, <1>4, <1>8 DEF Told
  <1>10. \A j \in Jobs \ {i} : Told(c, j)'
    BY <1>1, <1>2, <1>3, <1>4 DEF OwedInv, Told, AheadOf, Ahead, TriesOn
  <1> QED
    BY <1>5, <1>6, <1>7, <1>9, <1>10 DEF OwedInv

\* run_job writes the entry; the file is as it was loaded.
LEMMA OwedRecord ==
    ASSUME NEW c, Containers = {c}, SchedulerTypeOK, AloneInv, OwedInv(c), Record(c)
    PROVE  OwedInv(c)'
  <1>1. /\ pc[c] = "recording" /\ pc'[c] = "opening" /\ mem[c] = Loaded /\ Loaded' = Loaded
        /\ cur[c].job \notin todo[c]
        /\ mem' = [mem EXCEPT ![c][cur[c].job] = Outcome(cur[c], tick[c])]
        /\ UNCHANGED <<day, slot, polled, tick, todo, cur, tally, crashes>>
    BY OwedTypes DEF Record, clock, files, Loaded, AloneInv, AloneOf, OwedInv, PlanOK, Busy
  <1>2. mem'[c] = [Loaded EXCEPT ![cur[c].job] = Outcome(cur[c], tick[c])]
    BY <1>1, OwedTypes
  <1>3. \A j \in todo[c] : mem'[c][j] = mem[c][j]
    BY <1>1, <1>2, OwedTypes DEF State
  <1>4. PlanOK(c)'
    BY <1>1, <1>2, <1>3 DEF OwedInv, PlanOK, Busy, Ready, CanRetry
  <1>5. CountOK(c)' /\ ServedOK(c)'
    BY <1>1 DEF OwedInv, CountOK, ServedOK, Busy, TriesOn
  <1>6. \A j \in Jobs : Told(c, j)'
    BY <1>1 DEF OwedInv, Told, AheadOf, Ahead, TriesOn
  <1> QED
    BY <1>4, <1>5, <1>6 DEF OwedInv

\* The save up to its rename: the file is not touched.
LEMMA OwedSave ==
    ASSUME NEW c, Containers = {c}, SchedulerTypeOK, AloneInv, OwedInv(c), OpenTmp(c) \/ WriteTmp(c)
    PROVE  OwedInv(c)'
  <1>1. /\ pc[c] \in {"opening", "writing"} /\ pc'[c] \in {"writing", "renaming"} /\ Loaded' = Loaded
        /\ UNCHANGED <<day, slot, polled, tick, mem, todo, cur, tally, crashes>>
    BY OwedTypes DEF OpenTmp, WriteTmp, clock, local, Loaded, AloneInv, AloneOf
  <1>2. PlanOK(c)'
    BY <1>1 DEF OwedInv, PlanOK, Busy, Ready, CanRetry
  <1>3. CountOK(c)' /\ ServedOK(c)'
    BY <1>1 DEF OwedInv, CountOK, ServedOK, Busy, TriesOn
  <1>4. \A j \in Jobs : Told(c, j)'
    BY <1>1 DEF OwedInv, Told, AheadOf, Ahead, TriesOn
  <1> QED
    BY <1>2, <1>3, <1>4 DEF OwedInv

\* The rename: the file catches up with what ran.
LEMMA OwedRename ==
    ASSUME NEW c, Containers = {c}, SchedulerTypeOK, AloneInv, OwedInv(c), Rename(c)
    PROVE  OwedInv(c)'
  <1>1. /\ pc[c] = "renaming" /\ pc'[c] = "working" /\ tmp = mem[c] /\ file' = tmp
        /\ UNCHANGED <<day, slot, polled, tick, mem, todo, cur, tally, crashes>>
    BY OwedTypes DEF Rename, clock, local, AloneInv, AloneOf
  <1>2. Loaded' = mem[c] /\ mem[c] = [Loaded EXCEPT ![cur[c].job] = Outcome(cur[c], tick[c])]
    BY <1>1, OwedTypes, FilesAssumption DEF Loaded, OwedInv, PlanOK
  <1>3. PICK i \in Jobs : i = cur[c].job
    BY OwedTypes
  <1>4. /\ \A j \in Jobs \ {i} : Loaded'[j] = Loaded[j]
        /\ Loaded'[i] = Outcome(cur[c], tick[c])
    BY <1>2, <1>3, OwedTypes DEF State
  <1>5. /\ Loaded'[i].day = tick[c].day /\ Loaded'[i].last = tick[c].slot
        /\ Loaded'[i].tries = cur[c].tries /\ Loaded'[i].ok = cur[c].ok
    BY <1>4 DEF Outcome
  <1>6. PlanOK(c)'
    BY <1>1 DEF OwedInv, PlanOK, Busy, Ready, CanRetry
  <1>7. CountOK(c)'
    BY <1>1, <1>4, <1>5 DEF OwedInv, CountOK, Busy
  <1>8. ServedOK(c)'
    BY <1>1, <1>3, <1>4, <1>5 DEF OwedInv, ServedOK, Busy
  <1>9. AheadOf(c, i) /\ ~AheadOf(c, i)' /\ Told(c, i)
    BY <1>1, <1>3 DEF OwedInv, AheadOf, Ahead
  <1>10. Told(c, i)'
    BY <1>1, <1>5, <1>9 DEF Told, TriesOn
  <1>11. \A j \in Jobs \ {i} : Told(c, j)'
    BY <1>1, <1>3, <1>4 DEF OwedInv, Told, AheadOf, Ahead, TriesOn
  <1> QED
    BY <1>6, <1>7, <1>8, <1>10, <1>11 DEF OwedInv

\* A kill loses one record at most.
LEMMA OwedCrash ==
    ASSUME NEW c, Containers = {c}, SchedulerTypeOK, AloneInv, OwedInv(c), Crash(c)
    PROVE  OwedInv(c)'
  <1>1. /\ pc[c] # "down" /\ pc'[c] = "down" /\ todo'[c] = {} /\ crashes' = crashes + 1
        /\ c \notin polled' /\ Loaded' = Loaded
        /\ UNCHANGED <<day, slot, tick, mem, cur, tally>>
    BY OwedTypes DEF Crash, clock, Loaded
  <1>2. PlanOK(c)' /\ CountOK(c)' /\ ServedOK(c)'
    BY <1>1 DEF OwedInv, PlanOK, CountOK, ServedOK, Busy
  <1>3. ASSUME NEW j \in Jobs
        PROVE  Told(c, j)'
    <2>1. crashes' # 0 /\ ~AheadOf(c, j)'
      <3>1. crashes \in Nat
        BY OwedTypes
      <3> QED
        BY <1>1, <3>1 DEF AheadOf, Ahead
    <2>2. Told(c, j)
      BY DEF OwedInv
    <2>3. TriesOn(Loaded[j], tally[j].day) \in Nat
      BY OwedTypes DEF TriesOn
    <2>4. tally[j].starts <= TriesOn(Loaded[j], tally[j].day) + crashes + 1
      <3>1. CASE AheadOf(c, j)
        <4>1. /\ tally[j].day = tick[c].day /\ tally[j].starts <= cur[c].tries + crashes
          BY <2>2, <3>1 DEF Told
        <4>2. cur[c].tries = TriesOn(Loaded[j], tick[c].day) + 1
          BY <3>1 DEF OwedInv, CountOK, AheadOf, Ahead, Busy
        <4>3. tally[j].starts \in Nat /\ crashes \in Nat /\ cur[c].tries \in Nat
          BY OwedTypes
        <4> QED
          BY <4>1, <4>2, <4>3, <2>3
      <3>2. CASE ~AheadOf(c, j)
        <4>1. tally[j].starts <= TriesOn(Loaded[j], tally[j].day) + crashes
          BY <2>2, <3>2 DEF Told
        <4>2. tally[j].starts \in Nat /\ crashes \in Nat
          BY OwedTypes
        <4> QED
          BY <4>1, <4>2, <2>3
      <3> QED
        BY <3>1, <3>2
    <2>5. tally'[j].starts <= TriesOn(Loaded'[j], tally'[j].day) + crashes'
      BY <1>1, <2>3, <2>4, OwedTypes DEF TriesOn
    <2> QED
      BY <2>1, <2>5 DEF Told
  <1> QED
    BY <1>2, <1>3 DEF OwedInv

\* The turns of the loop and the clock that touch no job.
LEMMA OwedIdle ==
    ASSUME NEW c, Containers = {c}, SchedulerTypeOK, AloneInv, OwedInv(c),
           RenameFails(c) \/ TickEnds(c) \/ Start(c) \/ Pass \/ UNCHANGED schedulerVars
    PROVE  OwedInv(c)'
  <1>1. CASE RenameFails(c)
    <2>1. tmp = mem[c] /\ tmp = Absent /\ mem[c] \in State
      BY <1>1, OwedTypes DEF RenameFails, AloneInv, AloneOf
    <2> QED
      BY <2>1, FilesAssumption
  <1>2. CASE TickEnds(c)
    <2>1. /\ pc[c] = "working" /\ pc'[c] = "asleep" /\ todo[c] = {} /\ Loaded' = Loaded
          /\ UNCHANGED <<day, slot, polled, tick, mem, todo, cur, tally, crashes>>
      BY <1>2, OwedTypes DEF TickEnds, clock, files, local, Loaded
    <2>2. PlanOK(c)' /\ CountOK(c)' /\ ServedOK(c)'
      BY <2>1 DEF OwedInv, PlanOK, CountOK, ServedOK, Busy
    <2>3. \A j \in Jobs : Told(c, j)'
      BY <2>1 DEF OwedInv, Told, AheadOf, Ahead, TriesOn
    <2> QED
      BY <2>2, <2>3 DEF OwedInv
  <1>3. CASE Start(c)
    <2>1. /\ pc[c] = "down" /\ pc'[c] = "asleep" /\ Loaded' = Loaded
          /\ UNCHANGED <<day, slot, polled, tick, mem, todo, cur, tally, crashes>>
      BY <1>3, OwedTypes DEF Start, clock, files, local, Loaded
    <2>2. PlanOK(c)' /\ CountOK(c)' /\ ServedOK(c)'
      BY <2>1 DEF OwedInv, PlanOK, CountOK, ServedOK, Busy
    <2>3. \A j \in Jobs : Told(c, j)'
      BY <2>1 DEF OwedInv, Told, AheadOf, Ahead, TriesOn
    <2> QED
      BY <2>2, <2>3 DEF OwedInv
  <1>4. CASE Pass
    <2>1. polled' = {} /\ Loaded' = Loaded /\ UNCHANGED <<pc, tick, mem, todo, cur, tally, crashes>>
      BY <1>4 DEF Pass, files, local, Loaded
    <2>2. PlanOK(c)' /\ CountOK(c)' /\ ServedOK(c)'
      BY <2>1 DEF OwedInv, PlanOK, CountOK, ServedOK, Busy, Ready, CanRetry, TriesOn
    <2>3. \A j \in Jobs : Told(c, j)'
      BY <2>1 DEF OwedInv, Told, AheadOf, Ahead, TriesOn
    <2> QED
      BY <2>2, <2>3 DEF OwedInv
  <1>5. CASE UNCHANGED schedulerVars
    <2>1. Loaded' = Loaded /\ UNCHANGED <<day, slot, polled, pc, tick, mem, todo, cur, tally, crashes>>
      BY <1>5 DEF schedulerVars, clock, files, local, Loaded
    <2>2. PlanOK(c)' /\ CountOK(c)' /\ ServedOK(c)'
      BY <2>1 DEF OwedInv, PlanOK, CountOK, ServedOK, Busy, Ready, CanRetry, TriesOn
    <2>3. \A j \in Jobs : Told(c, j)'
      BY <2>1 DEF OwedInv, Told, AheadOf, Ahead, TriesOn
    <2> QED
      BY <2>2, <2>3 DEF OwedInv
  <1> QED
    BY <1>1, <1>2, <1>3, <1>4, <1>5

LEMMA OwedStep ==
    ASSUME NEW c, Containers = {c}, SchedulerTypeOK, AloneInv, OwedInv(c), [SchedulerNext]_schedulerVars
    PROVE  OwedInv(c)'
  <1>1. ASSUME NEW j \in Jobs, Begin(c, j) PROVE OwedInv(c)'
    BY <1>1, OwedBegin
  <1>2. ASSUME NEW ok \in BOOLEAN, Finish(c, ok) PROVE OwedInv(c)'
    BY <1>2, OwedFinish
  <1> QED
    BY <1>1, <1>2, OwedTick, OwedAcquire, OwedRecord, OwedSave, OwedRename, OwedCrash, OwedIdle
       DEF SchedulerNext, Turn

LEMMA OwedInit ==
    ASSUME NEW c, Containers = {c}, SchedulerInit
    PROVE  OwedInv(c)
  <1>1. /\ Loaded = Empty /\ pc[c] = "asleep" /\ todo[c] = {} /\ polled = {} /\ crashes = 0
        /\ ~cur[c].ok
    BY DEF SchedulerInit, Loaded
  <1>2. \A j \in Jobs : /\ Loaded[j].day = 0 /\ Loaded[j].last = 0 /\ Loaded[j].tries = 0
                        /\ tally[j].day = 0 /\ tally[j].starts = 0 /\ ~tally[j].won
                        /\ tally[j].begun = 0
    BY <1>1 DEF Empty, NoEntry, SchedulerInit
  <1>3. PlanOK(c)
    BY <1>1 DEF PlanOK, Busy
  <1>4. CountOK(c) /\ ServedOK(c)
    BY <1>1, <1>2 DEF CountOK, ServedOK, Busy
  <1>5. \A j \in Jobs : Told(c, j)
    BY <1>1, <1>2 DEF Told, AheadOf, Ahead, TriesOn
  <1> QED
    BY <1>3, <1>4, <1>5 DEF OwedInv

LEMMA OwedAlways ==
    ASSUME NEW c, Containers = {c}
    PROVE  SchedulerSpec => [](SchedulerTypeOK /\ AloneInv /\ OwedInv(c))
  <1>1. SchedulerInit => AloneInv /\ OwedInv(c)
    BY AloneInit, OwedInit
  <1>2. SchedulerTypeOK /\ AloneInv /\ OwedInv(c) /\ [SchedulerNext]_schedulerVars => AloneInv' /\ OwedInv(c)'
    BY AloneStep, OwedStep
  <1> QED
    BY <1>1, <1>2, TypeCorrect, PTL DEF SchedulerSpec

\* One container: every slot that was due is served, however late the container came up and
\* whatever was killed before; and what really ran stays within max_tries and one per kill.
THEOREM SlotsAreServedAlways ==
    ASSUME NEW c, Containers = {c}
    PROVE  SchedulerSpec => []SlotsAreServed
  <1>1. SchedulerTypeOK /\ AloneInv /\ OwedInv(c) => SlotsAreServed
    <2> SUFFICES ASSUME SchedulerTypeOK, AloneInv, OwedInv(c)
                 PROVE  SlotsAreServed
      OBVIOUS
    <2>1. NothingIsForgotten
      <3> SUFFICES ASSUME c \in Asleep \cap polled, NEW j \in Jobs, Ought(j)
                   PROVE  file # Absent /\ file[j].day = day
        BY DEF NothingIsForgotten, Asleep
      <3>1. pc[c] = "asleep" /\ c \in polled
        BY DEF Asleep
      <3>2. Scheduled(j, day, slot)
        BY DEF Ought, Scheduled, Weekdays
      <3>3. Loaded[j].day = day
        BY <3>1, <3>2 DEF OwedInv, PlanOK, ServedOK, Busy
      <3>4. day # 0
        BY DEF SchedulerTypeOK
      <3>5. Loaded # Empty
        BY <3>3, <3>4 DEF Empty, NoEntry
      <3> QED
        BY <3>3, <3>5 DEF Loaded
    <2>2. TriesAreBounded
      <3> SUFFICES ASSUME NEW j \in Jobs
                   PROVE  tally[j].starts <= MAX_TRIES + crashes
        BY DEF TriesAreBounded
      <3>1. /\ tally[j].starts \in Nat /\ crashes \in Nat /\ MAX_TRIES \in Nat
            /\ cur[c].tries \in Nat /\ Loaded[j].tries \in Nat
        BY OwedTypes
      <3>2. Told(c, j) /\ Loaded[j].tries <= MAX_TRIES
        BY DEF OwedInv, CountOK
      <3>3. CASE AheadOf(c, j)
        <4>1. tally[j].starts <= cur[c].tries + crashes
          BY <3>2, <3>3 DEF Told
        <4>2. cur[c].tries <= MAX_TRIES
          BY <3>3 DEF OwedInv, CountOK, AheadOf, Ahead, Busy
        <4> QED
          BY <3>1, <4>1, <4>2
      <3>4. CASE ~AheadOf(c, j)
        <4>1. tally[j].starts <= TriesOn(Loaded[j], tally[j].day) + crashes
          BY <3>2, <3>4 DEF Told
        <4>2. TriesOn(Loaded[j], tally[j].day) \in Nat /\ TriesOn(Loaded[j], tally[j].day) <= MAX_TRIES
          BY <3>1, <3>2 DEF TriesOn
        <4> QED
          BY <3>1, <4>1, <4>2
      <3> QED
        BY <3>3, <3>4
    <2> QED
      BY <2>1, <2>2 DEF SlotsAreServed
  <1> QED
    BY <1>1, OwedAlways, PTL

\* A run starts from an entry that allows it, and without a kill the entry tells what ran.
LEMMA OwedStarts ==
    ASSUME NEW c, Containers = {c}, SchedulerTypeOK, AloneInv, OwedInv(c), NEW j \in Jobs,
           AgainToday(c, j), crashes = 0
    PROVE  tick[c].slot >= tally[j].begun + RETRY /\ ~tally[j].won
  <1>1. pc[c] = "waiting" /\ cur[c].job = j /\ tally[j].day = tick[c].day
    BY DEF AgainToday, Starts
  <1>2. mem[c] = Loaded /\ Ready(Loaded[j], tick[c])
    BY <1>1 DEF AloneInv, AloneOf, OwedInv, PlanOK
  <1>3. /\ tally[j].day = Loaded[j].day /\ tally[j].begun = Loaded[j].last
        /\ tally[j].won => Loaded[j].ok
    BY <1>1 DEF OwedInv, Told, AheadOf, Ahead
  <1>4. CanRetry(Loaded[j], tick[c].slot)
    BY <1>1, <1>2, <1>3 DEF Ready
  <1> QED
    BY <1>3, <1>4 DEF CanRetry

\* One container: a run is started only when one is owed.  Not after a success of the day that
\* is in the file, across kills; and while nothing is killed, not after one that really was,
\* nor sooner than RETRY after the last run.
THEOREM RunsAreOwedAlways ==
    ASSUME NEW c, Containers = {c}
    PROVE  SchedulerSpec => RunsAreOwed
  <1>1. SchedulerTypeOK /\ AloneInv /\ OwedInv(c) /\ [SchedulerNext]_schedulerVars => [Paced]_schedulerVars
    BY OwedStarts DEF Paced
  <1>2. SchedulerTypeOK /\ AloneInv /\ OwedInv(c) /\ [SchedulerNext]_schedulerVars => [NotWon]_schedulerVars
    BY OwedStarts DEF NotWon
  <1>3. SchedulerSpec => TriesArePaced
    BY <1>1, OwedAlways, PTL DEF SchedulerSpec, TriesArePaced
  <1>4. SchedulerSpec => NotAfterSuccess
    BY <1>2, OwedAlways, PTL DEF SchedulerSpec, NotAfterSuccess
  <1> QED
    BY <1>3, <1>4, DoneIsDoneAlways DEF RunsAreOwed
=============================================================================
