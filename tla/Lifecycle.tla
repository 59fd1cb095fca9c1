------------------------------ MODULE Lifecycle ------------------------------
(***************************************************************************)
(* The lifecycle steps of the daily job for one strategy: the predictions  *)
(* of the champion and of its challengers (lifecycle/shadow.py), the       *)
(* monthly evaluation with an automatic retrain (lifecycle/job.py), and    *)
(* the evidence a promotion rests on (lifecycle/compare.py).  The          *)
(* operator's commands come between any two transactions of the job, a     *)
(* step of the job may fail without ending it, and the job may be killed.  *)
(*                                                                         *)
(* Sessions are numbered; a month has MonthLength of them.  The moves of   *)
(* the registry itself are ModelRegistry's.                                *)
(***************************************************************************)
EXTENDS Integers, FiniteSets

CONSTANTS
    MonthLength,
    evaluate_day,       \* lifecycle.evaluate_day_of_month, in sessions
    retrain_age,        \* lifecycle.retrain_months, in sessions
    horizon,            \* sessions until a label is known
    shadow_min, min_days,           \* lifecycle.promotion
    LastSession, MaxModels,         \* bounds
    MaxFaults, MaxReplays           \* bounds: per month, and in all

ASSUME LifecycleConstants ==
    /\ {MonthLength, evaluate_day, horizon, LastSession} \subseteq Nat \ {0}
    /\ {retrain_age, shadow_min, min_days, MaxModels, MaxFaults, MaxReplays} \subseteq Nat

VARIABLES
    session,    \* the newest session with data
    role,       \* models.status of every model
    until,      \* models.trained_until
    series,     \* table predictions: per model the sessions that have rows
    evaluated,  \* experiments lifecycle:evaluate:<month>
    daily,      \* the job: its step, the models it still scores, all steps fine
    started,    \* aux: per model the month its automatic retrain began, or 0
    decided,    \* aux: months of promotions and rejections, counted
    unrecorded, \* aux: evaluations of a month that failed or were killed, counted
    fine,       \* aux: sessions whose job ended with every step fine
    replays     \* aux: replays so far

lifecycleVars == <<session, role, until, series, evaluated, daily, started,
                   decided, unrecorded, fine, replays>>
store == <<session, role, until, series, evaluated>>
aux == <<started, decided, unrecorded, fine, replays>>

ModelIds == 1 .. MaxModels
Calendar == 1 .. LastSession
Month(d) == ((d - 1) \div MonthLength) + 1
DayOfMonth(d) == ((d - 1) % MonthLength) + 1
Months == {Month(d) : d \in Calendar}

NoJob == [step |-> "idle", todo |-> {}, ok |-> TRUE]

LifecycleTypeOK ==
    /\ session \in Calendar
    /\ role \in [ModelIds -> {"none", "shadow", "champion", "retired"}]
    /\ until \in [ModelIds -> -horizon .. LastSession]
    /\ series \in [ModelIds -> SUBSET Calendar]
    /\ evaluated \subseteq Months
    /\ daily \in [step : {"idle", "champions", "shadows", "monitor", "due", "evaluate", "retrain", "record", "report"},
                  todo : SUBSET ModelIds, ok : BOOLEAN]

\* The first champion was trained up to the eve of the record.
LifecycleInit ==
    /\ session = 1 /\ evaluated = {} /\ daily = NoJob
    /\ role = [m \in ModelIds |-> IF m = 1 THEN "champion" ELSE "none"]
    /\ until = [m \in ModelIds |-> 0]
    /\ series = [m \in ModelIds |-> {}]
    /\ started = [m \in ModelIds |-> 0] /\ fine = {} /\ replays = 0
    /\ decided = [x \in Months |-> 0] /\ unrecorded = [x \in Months |-> 0]

WithRole(r) == {m \in ModelIds : role[m] = r}
Step(s) == daily.step = s
Goto(s) == daily' = [step |-> s, todo |-> {}, ok |-> daily.ok]
MayFail == unrecorded[Month(session)] < MaxFaults

\* save_predictions: a session that has rows keeps one set of them.
Stored(m, ds) == series' = [series EXCEPT ![m] = @ \union ds]

-----------------------------------------------------------------------------
(* shadow_step: first the champions, then the shadow models, each list read
   when its turn comes and each model in a transaction of its own.          *)

NewSession ==
    /\ daily = NoJob /\ session < LastSession
    /\ session' = session + 1
    /\ UNCHANGED <<role, until, series, evaluated, daily, aux>>

ShadowStarts ==
    /\ daily = NoJob
    /\ daily' = [step |-> "champions", todo |-> WithRole("champion"), ok |-> TRUE]
    /\ UNCHANGED <<store, aux>>

ShadowStores(m) ==
    /\ m \in daily.todo
    /\ Stored(m, {session})
    /\ daily' = [daily EXCEPT !.todo = @ \ {m}]
    /\ UNCHANGED <<session, role, until, evaluated, aux>>

ShadowTurns ==
    /\ Step("champions") /\ daily.todo = {}
    /\ daily' = [daily EXCEPT !.step = "shadows", !.todo = WithRole("shadow")]
    /\ UNCHANGED <<store, aux>>

ShadowEnds == Step("shadows") /\ daily.todo = {} /\ Goto("monitor") /\ UNCHANGED <<store, aux>>

\* run_step: the step failed, the job goes on.
ShadowFails ==
    /\ daily.step \in {"champions", "shadows"}
    /\ daily' = [step |-> "monitor", todo |-> {}, ok |-> FALSE]
    /\ UNCHANGED <<store, aux>>

\* run_monitor writes metrics and alerts of the champion; it may fail.
Monitors(ok) ==
    /\ Step("monitor")
    /\ daily' = [daily EXCEPT !.step = "due", !.ok = @ /\ ok]
    /\ UNCHANGED <<store, aux>>

-----------------------------------------------------------------------------
(* evaluation_due and evaluate.                                            *)

\* mutant: only on the day itself
DueOnTheDay(d) == DayOfMonth(d) = evaluate_day /\ Month(d) \notin evaluated

evaluation_due(d) == DayOfMonth(d) >= evaluate_day /\ Month(d) \notin evaluated

EvaluationIsDue == Step("due") /\ evaluation_due(session) /\ Goto("evaluate") /\ UNCHANGED <<store, aux>>
EvaluationIsNotDue == Step("due") /\ ~ evaluation_due(session) /\ Goto("report") /\ UNCHANGED <<store, aux>>

\* mutant: a challenger in shadow does not hold a retrain back
NoneWaits == {}

\* with_status(..., "shadow"), read by evaluate and once more by retrain.
Challengers == WithRole("shadow")

\* due: the champion's training data is old, or the monitor found a breach.
Aged == \E m \in WithRole("champion") : session - until[m] >= retrain_age
RetrainIsDue(breach) == WithRole("champion") # {} /\ (Aged \/ breach)

\* Nothing is due, a challenger waits, or the retrain is refused.
EvaluatesOnly ==
    /\ Step("evaluate")
    /\ Goto("record")
    /\ UNCHANGED <<store, aux>>

EvaluateRetrains(breach) ==
    /\ Step("evaluate") /\ RetrainIsDue(breach) /\ Challengers = {}
    /\ Goto("retrain")
    /\ UNCHANGED <<store, aux>>

\* retrain: the challenger is registered, enters shadow and scores the session.
\* Its labels are known up to horizon sessions ago.
RetrainStarts(m) ==
    /\ Step("retrain") /\ role[m] = "none" /\ \A x \in ModelIds : x < m => role[x] # "none"
    /\ role' = [role EXCEPT ![m] = "shadow"]
    /\ until' = [until EXCEPT ![m] = session - horizon]
    /\ Stored(m, {session})
    /\ started' = [started EXCEPT ![m] = Month(session)]
    /\ Goto("record")
    /\ UNCHANGED <<session, evaluated, decided, unrecorded, fine, replays>>

\* The same model came out of the training, or the retrain is refused.
RetrainAddsNothing == Step("retrain") /\ Goto("record") /\ UNCHANGED <<store, aux>>

\* log_experiment, the last thing evaluate does.
EvaluationIsRecorded ==
    /\ Step("record")
    /\ evaluated' = evaluated \union {Month(session)}
    /\ Goto("report")
    /\ UNCHANGED <<session, role, until, series, aux>>

Unrecorded == unrecorded' = [unrecorded EXCEPT ![Month(session)] = @ + 1]

Evaluating == daily.step \in {"evaluate", "retrain", "record"}

EvaluationFails ==
    /\ Evaluating /\ MayFail
    /\ Unrecorded
    /\ daily' = [step |-> "report", todo |-> {}, ok |-> FALSE]
    /\ UNCHANGED <<store, started, decided, fine, replays>>

DailyEnds ==
    /\ Step("report")
    /\ daily' = NoJob
    /\ fine' = IF daily.ok THEN fine \union {session} ELSE fine
    /\ UNCHANGED <<store, started, decided, unrecorded, replays>>

DailyIsKilled ==
    /\ daily # NoJob /\ daily' = NoJob
    /\ \/ Evaluating /\ MayFail /\ Unrecorded
       \/ ~ Evaluating /\ UNCHANGED unrecorded
    /\ UNCHANGED <<store, started, decided, fine, replays>>

-----------------------------------------------------------------------------
(* The operator.                                                           *)

\* lifecycle shadow --replay: a range of one model.
Replays(m, from, to) ==
    /\ replays < MaxReplays
    /\ role[m] # "none" /\ from <= to /\ to <= session
    /\ Stored(m, from .. to)
    /\ replays' = replays + 1
    /\ UNCHANGED <<session, role, until, evaluated, daily, started, decided, unrecorded, fine>>

\* Both models predicted it, after both training cut-offs, and its label is known.
Realised(m, c) ==
    {d \in series[m] \intersect series[c] : d > until[m] /\ d > until[c] /\ d + horizon <= session}

\* The weeks between the challenger's first and last stored prediction.
Span(m, c) ==
    LET ds == {d \in series[m] : d > until[m] /\ d > until[c]}
    IN  {e - d : d \in ds, e \in ds}

\* compare: enough shadow time and realised days; whether it then wins is open.
MayPromote(m, c) == (\E n \in Span(m, c) : n >= shadow_min) /\ Cardinality(Realised(m, c)) >= min_days

Settles == decided' = [decided EXCEPT ![Month(session)] = @ + 1]

Promotes(m, c) ==
    /\ role[m] = "shadow" /\ role[c] = "champion" /\ MayPromote(m, c)
    /\ role' = [role EXCEPT ![m] = "champion", ![c] = "retired"]
    /\ Settles
    /\ UNCHANGED <<session, until, series, evaluated, daily, started, unrecorded, fine, replays>>

Rejects(m) ==
    /\ role[m] = "shadow"
    /\ role' = [role EXCEPT ![m] = "retired"]
    /\ Settles
    /\ UNCHANGED <<session, until, series, evaluated, daily, started, unrecorded, fine, replays>>

-----------------------------------------------------------------------------

LifecycleNext ==
    \/ NewSession \/ ShadowStarts \/ ShadowTurns \/ ShadowEnds \/ ShadowFails
    \/ \E m \in ModelIds : ShadowStores(m) \/ RetrainStarts(m) \/ Rejects(m)
    \/ \E b \in BOOLEAN : Monitors(b) \/ EvaluateRetrains(b)
    \/ EvaluatesOnly
    \/ EvaluationIsDue \/ EvaluationIsNotDue \/ RetrainAddsNothing
    \/ EvaluationIsRecorded \/ EvaluationFails \/ DailyEnds \/ DailyIsKilled
    \/ \E m \in ModelIds, from, to \in Calendar : Replays(m, from, to)
    \/ \E m, c \in ModelIds : Promotes(m, c)

LifecycleSpec == LifecycleInit /\ [][LifecycleNext]_lifecycleVars

-----------------------------------------------------------------------------
(* Properties.                                                             *)

Attempts(x) == Cardinality({m \in ModelIds : started[m] = x})

\* A month starts a second automatic challenger only after the first was
\* promoted or rejected and an evaluation of that month was not recorded: a job
\* that is killed or fails after its retrain does not retrain again when it is
\* repeated.
OneAttemptPerMonth ==
    \A x \in Months : Attempts(x) <= 1 + decided[x] /\ Attempts(x) <= 1 + unrecorded[x]

\* A month is evaluated as soon as one daily job from its evaluation day on ends
\* well, whichever jobs before it were missed, failed or were killed.
MonthsAreEvaluated ==
    \A d \in fine : DayOfMonth(d) >= evaluate_day => Month(d) \in evaluated

\* The monthly evaluation happens, and retrains once (evaluation_due, evaluate):
\* jobs that are missed, fail or are killed anywhere neither lose the month nor
\* start a challenger beside the one of the month.
MonthsAreServedOnce == MonthsAreEvaluated /\ OneAttemptPerMonth
=============================================================================
