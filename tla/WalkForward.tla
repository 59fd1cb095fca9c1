--------------------------- MODULE WalkForward ---------------------------
(***************************************************************************)
(* Walk-forward studies: the labels of a decision date (features/labels.py)*)
(* with the session each one ends at, the folds planned over the sessions  *)
(* of a frame (backtest/walkforward.py), the purged and split training     *)
(* rows (swing/folds.py, invest/walkforward.py), the model trained on all  *)
(* development data and the rows its figures are computed from.            *)
(*                                                                         *)
(* Labels look forward by design, so what matters is what a model has      *)
(* already seen.  Two histories of the market are kept: they are the same  *)
(* up to a session and then go apart.  What is fitted before a session     *)
(* must not tell which of the two the future will be.                      *)
(***************************************************************************)
EXTENDS Integers, Sequences, FiniteSets

CONSTANTS
    Listed,        \* stocks
    Markets,       \* what a session may leave: a bar [open, high, low, close], or Suspended, each
    Suspended,     \* no bar
    Forks,         \* the last sessions the two histories may have in common
    Plans,         \* fold plans, see plan_folds
    LastBar,       \* sessions of the calendar
    held_out,      \* the sessions make_holdout keeps at the end
    horizons,      \* of the forward returns
    barrier,       \* sessions a barrier trade may stay open
    target_width,  \* target_mult x ATR
    stop_width     \* stop_mult x ATR

ASSUME FoldConstants ==
    /\ {LastBar, held_out, barrier, target_width, stop_width} \subseteq Nat \ {0}
    /\ horizons \subseteq Nat \ {0} /\ horizons # {}
    /\ held_out < LastBar /\ Forks \subseteq Nat
    /\ \A plan \in Plans :
          /\ {plan.train, plan.test, plan.step, plan.val} \subseteq Nat \ {0} /\ plan.embargo \in Nat
          /\ plan.labels \subseteq horizons \union {0}
    \* repair_ohlc (features/data.py) has put the prices of a bar in order.
    /\ \A m \in Markets, i \in Listed :
          m[i] # Suspended => /\ {m[i].open, m[i].high, m[i].low, m[i].close} \subseteq Int
                              /\ m[i].low <= m[i].open /\ m[i].open <= m[i].high

VARIABLES
    history,       \* the bars of the stocks, session by session
    otherwise,     \* the same had the future gone another way
    fork,          \* the last session the two have in common
    study          \* what the last walk-forward run fitted and scored

foldVars == <<history, otherwise, fork, study>>

NoStudy == [done |-> FALSE]
Unknown == [value |-> <<>>, ends |-> 0]

-----------------------------------------------------------------------------
(* Labels.                                                                 *)

\* The series of one stock.
Of(h, i) == [t \in DOMAIN h |-> h[t][i]]

Trades(h, t) == t \in DOMAIN h /\ h[t] # Suspended

\* The session an outcome is known at; 0 if it is not.
end_date(h, t, steps) == IF steps > 0 /\ t + steps <= Len(h) THEN t + steps ELSE 0

forward_return(h, t, n) ==
    IF Trades(h, t) /\ Trades(h, t + n)
    THEN [value |-> <<h[t].close, h[t + n].close>>, ends |-> end_date(h, t, n)]
    ELSE Unknown

\* mutant: on a session that touches both barriers the target wins
TargetFirst(h, t, out, k) ==
    LET target == h[t].close + target_width
        stop   == h[t].close - stop_width
    IN  IF out.sign # 0 \/ ~Trades(h, t + k) THEN out
        ELSE IF h[t + k].high >= target
             THEN [sign |-> 1, exit |-> IF h[t + k].open >= target THEN h[t + k].open ELSE target, steps |-> k]
        ELSE IF h[t + k].low <= stop
             THEN [sign |-> -1, exit |-> IF h[t + k].open <= stop THEN h[t + k].open ELSE stop, steps |-> k]
        ELSE out

\* What becomes of a trade in the session k after its decision: a session
\* without a bar is skipped, a session that touches both barriers is a stop,
\* and one that opens beyond a barrier leaves at the open.
after_session(h, t, out, k) ==
    LET target == h[t].close + target_width
        stop   == h[t].close - stop_width
    IN  IF out.sign # 0 \/ ~Trades(h, t + k) THEN out
        ELSE IF h[t + k].low <= stop
             THEN [sign |-> -1, exit |-> IF h[t + k].open <= stop THEN h[t + k].open ELSE stop, steps |-> k]
        ELSE IF h[t + k].high >= target
             THEN [sign |-> 1, exit |-> IF h[t + k].open >= target THEN h[t + k].open ELSE target, steps |-> k]
        ELSE out

\* The barriers are looked at one session after the other.
OpenTrade == [sign |-> 0, exit |-> 0, steps |-> 0]
touched(h, t) ==
    LET out[k \in 0..barrier] == IF k = 0 THEN OpenTrade ELSE after_session(h, t, out[k - 1], k)
    IN  out[barrier]

\* No label unless the whole window fits in the data; a trade that times out
\* leaves at the close of the last session, if there is one.
triple_barrier(h, t) ==
    IF ~Trades(h, t) \/ t + barrier > Len(h) THEN Unknown
    ELSE LET out == touched(h, t) IN
         IF out.sign # 0
         THEN [value |-> <<out.sign, out.exit, out.steps>>, ends |-> end_date(h, t, out.steps)]
         ELSE IF Trades(h, t + barrier)
         THEN [value |-> <<0, h[t + barrier].close, barrier>>, ends |-> end_date(h, t, barrier)]
         ELSE Unknown

\* The labels of a row: one forward return per horizon, and 0 for the barrier
\* trade of the SWING frame.
Labels(h, t, names) ==
    [n \in names |-> IF n = 0 THEN triple_barrier(h, t) ELSE forward_return(h, t, n)]

\* mutant: the shortest label purges
FirstEnd(labels) ==
    LET known == {labels[n].ends : n \in DOMAIN labels} \ {0}
    IN  IF known = {} THEN 0 ELSE CHOOSE e \in known : \A f \in known : e <= f

\* label_end_max: the latest end among the labels of the row that are known.
with_label_end(labels) ==
    LET known == {labels[n].ends : n \in DOMAIN labels} \ {0}
    IN  IF known = {} THEN 0 ELSE CHOOSE e \in known : \A f \in known : f <= e

\* A frame has a row <<session, stock>> wherever a stock trades.
Frame(h, names) ==
    [r \in {x \in (DOMAIN h) \X Listed : h[x[1]][x[2]] # Suspended} |->
        LET labels == Labels(Of(h, r[2]), r[1], names)
        IN  [labels |-> labels, ends |-> with_label_end(labels)]]

\* The sessions of some rows, in their order.
Sessions(rows) ==
    LET s[t \in 0..LastBar] ==
            IF t = 0 THEN <<>>
            ELSE IF \E r \in rows : r[1] = t THEN Append(s[t - 1], t) ELSE s[t - 1]
    IN  s[LastBar]
Before(sessions, end) == SubSeq(sessions, 1, Cardinality({k \in DOMAIN sessions : sessions[k] < end}))

-----------------------------------------------------------------------------
(* Folds.                                                                  *)

HoldoutStart(h) == Len(h) - held_out + 1

\* Windows over the sessions before ``end``; positions count from one.
make_folds(sessions, plan, end) ==
    LET s == Before(sessions, end)
        first(k) == plan.train + plan.embargo + k * plan.step + 1
        fits(k)  == first(k) + plan.test - 1 <= Len(s)
        last_train(k) == first(k) - plan.embargo - 1
        fold(k) == [train_start |-> s[IF plan.expanding THEN 1 ELSE last_train(k) - plan.train + 1],
                    train_end   |-> s[last_train(k)],
                    test_start  |-> s[first(k)],
                    test_end    |-> s[first(k) + plan.test - 1]]
    IN  {fold(k) : k \in {j \in 0..Len(s) : fits(j)}}

\* Rows of the training window whose labels ended before the test window.
purge_train(frame, fold) ==
    {r \in DOMAIN frame :
        /\ fold.train_start <= r[1] /\ r[1] <= fold.train_end
        /\ frame[r].ends # 0
        /\ frame[r].ends < fold.test_start}

\* The last ``val`` sessions that are left validate; a row before them whose
\* label is still open when they start is dropped from the fit.
split_fold(frame, fold, plan) ==
    LET train == purge_train(frame, fold)
        s     == Sessions(train)
    IN  IF Len(s) <= plan.val THEN [raised |-> TRUE]
        ELSE LET val_start == s[Len(s) - plan.val + 1] IN
             [raised |-> FALSE, fold |-> fold, val_start |-> val_start,
              val |-> {r \in train : r[1] >= val_start},
              fit |-> {r \in train : r[1] < val_start /\ frame[r].ends < val_start},
              test |-> {r \in DOMAIN frame : fold.test_start <= r[1] /\ r[1] <= fold.test_end}]

\* The rows the tuning and the boosters read of a fold, and the rows the
\* calibration and the table of holding times read.
FittedRows(split)     == split.fit
Calibrated(split) == split.val

\* The fold of the model for the held-out period.  A negative position counts
\* from the end of the sessions, as it does in Python.
final_fold(frame, plan, start) ==
    LET s == Sessions(DOMAIN frame)
        at == Len(Before(s, start)) - plan.embargo
        wrapped == IF at >= 1 THEN at ELSE at + Len(s)
    IN  IF wrapped \notin DOMAIN s THEN [raised |-> TRUE]
        ELSE [raised |-> FALSE, train_start |-> s[1], train_end |-> s[wrapped],
              test_start |-> start, test_end |-> LastBar]

\* Rows whose label is known and ended before the held-out period: what
\* label_known_before and evaluable leave for the figures.
label_known_before(frame, rows, n, start) ==
    {r \in rows : frame[r].labels[n].ends # 0 /\ frame[r].labels[n].ends < start}

-----------------------------------------------------------------------------
FoldsInit ==
    /\ history = <<>> /\ otherwise = <<>>
    /\ fork \in Forks
    /\ study = NoStudy

\* A session closes, in both histories; up to the fork it is the same one.
BarCloses ==
    /\ Len(history) < LastBar
    /\ \E m, n \in Markets :
          /\ (Len(history) < fork => n = m)
          /\ (Len(history) = fork => n # m)
          /\ history' = Append(history, m)
          /\ otherwise' = Append(otherwise, n)
    /\ UNCHANGED <<fork, study>>

\* run_walk_forward and fit_final over the whole frame.  A fold that is too
\* short, rows too few to fit, or no fold at all end the run with nothing.
RunStudy(plan) ==
    /\ Len(history) = LastBar /\ ~study.done
    /\ LET frame  == Frame(history, plan.labels)
           start  == HoldoutStart(history)
           splits == {split_fold(frame, f, plan) : f \in make_folds(Sessions(DOMAIN frame), plan, start)}
           last   == final_fold(frame, plan, start)
           final  == IF last.raised THEN last ELSE split_fold(frame, last, plan)
       IN  /\ splits # {} /\ \A s \in splits \cup {final} : ~s.raised /\ FittedRows(s) # {}
           /\ study' = [done |-> TRUE, labels |-> plan.labels, splits |-> splits, final |-> final,
                        scored |-> [n \in plan.labels |->
                            label_known_before(frame, UNION {s.test : s \in splits}, n, start)]]
    /\ UNCHANGED <<history, otherwise, fork>>

FoldsNext == BarCloses \/ \E plan \in Plans : RunStudy(plan)

FoldsSpec == FoldsInit /\ [][FoldsNext]_foldVars

-----------------------------------------------------------------------------
\* The labels of these rows are the same in both histories.
Settled(rows, n) ==
    \A r \in rows : LET a == Labels(Of(history, r[2]), r[1], {n})[n] IN
                    a # Unknown => a = Labels(Of(otherwise, r[2]), r[1], {n})[n]

AgreeBefore(t) == t <= fork + 1

(* Whatever a model was fitted, tuned, stopped or calibrated on was settled*)
(* before the rows it is judged on: the targets of the fit rows do not     *)
(* change with what happens from the validation window on, those of the    *)
(* validation rows not with the test window, and neither those of the      *)
(* final model nor of the published figures with the held-out period.      *)
TargetsAreSettled ==
    study.done =>
        /\ \A s \in study.splits \cup {study.final} : \A n \in study.labels :
              /\ AgreeBefore(s.val_start) => Settled(FittedRows(s), n)
              /\ AgreeBefore(s.fold.test_start) => Settled(Calibrated(s), n)
        /\ AgreeBefore(HoldoutStart(history)) =>
              \A n \in study.labels : Settled(study.scored[n], n)

(* A barrier label tells the first session that touched a barrier, the     *)
(* stop where one session touched both, and a price the trade could be     *)
(* left at on that session.                                                *)
FirstTouchDecides ==
    \A t \in DOMAIN history, i \in Listed :
        LET h == Of(history, i)
            l == triple_barrier(h, t)
            hits == {u \in t+1..t+barrier :
                        Trades(h, u) /\ (\/ h[u].low <= h[t].close - stop_width
                                         \/ h[u].high >= h[t].close + target_width)}
        IN  (l # Unknown /\ hits # {}) =>
                LET u == CHOOSE v \in hits : \A w \in hits : v <= w IN
                /\ l.ends = u
                /\ l.value[1] = -1 <=> h[u].low <= h[t].close - stop_width
                /\ h[u].low <= l.value[2] /\ l.value[2] <= h[u].high
=============================================================================
