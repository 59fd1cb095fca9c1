------------------------------ MODULE HeldOut ------------------------------
(***************************************************************************)
(* The research jobs and the held-out period (swing/job.py, invest/job.py, *)
(* backtest/job.py, backtest/walkforward.py) next to the retraining of     *)
(* lifecycle/retrain.py.  A research run trains final models on the        *)
(* development data and stores its verdict in a file; `oos` opens the      *)
(* held-out period when the newest verdict stands under what is registered *)
(* today, and records that it did.  The commands of several operators      *)
(* interleave, each may be killed between two of its writes, and the data  *)
(* and the configuration move on meanwhile.                                *)
(*                                                                         *)
(* A family of models (swing, invest) has presets, trained one after the   *)
(* other by one command.  What a model computed is not modelled: it is     *)
(* known by the configuration it was trained under, the state of the data, *)
(* and the last session whose prices its labels read.                      *)
(***************************************************************************)
EXTENDS Integers, Sequences, FiniteSets

CONSTANTS
    Operators,              \* who runs commands
    Families,               \* the research jobs: sequences of presets
    Settings,               \* configurations the files may hold
    RuleOf,                 \* what of a configuration is pre-registered
    Passing,                \* <<configuration, preset>> whose walk-forward passes
    oos_months,             \* length of the held-out period, in sessions
    embargo_sessions,       \* sessions between training and what follows it
    FirstSession,           \* the history ends here at first
    protected_start,        \* lifecycle.protected_period[0]
    MaxMoves, MaxCommands   \* bounds: changes of data or file; commands

ASSUME HeldOutConstants ==
    /\ {oos_months, embargo_sessions, FirstSession, protected_start, MaxMoves,
        MaxCommands} \subseteq Nat
    /\ 0 < oos_months /\ oos_months < FirstSession
    /\ DOMAIN RuleOf = Settings
    /\ \A f \in Families : f # <<>> /\ f \in Seq({f[i] : i \in DOMAIN f})

VARIABLES
    today,      \* last session of the calendar
    restated,   \* how often history was rewritten
    setting,    \* the configuration on disk
    finals,     \* models named <preset>_final, by version
    payloads,   \* newest stored run of every preset (payload.json)
    reveals,    \* experiments named oos:<period>, in order
    consumed,   \* experiment holdout:consumed exists
    challenger, \* presets with a challenger in shadow
    command,    \* what every operator is running
    moves,      \* aux: changes of data or configuration so far
    started,    \* aux: commands started so far
    finished    \* aux: every run that got as far as its verdict

heldOutVars == <<today, restated, setting, finals, payloads, reveals, consumed,
                 challenger, command, moves, started,
                 finished>>

PresetNames == UNION {{f[i] : i \in DOMAIN f} : f \in Families}
NoPayload == [stored |-> FALSE]
NoCommand == [step |-> "none"]

world == <<today, restated, setting>>

HeldOutInit ==
    /\ today = FirstSession /\ restated = 0 /\ setting \in Settings
    /\ finals = [s \in PresetNames |-> <<>>]
    /\ payloads = [s \in PresetNames |-> NoPayload]
    /\ reveals = <<>> /\ consumed = FALSE /\ challenger = {}
    /\ command = [o \in Operators |-> NoCommand]
    /\ moves = 0 /\ started = 0 /\ finished = {}

Runs(o, step) == command[o].step = step
Becomes(o, c) == command' = [command EXCEPT ![o] = c]

Starts(o, c) ==
    /\ Runs(o, "none") /\ started < MaxCommands /\ started' = started + 1
    /\ Becomes(o, c)

-----------------------------------------------------------------------------
(* What a command reads when it starts.                                    *)

\* The last `months` of the sessions.
make_holdout(last) == [start |-> last - oos_months + 1, end |-> last]

\* The setup of a command: configuration, data and held-out period.
load_setup == [cfg |-> setting, last |-> today, data |-> restated]

\* The part of the configuration that a run registers: presets, candidates,
\* grids, folds and the rule of the decision.
Rule(setup) == RuleOf[setup.cfg]

\* What a run registers before it trains anything, and `oos` compares again:
\* rule, held-out period, content of the data.
preregistration(setup) ==
    [rule |-> Rule(setup), holdout |-> make_holdout(setup.last), data |-> setup.data]

oos_status(period) == \E i \in DOMAIN reveals : reveals[i].period = period

Latest(s) == finals[s][Len(finals[s])]

\* register_artifact: a version per content, the newest being reused.
Registered(s, model) ==
    IF finals[s] # <<>> /\ Latest(s) = model THEN finals
    ELSE [finals EXCEPT ![s] = Append(@, model)]

-----------------------------------------------------------------------------
(* The research run: run_swing, run_invest.                                *)

RunStarts(o) ==
    /\ \E f \in Families : \E todo \in {f} \union {<<f[i]>> : i \in DOMAIN f} :
          Starts(o, [step |-> "train", todo |-> todo, setup |-> load_setup])
    /\ UNCHANGED <<world, moves, finals, payloads, reveals, consumed,
                   challenger, finished>>

\* The final model: everything before the held-out period, labels purged
\* against its start.
fit_final(setup) ==
    [cfg |-> setup.cfg, data |-> setup.data, last |-> make_holdout(setup.last).start - 1]

RunRegistersFinal(o) ==
    /\ Runs(o, "train")
    /\ LET c == command[o]  s == Head(c.todo) IN
       /\ finals' = Registered(s, fit_final(c.setup))
       /\ Becomes(o, [c EXCEPT !.step = "judge"])
    /\ UNCHANGED <<world, moves, payloads, reveals, consumed, challenger,
                   started, finished>>

\* The candidates are evaluated on the development data next to the baselines,
\* and the best of them is judged by the registered rule.
Passed(setup, s) == <<setup.cfg, s>> \in Passing

\* What is kept of a run: the verdict and the registration it was reached under.
Payload(setup, s) ==
    [stored |-> TRUE, prereg |-> preregistration(setup), passed |-> Passed(setup, s)]

\* The file, and on to the next preset.
RunStoresPayload(o) ==
    /\ Runs(o, "judge")
    /\ LET c == command[o]
           s == Head(c.todo)
           p == Payload(c.setup, s)
       IN /\ payloads' = [payloads EXCEPT ![s] = p]
          /\ finished' = finished \union {[preset |-> s, run |-> p]}
          /\ Becomes(o, IF Len(c.todo) = 1 THEN NoCommand
                        ELSE [c EXCEPT !.step = "train", !.todo = Tail(@)])
    /\ UNCHANGED <<world, moves, finals, reveals, consumed, challenger,
                   started>>

-----------------------------------------------------------------------------
(* Opening the held-out period.                                            *)

\* The newest run of every preset of the family that ever ran.
latest_payloads(f) == {s \in {f[i] : i \in DOMAIN f} : payloads[s].stored}

\* mutant: only the rule is compared
RuleStands(s, prereg) == payloads[s].prereg.rule = prereg.rule

Stands(s, prereg) == payloads[s].prereg = prereg

\* What may be scored: nothing unless every stored run stands.
Opened(f, prereg) ==
    {s \in latest_payloads(f) :
        payloads[s].passed /\ \A z \in latest_payloads(f) : Stands(z, prereg)}

\* The models that predict the period: the highest versions of their names.
Scored(passing) == {[preset |-> s, model |-> Latest(s)] : s \in passing}

\* run_swing_oos, run_invest_oos up to the evaluation; as history, the presets
\* that had a verdict then.
OosOpens(o) ==
    /\ \E f \in Families :
          LET setup == load_setup
              passing == Opened(f, preregistration(setup))
              period == make_holdout(setup.last)
          IN /\ passing # {} /\ ~oos_status(period)
             /\ Starts(o, [step |-> "evaluate", period |-> period,
                           prereg |-> preregistration(setup),
                           scored |-> Scored(passing), ran |-> latest_payloads(f)])
    /\ UNCHANGED <<world, moves, finals, payloads, reveals, consumed,
                   challenger, finished>>

\* `backtest oos`: the baselines alone.
BaselinesOpen(o) ==
    /\ ~oos_status(make_holdout(today))
    /\ Starts(o, [step |-> "evaluate", period |-> make_holdout(today),
                  prereg |-> preregistration(load_setup), scored |-> {}, ran |-> {}])
    /\ UNCHANGED <<world, moves, finals, payloads, reveals, consumed,
                   challenger, finished>>

\* reveal_holdout: the period is looked up once more, and a record of it refuses
\* the evaluation; the transaction sees what was recorded by then.
LooksUp(o) ==
    /\ Runs(o, "evaluate")
    /\ LET c == command[o] IN
       Becomes(o, IF oos_status(c.period) THEN NoCommand
                  ELSE [step |-> "reveal", period |-> c.period, prereg |-> c.prereg,
                        scored |-> c.scored, ran |-> c.ran, known |-> Len(reveals)])
    /\ UNCHANGED <<world, moves, finals, payloads, reveals, consumed, challenger,
                   started, finished>>

\* The row: no key of the table keeps a second one of the period out.
Reveals(o) ==
    /\ Runs(o, "reveal")
    /\ LET c == command[o] IN
       reveals' = Append(reveals, [period |-> c.period, prereg |-> c.prereg,
                                   scored |-> c.scored, ran |-> c.ran, known |-> c.known])
    /\ Becomes(o, NoCommand)
    /\ UNCHANGED <<world, moves, finals, payloads, consumed, challenger,
                   started, finished>>

-----------------------------------------------------------------------------
(* Retraining: the same names, the whole history.                          *)

RetrainStarts(o) ==
    /\ \E s \in PresetNames \ challenger, consume \in BOOLEAN :
          /\ consume \/ consumed \/ today + 1 <= protected_start
          /\ Starts(o, [step |-> "fit", preset |-> s, consume |-> consume,
                        setup |-> load_setup])
    /\ UNCHANGED <<world, moves, finals, payloads, reveals, consumed,
                   challenger, finished>>

RetrainRegisters(o) ==
    /\ Runs(o, "fit")
    /\ LET c == command[o]
           model == [cfg |-> c.setup.cfg, data |-> c.setup.data, last |-> c.setup.last]
       IN /\ finals' = Registered(c.preset, model)
          /\ Becomes(o, [step |-> "admit", preset |-> c.preset, consume |-> c.consume,
                         until |-> c.setup.last - embargo_sessions,
                         new |-> finals' # finals])
    /\ UNCHANGED <<world, moves, payloads, reveals, consumed, challenger,
                   started, finished>>

\* The consumption is recorded once, a new model enters shadow.
RetrainAdmits(o) ==
    /\ Runs(o, "admit")
    /\ LET c == command[o] IN
       /\ consumed' = (consumed \/ (c.consume /\ c.until >= protected_start))
       /\ challenger' = IF c.new THEN challenger \union {c.preset} ELSE challenger
    /\ Becomes(o, NoCommand)
    /\ UNCHANGED <<world, moves, finals, payloads, reveals, started, finished>>

\* promote or reject (ModelRegistry)
ChallengerSettled ==
    /\ \E s \in challenger : challenger' = challenger \ {s}
    /\ UNCHANGED <<world, moves, finals, payloads, reveals, consumed,
                   command, started, finished>>

-----------------------------------------------------------------------------
CommandDies(o) ==
    /\ ~Runs(o, "none") /\ Becomes(o, NoCommand)
    /\ UNCHANGED <<world, moves, finals, payloads, reveals, consumed,
                   challenger, started, finished>>

WorldMoves == moves < MaxMoves /\ moves' = moves + 1

SessionCloses ==
    /\ WorldMoves /\ today' = today + 1
    /\ UNCHANGED <<restated, setting, finals, payloads, reveals, consumed, challenger,
                   command, started, finished>>

HistoryIsRestated ==
    /\ WorldMoves /\ restated' = restated + 1
    /\ UNCHANGED <<today, setting, finals, payloads, reveals, consumed, challenger,
                   command, started, finished>>

SettingIsEdited ==
    /\ WorldMoves /\ setting' \in Settings \ {setting}
    /\ UNCHANGED <<today, restated, finals, payloads, reveals, consumed, challenger,
                   command, started, finished>>

HeldOutNext ==
    \/ \E o \in Operators :
          RunStarts(o) \/ RunRegistersFinal(o) \/ RunStoresPayload(o) \/ OosOpens(o)
          \/ BaselinesOpen(o) \/ LooksUp(o) \/ Reveals(o) \/ RetrainStarts(o) \/ RetrainRegisters(o)
          \/ RetrainAdmits(o) \/ CommandDies(o)
    \/ ChallengerSettled \/ SessionCloses \/ HistoryIsRestated \/ SettingIsEdited

HeldOutSpec == HeldOutInit /\ [][HeldOutNext]_heldOutVars

-----------------------------------------------------------------------------
(* Properties.                                                             *)

\* Whatever ran, died, was edited or was restated in between (run_swing_oos,
\* run_invest_oos): a model is scored on the held-out period only if a run of its
\* preset passed under the very rule, period and data in force when the period was
\* opened, and every preset of the family that had a verdict had one under them.
ShutWithoutAPass ==
    \A i \in DOMAIN reveals :
        LET Done(s, ok) == [preset |-> s, run |-> [stored |-> TRUE, prereg |-> reveals[i].prereg,
                                                   passed |-> ok]] \in finished
        IN  /\ \A m \in reveals[i].scored : Done(m.preset, TRUE)
            /\ \A s \in reveals[i].ran : Done(s, TRUE) \/ Done(s, FALSE)

\* A period is revealed again only by a command that had looked it up before the
\* first reveal was recorded: commands that do not overlap reveal it once.
SecondRevealsOverlap ==
    \A i, j \in DOMAIN reveals :
        i < j /\ reveals[i].period = reveals[j].period => reveals[j].known < i

-----------------------------------------------------------------------------
(* Properties that the documentation states and the code breaks.           *)

\* backtest/walkforward.py:14: the period "may be REVEALED once: the first reveal
\* is recorded and any later one raises".  Not so for two commands that overlap:
\* reveal_holdout looks the record up and inserts it without a lock or a key.
RevealedOnce ==
    \A i, j \in DOMAIN reveals : i < j => reveals[i].period # reveals[j].period

\* The model scored on the held-out period was trained without it: "excluded
\* from every development fold" (backtest/walkforward.py).  Not so once a
\* retraining has registered a newer version of the name.
ScoredUnseen ==
    \A i \in DOMAIN reveals : \A m \in reveals[i].scored :
        m.model.last < reveals[i].period.start
=============================================================================
