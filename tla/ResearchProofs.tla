-------------------------- MODULE ResearchProofs --------------------------
(***************************************************************************)
(* What holds of the studies behind the models: of the held-out period,    *)
(* for any number of operators, families of presets, settings, moves of    *)
(* the data and commands; of the walk-forward folds, for any market,       *)
(* fold plans, horizons, barriers and length of the history; and of the    *)
(* cards, for any evenings, rankings, rules, budgets and price steps.      *)
(*                                                                         *)
(* Of the held-out period two arguments.  What a command scores was chosen *)
(* among verdicts that stood when it opened the period, and verdicts are   *)
(* only added to the history, so they are still there when the reveal is   *)
(* recorded.  And a command that records a reveal had seen a list of       *)
(* reveals without its period; the list only grows, so what it had not     *)
(* seen came later.                                                        *)
(*                                                                         *)
(* Of the folds one: a label that is known by a session is a matter of the *)
(* bars up to it.  The walk along the barriers is told without its steps,  *)
(* by the first session that touches one, and that session is the same in  *)
(* any two histories that agree up to it.                                  *)
(*                                                                         *)
(* Of the cards three.  A rounded price stays in the part of the scale its *)
(* step belongs to, or is the first price of the next part, so whatever    *)
(* the builders round is a price of the exchange; the rest of a card       *)
(* follows from what they refuse.  What the aggregator counts of a limit   *)
(* is never less than what its cards need, and a card that shrinks keeps   *)
(* its levels.  And a weight on its way is between two targets in          *)
(* proportion, so the weights in force add up to no more than the larger.  *)
(***************************************************************************)
EXTENDS HeldOut, WalkForward, Cards, FiniteSetTheorems, SequenceTheorems, WellFoundedInduction, TLAPS

USE HeldOutConstants

-----------------------------------------------------------------------------
(* Types.                                                                  *)

Period == [start : Int, end : Int]
Setup == [cfg : Settings, last : Nat, data : Nat]
Model == [cfg : Settings, data : Nat, last : Int]
Prereg == [rule : {RuleOf[x] : x \in Settings}, holdout : Period, data : Nat]
Verdict == [stored : {TRUE}, prereg : Prereg, passed : BOOLEAN]
Score == [preset : PresetNames, model : Model]
Reveal == [period : Period, prereg : Prereg, scored : SUBSET Score, ran : SUBSET PresetNames,
           known : Nat]

Running == [step : {"train", "judge"}, todo : Seq(PresetNames) \ {<<>>}, setup : Setup]
Evaluating == [step : {"evaluate"}, period : Period, prereg : Prereg, scored : SUBSET Score,
               ran : SUBSET PresetNames]
Recording == [step : {"reveal"}, period : Period, prereg : Prereg, scored : SUBSET Score,
              ran : SUBSET PresetNames, known : Nat]
Fitting == [step : {"fit"}, preset : PresetNames, consume : BOOLEAN, setup : Setup]
Admitting == [step : {"admit"}, preset : PresetNames, consume : BOOLEAN, until : Int, new : BOOLEAN]
Command == {NoCommand} \union Running \union Evaluating \union Recording \union Fitting \union Admitting

HeldOutTypeOK ==
    /\ today \in Nat /\ restated \in Nat /\ setting \in Settings
    /\ finals \in [PresetNames -> Seq(Model)]
    /\ payloads \in [PresetNames -> {NoPayload} \union Verdict]
    /\ reveals \in Seq(Reveal) /\ consumed \in BOOLEAN /\ challenger \subseteq PresetNames
    /\ command \in [Operators -> Command]
    /\ moves \in Nat /\ started \in Nat /\ finished \subseteq [preset : PresetNames, run : Verdict]

-----------------------------------------------------------------------------
(* The invariant.                                                          *)

Ran(s, prereg, ok) == [preset |-> s, run |-> [stored |-> TRUE, prereg |-> prereg, passed |-> ok]]

Pass(s, prereg) == Ran(s, prereg, TRUE)

\* A run of the preset came to a verdict under the registration.
Judged(s, prereg) == \E ok \in BOOLEAN : Ran(s, prereg, ok) \in finished

\* What a command or a reveal scores had passed under what it registers, and
\* every preset of its family that had a verdict had one under that.
IsEarned(r) ==
    /\ \A m \in r.scored : Pass(m.preset, r.prereg) \in finished
    /\ \A s \in r.ran : Judged(s, r.prereg)

\* A run judges a preset whose model it has registered.
JudgedIsRegistered ==
    \A o \in Operators : Runs(o, "judge") => finals[Head(command[o].todo)] # <<>>

\* A stored verdict is one a run reached, of a preset that has a model.
PayloadsAreFinished ==
    \A s \in PresetNames : payloads[s].stored =>
        [preset |-> s, run |-> payloads[s]] \in finished /\ finals[s] # <<>>

\* What a command is about to reveal is earned.
ScoredHavePassed ==
    \A o \in Operators : command[o].step \in {"evaluate", "reveal"} => IsEarned(command[o])

\* So is what was revealed.
RevealsAreEarned == \A i \in DOMAIN reveals : IsEarned(reveals[i])

\* What a command that will record a reveal had looked through.
LookedThrough(r) == \A i \in DOMAIN reveals : i <= r.known => reveals[i].period # r.period

RecordersHaveLooked ==
    \A o \in Operators : Runs(o, "reveal") =>
        command[o].known <= Len(reveals) /\ LookedThrough(command[o])

\* What the recorder of a reveal had looked through stands before it.
RevealsHaveLooked ==
    \A j \in DOMAIN reveals : reveals[j].known < j /\ LookedThrough(reveals[j])

HeldOutInv ==
    /\ HeldOutTypeOK /\ JudgedIsRegistered /\ PayloadsAreFinished /\ ScoredHavePassed
    /\ RevealsAreEarned /\ RecordersHaveLooked /\ RevealsHaveLooked

-----------------------------------------------------------------------------
(* What commands compute.                                                  *)

LEMMA BoundsAreNumbers ==
    oos_months \in Nat /\ embargo_sessions \in Nat /\ FirstSession \in Nat
  OBVIOUS

LEMMA PeriodType == ASSUME NEW n \in Nat PROVE make_holdout(n) \in Period
  BY BoundsAreNumbers DEF make_holdout, Period

LEMMA SetupType == ASSUME HeldOutTypeOK PROVE load_setup \in Setup
  BY DEF HeldOutTypeOK, load_setup, Setup

LEMMA PreregType == ASSUME NEW u \in Setup PROVE preregistration(u) \in Prereg
  BY PeriodType DEF preregistration, Rule, Prereg, Setup

LEMMA FinalType == ASSUME NEW u \in Setup PROVE fit_final(u) \in Model
  <1>1. make_holdout(u.last).start \in Int
    BY PeriodType DEF Setup, Period
  <1> QED
    BY <1>1 DEF fit_final, Setup, Model

LEMMA PayloadType == ASSUME NEW u \in Setup, NEW s PROVE Payload(u, s) \in Verdict
  BY PreregType DEF Payload, Verdict, Passed

\* The presets of a family are presets.
LEMMA FamilyType ==
    ASSUME NEW f \in Families
    PROVE  /\ f \in Seq(PresetNames) \ {<<>>}
           /\ \A i \in DOMAIN f : <<f[i]>> \in Seq(PresetNames) \ {<<>>}
           /\ {f[i] : i \in DOMAIN f} \subseteq PresetNames
  <1>1. {f[i] : i \in DOMAIN f} \subseteq PresetNames
    BY DEF PresetNames
  <1>2. f # <<>> /\ f \in Seq({f[i] : i \in DOMAIN f})
    OBVIOUS
  <1>3. f \in Seq(PresetNames)
    BY <1>1, <1>2, SeqMonotonic
  <1>4. \A i \in DOMAIN f : <<f[i]>> \in Seq(PresetNames) /\ <<f[i]>> # <<>>
    BY <1>1
  <1> QED
    BY <1>1, <1>2, <1>3, <1>4

\* Registering keeps or lengthens the list of one preset, and leaves a model in it.
LEMMA RegisteredType ==
    ASSUME HeldOutTypeOK, NEW s \in PresetNames, NEW m \in Model
    PROVE  /\ Registered(s, m) \in [PresetNames -> Seq(Model)]
           /\ Registered(s, m)[s] # <<>>
           /\ \A z \in PresetNames : finals[z] # <<>> => Registered(s, m)[z] # <<>>
  <1>1. finals \in [PresetNames -> Seq(Model)]
    BY DEF HeldOutTypeOK
  <1>2. Append(finals[s], m) \in Seq(Model) /\ Append(finals[s], m) # <<>>
    BY <1>1, AppendProperties
  <1> QED
    BY <1>1, <1>2 DEF Registered

\* The step of a command tells its kind.
LEMMA CommandTypes ==
    ASSUME NEW c \in Command
    PROVE  /\ c.step \in {"train", "judge"} => c \in Running
           /\ c.step = "evaluate" => c \in Evaluating
           /\ c.step = "reveal" => c \in Recording
           /\ c.step = "fit" => c \in Fitting
           /\ c.step = "admit" => c \in Admitting
  BY DEF Command, NoCommand, Running, Evaluating, Recording, Fitting, Admitting

\* A preset with a model has a newest one.
LEMMA LatestType ==
    ASSUME HeldOutTypeOK, NEW s \in PresetNames, finals[s] # <<>>
    PROVE  Latest(s) \in Model
  <1>1. finals[s] \in Seq(Model)
    BY DEF HeldOutTypeOK
  <1>2. Len(finals[s]) \in 1 .. Len(finals[s])
    BY <1>1, EmptySeq, LenProperties
  <1> QED
    BY <1>1, <1>2, ElementOfSeq DEF Latest

\* The first of a list of presets is one, and what follows is a list.
LEMMA TodoType ==
    ASSUME NEW q \in Seq(PresetNames) \ {<<>>}
    PROVE  /\ Head(q) \in PresetNames /\ Tail(q) \in Seq(PresetNames)
           /\ Len(q) # 1 => Tail(q) # <<>>
  <1>1. /\ Len(q) \in Nat /\ Len(q) # 0
        /\ Head(q) \in PresetNames /\ Tail(q) \in Seq(PresetNames) /\ Len(Tail(q)) = Len(q) - 1
    BY HeadTailProperties, EmptySeq
  <1>2. Tail(q) = <<>> => Len(Tail(q)) = 0
    BY <1>1, EmptySeq
  <1> QED
    BY <1>1, <1>2

\* What is chosen for scoring has passed under the registration given, and has
\* a model that is scored; if anything is, every verdict of the family is under it.
LEMMA OpenedHavePassed ==
    ASSUME HeldOutInv, NEW f \in Families, NEW prereg, Opened(f, prereg) # {}
    PROVE  /\ Scored(Opened(f, prereg)) \subseteq Score
           /\ \A m \in Scored(Opened(f, prereg)) : Pass(m.preset, prereg) \in finished
           /\ latest_payloads(f) \subseteq PresetNames
           /\ \A s \in latest_payloads(f) : Judged(s, prereg)
  <1>1. latest_payloads(f) \subseteq PresetNames
    BY FamilyType DEF latest_payloads
  <1>2. ASSUME NEW s \in latest_payloads(f)
        PROVE  /\ payloads[s].passed \in BOOLEAN /\ Ran(s, prereg, payloads[s].passed) \in finished
               /\ finals[s] # <<>>
    <2>1. s \in PresetNames /\ payloads[s].stored /\ payloads[s].prereg = prereg
      BY <1>1 DEF Opened, latest_payloads, Stands
    <2>2. payloads[s] \in Verdict
      BY <2>1 DEF HeldOutInv, HeldOutTypeOK, NoPayload
    <2>3. payloads[s] = [stored |-> TRUE, prereg |-> prereg, passed |-> payloads[s].passed]
      BY <2>1, <2>2 DEF Verdict
    <2>4. [preset |-> s, run |-> payloads[s]] \in finished /\ finals[s] # <<>>
      BY <2>1 DEF HeldOutInv, PayloadsAreFinished
    <2> QED
      BY <2>2, <2>3, <2>4 DEF Ran, Verdict
  <1>3. \A s \in latest_payloads(f) : Judged(s, prereg)
    BY <1>2 DEF Judged
  <1>4. ASSUME NEW s \in Opened(f, prereg)
        PROVE  /\ [preset |-> s, model |-> Latest(s)] \in Score
               /\ Pass(s, prereg) \in finished
    <2>1. s \in PresetNames /\ s \in latest_payloads(f) /\ payloads[s].passed
      BY <1>1 DEF Opened
    <2>2. Latest(s) \in Model
      BY <1>2, <2>1, LatestType DEF HeldOutInv
    <2>3. payloads[s].passed = TRUE
      BY <1>2, <2>1
    <2> QED
      BY <1>2, <2>1, <2>2, <2>3 DEF Score, Pass
  <1> QED
    BY <1>1, <1>3, <1>4 DEF Scored

-----------------------------------------------------------------------------
(* Steps of commands that record no reveal.                                *)

\* What a command must have for what it is about to do.
CommandIsSound(c) ==
    /\ c \in Command
    /\ c.step = "judge" => finals[Head(c.todo)] # <<>>
    /\ c.step \in {"evaluate", "reveal"} => IsEarned(c)
    /\ c.step = "reveal" => c.known <= Len(reveals) /\ LookedThrough(c)

LEMMA CommandsAreSound ==
    ASSUME HeldOutInv, NEW o \in Operators
    PROVE  CommandIsSound(command[o])
  BY DEF HeldOutInv, HeldOutTypeOK, CommandIsSound, JudgedIsRegistered, ScoredHavePassed,
         RecordersHaveLooked, Runs

\* Models and verdicts only get more, reveals stay: what was sound is.
LEMMA SoundStays ==
    ASSUME NEW c, CommandIsSound(c), UNCHANGED reveals, finished \subseteq finished',
           \A s \in PresetNames : finals[s] # <<>> => finals'[s] # <<>>
    PROVE  CommandIsSound(c)'
  <1>1. c.step = "judge" => Head(c.todo) \in PresetNames
    BY TodoType DEF CommandIsSound, Command, NoCommand, Running, Evaluating, Recording, Fitting,
       Admitting
  <1> QED
    BY <1>1 DEF CommandIsSound, LookedThrough, IsEarned, Judged

\* A step that leaves the reveals alone keeps the invariant when its operator is
\* left with a sound command, models and verdicts only get more, and the stored
\* verdicts are of the history.
LEMMA CommandStep ==
    ASSUME HeldOutInv, HeldOutTypeOK', NEW o \in Operators, NEW c, Becomes(o, c),
           UNCHANGED reveals, finished \subseteq finished',
           \A s \in PresetNames : finals[s] # <<>> => finals'[s] # <<>>,
           PayloadsAreFinished', CommandIsSound(c)'
    PROVE  HeldOutInv'
  <1>1. ASSUME NEW p \in Operators PROVE CommandIsSound(command[p])'
    <2>1. CASE p = o
      BY <2>1 DEF HeldOutInv, HeldOutTypeOK, Becomes
    <2>2. CASE p # o
      <3>1. command'[p] = command[p]
        BY <2>2 DEF HeldOutInv, HeldOutTypeOK, Becomes
      <3> QED
        BY <3>1, CommandsAreSound, SoundStays DEF CommandIsSound, LookedThrough, IsEarned, Judged
    <2> QED
      BY <2>1, <2>2
  <1>2. JudgedIsRegistered' /\ ScoredHavePassed' /\ RecordersHaveLooked'
    BY <1>1 DEF CommandIsSound, JudgedIsRegistered, ScoredHavePassed, RecordersHaveLooked, Runs,
                LookedThrough, IsEarned, Judged
  <1>3. RevealsAreEarned' /\ RevealsHaveLooked'
    BY DEF HeldOutInv, RevealsAreEarned, IsEarned, Judged, RevealsHaveLooked, LookedThrough
  <1> QED
    BY <1>2, <1>3 DEF HeldOutInv

LEMMA NoCommandIsSound == CommandIsSound(NoCommand)
  BY DEF CommandIsSound, Command, NoCommand

\* Nothing that the invariant speaks of changes but the command.
LEMMA PlainStep ==
    ASSUME HeldOutInv, NEW o \in Operators, NEW c, Becomes(o, c), CommandIsSound(c),
           UNCHANGED <<world, finals, payloads, reveals, finished, moves>>,
           consumed' \in BOOLEAN, challenger' \subseteq PresetNames, started' \in Nat
    PROVE  HeldOutInv'
  <1>1. HeldOutTypeOK'
    BY DEF HeldOutInv, HeldOutTypeOK, Becomes, CommandIsSound, world
  <1>2. PayloadsAreFinished' /\ CommandIsSound(c)'
    BY DEF HeldOutInv, PayloadsAreFinished, CommandIsSound, LookedThrough, IsEarned, Judged
  <1> QED
    BY <1>1, <1>2, CommandStep

\* The commands of a research run.
LEMMA RunStarting ==
    ASSUME HeldOutInv, NEW o \in Operators, RunStarts(o)
    PROVE  HeldOutInv'
  <1>1. PICK f \in Families : \E todo \in {f} \union {<<f[i]>> : i \in DOMAIN f} :
             Starts(o, [step |-> "train", todo |-> todo, setup |-> load_setup])
    BY DEF RunStarts
  <1>2. PICK todo \in {f} \union {<<f[i]>> : i \in DOMAIN f} :
             Starts(o, [step |-> "train", todo |-> todo, setup |-> load_setup])
    BY <1>1
  <1>3. todo \in Seq(PresetNames) \ {<<>>} /\ load_setup \in Setup
    BY FamilyType, SetupType DEF HeldOutInv
  <1>4. CommandIsSound([step |-> "train", todo |-> todo, setup |-> load_setup])
    BY <1>3 DEF CommandIsSound, Command, Running
  <1> QED
    BY <1>2, <1>4, PlainStep DEF RunStarts, Starts, HeldOutInv, HeldOutTypeOK

LEMMA RunRegistering ==
    ASSUME HeldOutInv, NEW o \in Operators, RunRegistersFinal(o)
    PROVE  HeldOutInv'
  <1> DEFINE c == command[o]
             s == Head(c.todo)
  <1> SUFFICES ASSUME NEW d, d = [c EXCEPT !.step = "judge"] PROVE HeldOutInv'
    OBVIOUS
  <1>1. c \in Running /\ HeldOutTypeOK
    BY CommandTypes DEF RunRegistersFinal, Runs, HeldOutInv, HeldOutTypeOK
  <1>2. s \in PresetNames /\ fit_final(c.setup) \in Model
    BY <1>1, TodoType, FinalType DEF Running
  <1>3. /\ finals' = Registered(s, fit_final(c.setup)) /\ Becomes(o, d)
        /\ UNCHANGED <<world, moves, payloads, reveals, consumed, challenger, started, finished>>
    BY DEF RunRegistersFinal
  <1>4. /\ finals' \in [PresetNames -> Seq(Model)] /\ finals'[s] # <<>>
        /\ \A z \in PresetNames : finals[z] # <<>> => finals'[z] # <<>>
    BY <1>1, <1>2, <1>3, RegisteredType
  <1>5. d \in Running /\ d.todo = c.todo /\ d.step = "judge"
    BY <1>1 DEF Running
  <1>6. HeldOutTypeOK'
    BY <1>1, <1>3, <1>4, <1>5 DEF HeldOutTypeOK, Becomes, Command, world
  <1>7. PayloadsAreFinished'
    BY <1>3, <1>4 DEF HeldOutInv, PayloadsAreFinished
  <1>8. CommandIsSound(d)'
    BY <1>4, <1>5 DEF CommandIsSound, Command
  <1> QED
    BY <1>3, <1>4, <1>6, <1>7, <1>8, CommandStep

LEMMA RunStoring ==
    ASSUME HeldOutInv, NEW o \in Operators, RunStoresPayload(o)
    PROVE  HeldOutInv'
  <1> DEFINE c == command[o]
             s == Head(c.todo)
             p == Payload(c.setup, s)
             entry == [preset |-> s, run |-> p]
  <1> SUFFICES ASSUME NEW d, d = IF Len(c.todo) = 1 THEN NoCommand
                                 ELSE [c EXCEPT !.step = "train", !.todo = Tail(@)]
               PROVE  HeldOutInv'
    OBVIOUS
  <1>1. c \in Running /\ c.step = "judge" /\ HeldOutTypeOK
    BY CommandTypes DEF RunStoresPayload, Runs, HeldOutInv, HeldOutTypeOK
  <1>2. s \in PresetNames /\ p \in Verdict /\ (Len(c.todo) # 1 => Tail(c.todo) \in Seq(PresetNames) \ {<<>>})
    BY <1>1, TodoType, PayloadType DEF Running
  <1>3. /\ payloads' = [payloads EXCEPT ![s] = p] /\ finished' = finished \union {entry}
        /\ Becomes(o, d)
        /\ UNCHANGED <<world, moves, finals, reveals, consumed, challenger, started>>
    BY DEF RunStoresPayload
  <1>4. d \in Command /\ d.step \in {"none", "train"}
    <2>1. CASE Len(c.todo) = 1
      BY <2>1 DEF Command, NoCommand
    <2>2. CASE Len(c.todo) # 1
      <3>1. d = [step |-> "train", todo |-> Tail(c.todo), setup |-> c.setup]
        BY <1>1, <2>2 DEF Running
      <3> QED
        BY <1>1, <1>2, <2>2, <3>1 DEF Command, Running
    <2> QED
      BY <2>1, <2>2
  <1>5. HeldOutTypeOK'
    <2>1. payloads' \in [PresetNames -> {NoPayload} \union Verdict]
      BY <1>1, <1>2, <1>3 DEF HeldOutTypeOK
    <2>2. finished' \subseteq [preset : PresetNames, run : Verdict]
      <3>1. entry \in [preset : PresetNames, run : Verdict]
        BY <1>2
      <3> HIDE DEF entry
      <3> QED
        BY <1>1, <1>3, <3>1 DEF HeldOutTypeOK
    <2>3. command' \in [Operators -> Command]
      BY <1>1, <1>3, <1>4 DEF HeldOutTypeOK, Becomes
    <2> QED
      BY <1>1, <1>3, <2>1, <2>2, <2>3 DEF HeldOutTypeOK, world
  <1>6. finals[s] # <<>>
    BY <1>1 DEF HeldOutInv, JudgedIsRegistered, Runs
  <1>7. PayloadsAreFinished'
    <2> SUFFICES ASSUME NEW z \in PresetNames, payloads'[z].stored
                 PROVE  [preset |-> z, run |-> payloads'[z]] \in finished' /\ finals'[z] # <<>>
      BY DEF PayloadsAreFinished
    <2>1. CASE z = s
      BY <1>1, <1>2, <1>3, <1>6, <2>1 DEF HeldOutTypeOK
    <2>2. CASE z # s
      <3>1. payloads'[z] = payloads[z]
        BY <1>1, <1>3, <2>2 DEF HeldOutTypeOK
      <3> QED
        BY <1>3, <3>1 DEF HeldOutInv, PayloadsAreFinished
    <2> QED
      BY <2>1, <2>2
  <1>8. CommandIsSound(d)'
    BY <1>4 DEF CommandIsSound
  <1> QED
    BY <1>3, <1>5, <1>7, <1>8, CommandStep

\* Opening the period: what is scored has passed.
LEMMA Opening ==
    ASSUME HeldOutInv, NEW o \in Operators, OosOpens(o)
    PROVE  HeldOutInv'
  <1> DEFINE prereg == preregistration(load_setup)
             period == make_holdout(load_setup.last)
  <1>1. PICK f \in Families :
            /\ Opened(f, prereg) # {}
            /\ Starts(o, [step |-> "evaluate", period |-> period, prereg |-> prereg,
                          scored |-> Scored(Opened(f, prereg)), ran |-> latest_payloads(f)])
    BY DEF OosOpens
  <1> DEFINE c == [step |-> "evaluate", period |-> period, prereg |-> prereg,
                   scored |-> Scored(Opened(f, prereg)), ran |-> latest_payloads(f)]
  <1>2. load_setup \in Setup /\ prereg \in Prereg /\ period \in Period
    BY SetupType, PreregType, PeriodType DEF HeldOutInv, Setup
  <1>3. c.scored \subseteq Score /\ c.ran \subseteq PresetNames /\ IsEarned(c)
    BY <1>1, OpenedHavePassed DEF IsEarned
  <1>4. c \in Evaluating
    BY <1>2, <1>3 DEF Evaluating
  <1>5. CommandIsSound(c)
    BY <1>3, <1>4 DEF CommandIsSound, Command
  <1> QED
    BY <1>1, <1>5, PlainStep DEF OosOpens, Starts, HeldOutInv, HeldOutTypeOK

LEMMA BaselinesOpening ==
    ASSUME HeldOutInv, NEW o \in Operators, BaselinesOpen(o)
    PROVE  HeldOutInv'
  <1> DEFINE c == [step |-> "evaluate", period |-> make_holdout(today),
                   prereg |-> preregistration(load_setup), scored |-> {}, ran |-> {}]
  <1>1. preregistration(load_setup) \in Prereg /\ make_holdout(today) \in Period
    BY SetupType, PreregType, PeriodType DEF HeldOutInv, HeldOutTypeOK
  <1>2. c \in Evaluating
    BY <1>1 DEF Evaluating
  <1>3. CommandIsSound(c)
    BY <1>2 DEF CommandIsSound, Command, IsEarned
  <1> QED
    BY <1>3, PlainStep DEF BaselinesOpen, Starts, HeldOutInv, HeldOutTypeOK

\* The look-up: what the command knows is every reveal there is.
LEMMA LookingUp ==
    ASSUME HeldOutInv, NEW o \in Operators, LooksUp(o)
    PROVE  HeldOutInv'
  <1> DEFINE c == command[o]
             d == [step |-> "reveal", period |-> c.period, prereg |-> c.prereg,
                   scored |-> c.scored, ran |-> c.ran, known |-> Len(reveals)]
  <1>1. c \in Evaluating /\ CommandIsSound(c) /\ reveals \in Seq(Reveal)
    BY CommandsAreSound, CommandTypes DEF LooksUp, Runs, HeldOutInv, HeldOutTypeOK
  <1>2. UNCHANGED <<world, moves, finals, payloads, reveals, consumed, challenger, started, finished>>
    BY DEF LooksUp
  <1>3. CASE oos_status(c.period)
    <2>1. Becomes(o, NoCommand)
      BY <1>3 DEF LooksUp
    <2> QED
      BY <1>2, <2>1, NoCommandIsSound, PlainStep DEF HeldOutInv, HeldOutTypeOK
  <1>4. CASE ~oos_status(c.period)
    <2>1. Becomes(o, d)
      BY <1>4 DEF LooksUp
    <2>2. d \in Recording
      BY <1>1, LenProperties DEF Recording, Evaluating
    <2>3. LookedThrough(d) /\ d.known <= Len(reveals)
      BY <1>1, <1>4, LenProperties DEF LookedThrough, oos_status
    <2>4. CommandIsSound(d)
      BY <1>1, <2>2, <2>3 DEF CommandIsSound, Command, Evaluating, IsEarned
    <2> QED
      BY <1>2, <2>1, <2>4, PlainStep DEF HeldOutInv, HeldOutTypeOK
  <1> QED
    BY <1>3, <1>4

-----------------------------------------------------------------------------
(* The reveal.                                                             *)

\* One more reveal is behind what everybody has looked through.
LEMMA LongerReveals ==
    ASSUME reveals \in Seq(Reveal), NEW r \in Reveal, reveals' = Append(reveals, r)
    PROVE  /\ Len(reveals) \in Nat /\ reveals' \in Seq(Reveal) /\ Len(reveals)' = Len(reveals) + 1
           /\ DOMAIN reveals = 1 .. Len(reveals) /\ DOMAIN reveals' = 1 .. Len(reveals) + 1
           /\ \A i \in DOMAIN reveals : reveals'[i] = reveals[i]
           /\ reveals'[Len(reveals) + 1] = r
  <1>1. Len(reveals) \in Nat /\ DOMAIN reveals = 1 .. Len(reveals)
    BY LenProperties
  <1>2. /\ reveals' \in Seq(Reveal) /\ Len(reveals') = Len(reveals) + 1
        /\ \A i \in 1 .. Len(reveals) : reveals'[i] = reveals[i]
        /\ reveals'[Len(reveals) + 1] = r
    BY AppendProperties
  <1>3. DOMAIN reveals' = 1 .. Len(reveals) + 1
    BY <1>1, <1>2, LenProperties
  <1> QED
    BY <1>1, <1>2, <1>3

LEMMA Revealing ==
    ASSUME HeldOutInv, NEW o \in Operators, Reveals(o)
    PROVE  HeldOutInv'
  <1> DEFINE c == command[o]
  <1> SUFFICES ASSUME NEW r, r = [period |-> c.period, prereg |-> c.prereg, scored |-> c.scored,
                                  ran |-> c.ran, known |-> c.known]
               PROVE  HeldOutInv'
    OBVIOUS
  <1>1. /\ c \in Recording /\ CommandIsSound(c) /\ HeldOutTypeOK /\ c.step = "reveal"
        /\ r \in Reveal
    <2>1. c \in Recording /\ CommandIsSound(c) /\ HeldOutTypeOK /\ c.step = "reveal"
      BY CommandsAreSound, CommandTypes DEF Reveals, Runs, HeldOutInv, HeldOutTypeOK
    <2> QED
      BY <2>1 DEF Recording, Reveal
  <1>2. /\ reveals' = Append(reveals, r) /\ Becomes(o, NoCommand)
        /\ UNCHANGED <<world, moves, finals, payloads, consumed, challenger, started, finished>>
    BY DEF Reveals
  <1> DEFINE n == Len(reveals) + 1
  <1>3. /\ reveals' \in Seq(Reveal) /\ n \in Nat /\ Len(reveals)' = n
        /\ DOMAIN reveals = 1 .. n - 1 /\ DOMAIN reveals' = 1 .. n
        /\ reveals'[n] = r /\ \A i \in DOMAIN reveals : reveals'[i] = reveals[i]
    BY <1>1, <1>2, LongerReveals DEF HeldOutTypeOK
  <1>4. HeldOutTypeOK'
    BY <1>1, <1>2, <1>3 DEF HeldOutTypeOK, Becomes, Command, world
  <1>5. LookedThrough(r) /\ r.known <= n - 1
    BY <1>1, <1>3 DEF CommandIsSound, LookedThrough
  <1>6. ASSUME NEW x, x.known \in Nat, x.known <= n - 1, LookedThrough(x)
        PROVE  LookedThrough(x)'
    BY <1>3, <1>6 DEF LookedThrough
  <1>7. \A p \in Operators : CommandIsSound(command[p])'
    <2> SUFFICES ASSUME NEW p \in Operators PROVE CommandIsSound(command[p])'
      OBVIOUS
    <2>1. CASE p = o
      BY <1>1, <1>2, <2>1 DEF HeldOutTypeOK, Becomes, CommandIsSound, Command, NoCommand
    <2>2. CASE p # o
      <3> SUFFICES ASSUME NEW x, x = command[p] PROVE CommandIsSound(command[p])'
        OBVIOUS
      <3>1. command'[p] = x /\ CommandIsSound(x)
        BY <1>1, <1>2, <2>2, CommandsAreSound DEF HeldOutTypeOK, Becomes
      <3>2. x.step = "reveal" => x.known \in Nat /\ x.known <= n - 1 /\ LookedThrough(x)
        BY <1>3, <3>1, CommandTypes DEF CommandIsSound, Recording
      <3>3. x.step = "reveal" => x.known <= n /\ LookedThrough(x)'
        BY <1>3, <1>6, <3>2
      <3>4. CommandIsSound(x)'
        BY <1>2, <1>3, <3>1, <3>3 DEF CommandIsSound, IsEarned, Judged
      <3> QED
        BY <3>1, <3>4 DEF CommandIsSound, LookedThrough, IsEarned, Judged
    <2> QED
      BY <2>1, <2>2
  <1>8. JudgedIsRegistered' /\ ScoredHavePassed' /\ RecordersHaveLooked'
    BY <1>7 DEF CommandIsSound, JudgedIsRegistered, ScoredHavePassed, RecordersHaveLooked, Runs,
                LookedThrough, IsEarned, Judged
  <1>9. PayloadsAreFinished'
    BY <1>2 DEF HeldOutInv, PayloadsAreFinished
  <1>10. RevealsAreEarned'
    <2>1. IsEarned(r)
      BY <1>1 DEF CommandIsSound, IsEarned
    <2> QED
      BY <1>2, <1>3, <2>1 DEF HeldOutInv, RevealsAreEarned, IsEarned, Judged
  <1>11. RevealsHaveLooked'
    <2> SUFFICES ASSUME NEW j \in DOMAIN reveals', NEW x, x = reveals'[j]
                 PROVE  x.known < j /\ LookedThrough(x)'
      BY DEF RevealsHaveLooked, LookedThrough
    <2>1. CASE j = n
      BY <1>1, <1>3, <1>5, <1>6, <2>1 DEF Reveal
    <2>2. CASE j # n
      <3>1. j \in DOMAIN reveals /\ j \in 1 .. n - 1 /\ x = reveals[j]
        BY <1>3, <2>2
      <3>2. x \in Reveal /\ x.known < j /\ LookedThrough(x)
        BY <1>1, <3>1, ElementOfSeq DEF HeldOutInv, RevealsHaveLooked, HeldOutTypeOK
      <3>3. x.known \in Nat /\ x.known <= n - 1
        BY <1>3, <3>1, <3>2 DEF Reveal
      <3> QED
        BY <1>6, <3>2, <3>3
    <2> QED
      BY <2>1, <2>2
  <1> QED
    BY <1>4, <1>8, <1>9, <1>10, <1>11 DEF HeldOutInv

-----------------------------------------------------------------------------
(* Retraining, ends and the world.                                         *)

LEMMA Retraining ==
    ASSUME HeldOutInv, NEW o \in Operators, RetrainStarts(o)
    PROVE  HeldOutInv'
  <1>1. PICK s \in PresetNames \ challenger, consume \in BOOLEAN :
             Starts(o, [step |-> "fit", preset |-> s, consume |-> consume, setup |-> load_setup])
    BY DEF RetrainStarts
  <1> DEFINE c == [step |-> "fit", preset |-> s, consume |-> consume, setup |-> load_setup]
  <1>2. c \in Fitting
    BY SetupType DEF HeldOutInv, Fitting
  <1>3. CommandIsSound(c)
    BY <1>2 DEF CommandIsSound, Command
  <1> QED
    BY <1>1, <1>3, PlainStep DEF RetrainStarts, Starts, HeldOutInv, HeldOutTypeOK

LEMMA RetrainRegistering ==
    ASSUME HeldOutInv, NEW o \in Operators, RetrainRegisters(o)
    PROVE  HeldOutInv'
  <1> DEFINE c == command[o]
             m == [cfg |-> c.setup.cfg, data |-> c.setup.data, last |-> c.setup.last]
  <1> SUFFICES ASSUME NEW d, d = [step |-> "admit", preset |-> c.preset, consume |-> c.consume,
                                  until |-> c.setup.last - embargo_sessions,
                                  new |-> finals' # finals]
               PROVE  HeldOutInv'
    OBVIOUS
  <1>1. c \in Fitting /\ HeldOutTypeOK
    BY CommandTypes DEF RetrainRegisters, Runs, HeldOutInv, HeldOutTypeOK
  <1>2. c.preset \in PresetNames /\ m \in Model /\ d \in Admitting
    BY <1>1, BoundsAreNumbers DEF Fitting, Setup, Model, Admitting
  <1>3. /\ finals' = Registered(c.preset, m) /\ Becomes(o, d)
        /\ UNCHANGED <<world, moves, payloads, reveals, consumed, challenger, started, finished>>
    BY DEF RetrainRegisters
  <1>4. /\ finals' \in [PresetNames -> Seq(Model)]
        /\ \A z \in PresetNames : finals[z] # <<>> => finals'[z] # <<>>
    BY <1>1, <1>2, <1>3, RegisteredType
  <1>5. HeldOutTypeOK'
    BY <1>1, <1>2, <1>3, <1>4 DEF HeldOutTypeOK, Becomes, Command, world
  <1>6. PayloadsAreFinished'
    BY <1>3, <1>4 DEF HeldOutInv, PayloadsAreFinished
  <1>7. CommandIsSound(d)'
    BY <1>2 DEF CommandIsSound, Command, Admitting
  <1> QED
    BY <1>3, <1>4, <1>5, <1>6, <1>7, CommandStep

LEMMA Ending ==
    ASSUME HeldOutInv, NEW o \in Operators, RetrainAdmits(o) \/ CommandDies(o)
    PROVE  HeldOutInv'
  <1>1. CASE RetrainAdmits(o)
    <2>1. command[o] \in Admitting /\ HeldOutTypeOK
      BY <1>1, CommandTypes DEF RetrainAdmits, Runs, HeldOutInv, HeldOutTypeOK
    <2>2. consumed' \in BOOLEAN /\ challenger' \subseteq PresetNames
      BY <1>1, <2>1 DEF RetrainAdmits, HeldOutTypeOK, Admitting
    <2> QED
      BY <1>1, <2>1, <2>2, NoCommandIsSound, PlainStep DEF RetrainAdmits, HeldOutTypeOK
  <1>2. CASE CommandDies(o)
    BY <1>2, NoCommandIsSound, PlainStep DEF CommandDies, HeldOutInv, HeldOutTypeOK
  <1> QED
    BY <1>1, <1>2

LEMMA Elsewhere ==
    ASSUME HeldOutInv,
           \/ ChallengerSettled \/ SessionCloses \/ HistoryIsRestated \/ SettingIsEdited
           \/ UNCHANGED heldOutVars
    PROVE  HeldOutInv'
  <1>1. UNCHANGED <<finals, payloads, reveals, consumed, command, started, finished>>
    BY DEF ChallengerSettled, SessionCloses, HistoryIsRestated, SettingIsEdited, heldOutVars
  <1>2. /\ today' \in Nat /\ restated' \in Nat /\ setting' \in Settings /\ moves' \in Nat
        /\ challenger' \subseteq PresetNames
    <2>1. CASE ChallengerSettled
      BY <2>1 DEF ChallengerSettled, world, HeldOutInv, HeldOutTypeOK
    <2>2. CASE SessionCloses
      BY <2>2 DEF SessionCloses, WorldMoves, HeldOutInv, HeldOutTypeOK
    <2>3. CASE HistoryIsRestated
      BY <2>3 DEF HistoryIsRestated, WorldMoves, HeldOutInv, HeldOutTypeOK
    <2>4. CASE SettingIsEdited
      BY <2>4 DEF SettingIsEdited, WorldMoves, HeldOutInv, HeldOutTypeOK
    <2>5. CASE UNCHANGED heldOutVars
      BY <2>5 DEF heldOutVars, HeldOutInv, HeldOutTypeOK
    <2> QED
      BY <2>1, <2>2, <2>3, <2>4, <2>5
  <1>3. HeldOutTypeOK'
    BY <1>1, <1>2 DEF HeldOutInv, HeldOutTypeOK
  <1> QED
    BY <1>1, <1>3 DEF HeldOutInv, JudgedIsRegistered, PayloadsAreFinished, ScoredHavePassed,
       RevealsAreEarned, IsEarned, Judged, RecordersHaveLooked, RevealsHaveLooked, LookedThrough,
       Runs

-----------------------------------------------------------------------------
(* The theorems.                                                           *)

LEMMA InvHolds == HeldOutSpec => []HeldOutInv
  <1>1. HeldOutInit => HeldOutInv
    <2> SUFFICES ASSUME HeldOutInit PROVE HeldOutInv
      OBVIOUS
    <2>1. HeldOutTypeOK
      <3>1. /\ today \in Nat /\ restated \in Nat /\ setting \in Settings /\ moves \in Nat
            /\ started \in Nat /\ consumed \in BOOLEAN /\ challenger \subseteq PresetNames
            /\ finished \subseteq [preset : PresetNames, run : Verdict]
        BY BoundsAreNumbers DEF HeldOutInit
      <3>2. /\ finals \in [PresetNames -> Seq(Model)] /\ reveals \in Seq(Reveal)
            /\ payloads \in [PresetNames -> {NoPayload} \union Verdict]
            /\ command \in [Operators -> Command]
        BY EmptySeq DEF HeldOutInit, Command
      <3> QED
        BY <3>1, <3>2 DEF HeldOutTypeOK
    <2> QED
      BY <2>1 DEF HeldOutInit, HeldOutInv, NoPayload, NoCommand, JudgedIsRegistered,
         PayloadsAreFinished, ScoredHavePassed, RevealsAreEarned, RecordersHaveLooked,
         RevealsHaveLooked, Runs
  <1>2. HeldOutInv /\ [HeldOutNext]_heldOutVars => HeldOutInv'
    BY RunStarting, RunRegistering, RunStoring, Opening, BaselinesOpening, LookingUp, Revealing,
       Retraining, RetrainRegistering, Ending, Elsewhere DEF HeldOutNext
  <1> QED
    BY <1>1, <1>2, PTL DEF HeldOutSpec

\* Type correctness of every reachable state.
THEOREM HeldOutTypeCorrect == HeldOutSpec => []HeldOutTypeOK
  <1>1. HeldOutInv => HeldOutTypeOK
    BY DEF HeldOutInv
  <1> QED
    BY <1>1, InvHolds, PTL

\* However commands overlap and die, whatever is edited or restated: what was
\* scored on the held-out period had passed under the rule, the period and the
\* data the reveal registers, and every preset of the family that had a verdict
\* had one under them.
THEOREM ShutWithoutAPassAlways == HeldOutSpec => []ShutWithoutAPass
  <1>1. HeldOutInv => ShutWithoutAPass
    BY DEF HeldOutInv, RevealsAreEarned, IsEarned, Judged, Pass, Ran, ShutWithoutAPass
  <1> QED
    BY <1>1, InvHolds, PTL

\* A period that is recorded twice was looked up by the second command before
\* the first had recorded it: commands that do not overlap reveal it once.
THEOREM SecondRevealsOverlapAlways == HeldOutSpec => []SecondRevealsOverlap
  <1>1. HeldOutInv => SecondRevealsOverlap
    <2> SUFFICES ASSUME HeldOutInv, NEW i \in DOMAIN reveals, NEW j \in DOMAIN reveals, i < j,
                        reveals[i].period = reveals[j].period
                 PROVE  reveals[j].known < i
      BY DEF SecondRevealsOverlap
    <2>1. i \in Nat /\ reveals[j].known \in Nat
      <3>1. reveals \in Seq(Reveal)
        BY DEF HeldOutInv, HeldOutTypeOK
      <3>2. i \in 1 .. Len(reveals) /\ j \in 1 .. Len(reveals)
        BY <3>1, LenProperties
      <3>3. reveals[j] \in Reveal
        BY <3>1, <3>2, ElementOfSeq
      <3> QED
        BY <3>2, <3>3 DEF Reveal
    <2>2. ~ (i <= reveals[j].known)
      BY DEF HeldOutInv, RevealsHaveLooked, LookedThrough
    <2> QED
      BY <2>1, <2>2
  <1> QED
    BY <1>1, InvHolds, PTL

HIDE HeldOutConstants


-----------------------------------------------------------------------------
LessThan == {ss \in Nat \X Nat : ss[1] < ss[2]}

LEMMA LeastOfNaturals ==
    ASSUME NEW S, S \subseteq Nat, S # {}
    PROVE  \E n \in S : \A m \in S : n <= m
  <1>1. OpToRel(<, Nat) = LessThan
    BY Zenon DEF OpToRel, LessThan
  <1>2. IsWellFoundedOn(LessThan, Nat)
    BY <1>1, NatLessThanWellFounded
  <1>3. PICK n \in S : \A m \in S : <<m, n>> \notin LessThan
    BY <1>2, WFMin, Zenon
  <1>4. ASSUME NEW m \in S PROVE n <= m
    <2>1. m \in Nat /\ n \in Nat
      OBVIOUS
    <2>2. m < n => <<m, n>> \in LessThan
      BY <2>1 DEF LessThan
    <2> QED
      BY <1>3, <2>1, <2>2
  <1> QED
    BY <1>4

LEMMA GreatestOfNaturals ==
    ASSUME NEW n \in Nat, NEW S, S \subseteq 0..n, S # {}
    PROVE  \E m \in S : \A x \in S : x <= m
  <1>1. PICK T : T = {n - x : x \in S}
    OBVIOUS
  <1>2. T \subseteq Nat /\ T # {}
    <2>1. PICK x : x \in S
      OBVIOUS
    <2>2. n - x \in T
      BY <1>1, <2>1
    <2>3. ASSUME NEW y \in S PROVE n - y \in Nat
      <3>1. y \in 0..n
        OBVIOUS
      <3> QED
        BY <3>1
    <2> QED
      BY <1>1, <2>2, <2>3
  <1>3. PICK t \in T : \A u \in T : t <= u
    BY <1>2, LeastOfNaturals
  <1>4. PICK m \in S : t = n - m
    BY <1>1, <1>3
  <1>5. ASSUME NEW x \in S PROVE x <= m
    <2>1. n - x \in T
      BY <1>1
    <2> QED
      BY <1>3, <1>4, <2>1
  <1> QED
    BY <1>5

-----------------------------------------------------------------------------
(* Histories and the outcome of a trade.                                   *)

LEMMA FoldNumbers ==
    /\ LastBar \in Nat \ {0} /\ held_out \in Nat \ {0} /\ barrier \in Nat \ {0}
    /\ target_width \in Nat \ {0} /\ stop_width \in Nat \ {0} /\ held_out < LastBar
    /\ horizons \subseteq Nat \ {0} /\ Forks \subseteq Nat
  BY FoldConstants

\* The bars of one stock.
InOrder(b) == {b.open, b.high, b.low, b.close} \subseteq Int /\ b.low <= b.open /\ b.open <= b.high
Bars == {m[i] : m \in Markets, i \in Listed}

LEMMA BarsAreInOrder == \A b \in Bars : b = Suspended \/ InOrder(b)
  BY FoldConstants DEF Bars, InOrder

LEMMA OfIs ==
    ASSUME NEW h \in Seq(Markets), NEW i \in Listed
    PROVE  /\ Of(h, i) \in Seq(Bars) /\ Len(Of(h, i)) = Len(h) /\ DOMAIN Of(h, i) = 1..Len(h)
           /\ \A t \in 1..Len(h) : Of(h, i)[t] = h[t][i]
  <1>1. DOMAIN h = 1..Len(h) /\ Len(h) \in Nat
    OBVIOUS
  <1>2. Of(h, i) = [t \in 1..Len(h) |-> h[t][i]]
    BY <1>1 DEF Of
  <1>3. \A t \in 1..Len(h) : h[t][i] \in Bars
    BY DEF Bars
  <1> QED
    BY <1>1, <1>2, <1>3

\* A session that touches a barrier, and the trade that ends in it.
Hits(h, t, u) ==
    /\ Trades(h, u)
    /\ h[u].low <= h[t].close - stop_width \/ h[u].high >= h[t].close + target_width
Left(h, t, k) == after_session(h, t, OpenTrade, k)

\* The trade as it stands k sessions after its decision.
Told(h, t, out, k) ==
    \/ out = OpenTrade /\ \A j \in 1..k : ~Hits(h, t, t + j)
    \/ /\ out.sign \in {-1, 1} /\ out.steps \in 1..k
       /\ Hits(h, t, t + out.steps) /\ out = Left(h, t, out.steps)
       /\ \A j \in 1..(out.steps - 1) : ~Hits(h, t, t + j)

LEMMA LeftIs ==
    ASSUME NEW h \in Seq(Bars), NEW t \in DOMAIN h, h[t] # Suspended, NEW k \in Nat \ {0},
           Hits(h, t, t + k)
    PROVE  /\ Left(h, t, k).sign \in {-1, 1} /\ Left(h, t, k).steps = k
           /\ Left(h, t, k).sign = -1 <=> h[t + k].low <= h[t].close - stop_width
           /\ h[t + k].low <= Left(h, t, k).exit /\ Left(h, t, k).exit <= h[t + k].high
  <1>1. InOrder(h[t]) /\ InOrder(h[t + k])
    BY BarsAreInOrder DEF Hits, Trades
  <1>2. target_width \in Nat /\ stop_width \in Nat
    BY FoldNumbers
  <1>3. PICK out : out = OpenTrade
    OBVIOUS
  <1>4. /\ {h[t].close - stop_width, h[t].close + target_width} \subseteq Int
         /\ {h[t + k].low, h[t + k].open, h[t + k].high} \subseteq Int
         /\ h[t + k].low <= h[t + k].open /\ h[t + k].open <= h[t + k].high
    BY <1>1, <1>2 DEF InOrder
  <1>5. out.sign = 0
    BY <1>3 DEF OpenTrade
  <1>6. PICK x : x = after_session(h, t, out, k)
    OBVIOUS
  <1>7. x = Left(h, t, k)
    BY <1>3, <1>6 DEF Left
  <1>8. CASE h[t + k].low <= h[t].close - stop_width
    <2>1. x = [sign |-> -1, exit |-> IF h[t + k].open <= h[t].close - stop_width THEN h[t + k].open
                                     ELSE h[t].close - stop_width, steps |-> k]
      BY <1>5, <1>6, <1>8 DEF after_session, Hits
    <2>2. /\ x.sign = -1 /\ x.steps = k
          /\ x.exit = IF h[t + k].open <= h[t].close - stop_width THEN h[t + k].open
                      ELSE h[t].close - stop_width
      BY <2>1
    <2> QED
      BY <1>4, <1>7, <1>8, <2>2
  <1>9. CASE ~ h[t + k].low <= h[t].close - stop_width
    <2>1. x = [sign |-> 1, exit |-> IF h[t + k].open >= h[t].close + target_width THEN h[t + k].open
                                    ELSE h[t].close + target_width, steps |-> k]
      BY <1>5, <1>6, <1>9 DEF after_session, Hits
    <2>2. h[t + k].high >= h[t].close + target_width
      BY <1>9 DEF Hits
    <2>3. /\ x.sign = 1 /\ x.steps = k
          /\ x.exit = IF h[t + k].open >= h[t].close + target_width THEN h[t + k].open
                      ELSE h[t].close + target_width
      BY <2>1
    <2> QED
      BY <1>4, <1>7, <1>9, <2>2, <2>3
  <1> QED
    BY <1>8, <1>9

LEMMA ToldOn ==
    ASSUME NEW h \in Seq(Bars), NEW t \in DOMAIN h, h[t] # Suspended, NEW k \in Nat \ {0},
           NEW out, Told(h, t, out, k - 1)
    PROVE  Told(h, t, after_session(h, t, out, k), k)
  <1>1. CASE out.sign # 0
    <2>1. after_session(h, t, out, k) = out
      BY <1>1 DEF after_session
    <2>2. out.steps \in 1..k
      BY <1>1 DEF Told, OpenTrade
    <2> QED
      BY <1>1, <2>1, <2>2 DEF Told, OpenTrade
  <1>2. CASE out.sign = 0
    <2>1. out = OpenTrade /\ \A j \in 1..(k - 1) : ~Hits(h, t, t + j)
      BY <1>2 DEF Told
    <2>2. CASE Hits(h, t, t + k)
      <3>1. PICK x : x = after_session(h, t, out, k)
        OBVIOUS
      <3>2. x = Left(h, t, k)
        BY <2>1, <3>1 DEF Left
      <3>3. x.sign \in {-1, 1} /\ x.steps = k
        BY <2>2, <3>2, LeftIs
      <3> QED
        BY <2>1, <2>2, <3>1, <3>2, <3>3 DEF Told
    <2>3. CASE ~ Hits(h, t, t + k)
      <3>1. after_session(h, t, out, k) = out
        BY <2>3 DEF after_session, Hits
      <3>2. \A j \in 1..k : j = k \/ j \in 1..(k - 1)
        OBVIOUS
      <3> QED
        BY <2>1, <2>3, <3>1, <3>2 DEF Told
    <2> QED
      BY <2>2, <2>3
  <1> QED
    BY <1>1, <1>2

\* The outcomes session by session solve the recursion.
Solves(h, t, n, f) ==
    f = [k \in 0..n |-> IF k = 0 THEN OpenTrade ELSE after_session(h, t, f[k - 1], k)]

LEMMA SolutionExists ==
    ASSUME NEW h, NEW t, NEW n \in Nat
    PROVE  \E f : Solves(h, t, n, f)
  <1> DEFINE Missing == {m \in Nat : ~ \E f : Solves(h, t, m, f)}
  <1> SUFFICES ASSUME n \in Missing PROVE FALSE
    OBVIOUS
  <1>1. PICK m \in Missing : \A j \in Missing : m <= j
    <2>1. Missing \subseteq Nat /\ Missing # {}
      OBVIOUS
    <2> HIDE DEF Missing
    <2> QED
      BY <2>1, LeastOfNaturals
  <1>2. m \in Nat /\ ~ \E f : Solves(h, t, m, f)
    OBVIOUS
  <1>3. CASE m = 0
    <2>1. Solves(h, t, 0, [k \in 0..0 |-> OpenTrade])
      BY DEF Solves
    <2> QED
      BY <1>2, <1>3, <2>1
  <1>4. CASE m # 0
    <2>1. m - 1 \in Nat /\ m - 1 \notin Missing
      BY <1>1, <1>2, <1>4
    <2>2. PICK f : Solves(h, t, m - 1, f)
      BY <2>1
    <2> DEFINE g == [k \in 0..m |-> IF k = m THEN after_session(h, t, f[m - 1], m) ELSE f[k]]
    <2>3. \A k \in 0..m : g[k] = IF k = 0 THEN OpenTrade ELSE after_session(h, t, g[k - 1], k)
      <3> SUFFICES ASSUME NEW k \in 0..m
                   PROVE  g[k] = IF k = 0 THEN OpenTrade ELSE after_session(h, t, g[k - 1], k)
        OBVIOUS
      <3>1. CASE k = m
        <4>1. g[k] = after_session(h, t, f[m - 1], m) /\ g[k - 1] = f[m - 1] /\ k # 0
          BY <1>2, <1>4, <3>1
        <4> QED
          BY <3>1, <4>1
      <3>2. CASE k # m
        <4>1. k \in 0..(m - 1) /\ g[k] = f[k] /\ (k # 0 => g[k - 1] = f[k - 1])
          BY <1>2, <1>4, <3>2
        <4>2. f[k] = IF k = 0 THEN OpenTrade ELSE after_session(h, t, f[k - 1], k)
          BY <2>2, <4>1 DEF Solves
        <4> QED
          BY <4>1, <4>2
      <3> QED
        BY <3>1, <3>2
    <2>4. g = [k \in 0..m |-> g[k]]
      OBVIOUS
    <2> HIDE DEF g
    <2>5. Solves(h, t, m, g)
      BY <2>3, <2>4 DEF Solves
    <2> QED
      BY <1>2, <2>5
  <1> QED
    BY <1>3, <1>4

LEMMA TouchedSolves ==
    ASSUME NEW h, NEW t
    PROVE  \E f : Solves(h, t, barrier, f) /\ touched(h, t) = f[barrier]
  <1>1. \E f : f = [k \in 0..barrier |->
                       IF k = 0 THEN OpenTrade ELSE after_session(h, t, f[k - 1], k)]
    <2>1. PICK f : Solves(h, t, barrier, f)
      BY SolutionExists, FoldNumbers
    <2> QED
      BY <2>1 DEF Solves
  <1>2. \E f : /\ f = [k \in 0..barrier |->
                          IF k = 0 THEN OpenTrade ELSE after_session(h, t, f[k - 1], k)]
               /\ touched(h, t) = f[barrier]
    BY <1>1, Zenon DEF touched
  <1> QED
    BY <1>2 DEF Solves

\* The first session that touches a barrier decides a trade.
LEMMA TouchedIsTold ==
    ASSUME NEW h \in Seq(Bars), NEW t \in DOMAIN h, h[t] # Suspended
    PROVE  Told(h, t, touched(h, t), barrier)
  <1>1. PICK f : Solves(h, t, barrier, f) /\ touched(h, t) = f[barrier]
    BY TouchedSolves
  <1> DEFINE Wrong == {k \in 0..barrier : ~ Told(h, t, f[k], k)}
  <1> SUFFICES ASSUME barrier \in Wrong PROVE FALSE
    BY <1>1, FoldNumbers
  <1>2. PICK k \in Wrong : \A j \in Wrong : k <= j
    <2>1. Wrong \subseteq Nat /\ Wrong # {}
      OBVIOUS
    <2> HIDE DEF Wrong
    <2> QED
      BY <2>1, LeastOfNaturals
  <1>3. k \in 0..barrier /\ ~ Told(h, t, f[k], k)
    OBVIOUS
  <1>4. CASE k = 0
    <2>1. f[0] = OpenTrade
      BY <1>1, FoldNumbers DEF Solves
    <2> QED
      BY <1>3, <1>4, <2>1 DEF Told
  <1>5. CASE k # 0
    <2>1. k - 1 \in 0..barrier /\ k - 1 \notin Wrong /\ k \in Nat \ {0}
      BY <1>2, <1>3, <1>5, FoldNumbers
    <2>2. Told(h, t, f[k - 1], k - 1)
      BY <2>1
    <2>3. f[k] = after_session(h, t, f[k - 1], k)
      BY <1>1, <1>3, <1>5 DEF Solves
    <2> HIDE DEF Wrong
    <2> QED
      BY <1>3, <2>1, <2>2, <2>3, ToldOn
  <1> QED
    BY <1>4, <1>5

-----------------------------------------------------------------------------
(* Labels.                                                                 *)

Label(h, t, n) == IF n = 0 THEN triple_barrier(h, t) ELSE forward_return(h, t, n)

\* Series that agree up to a session.
Agree(h, g, e) ==
    /\ g \in Seq(Bars) /\ Len(g) = Len(h)
    /\ \A u \in DOMAIN h : u <= e => h[u] = g[u]

\* A known label of a later session ends after its decision and in the data.
LEMMA BarrierEnds ==
    ASSUME NEW h \in Seq(Bars), NEW t \in DOMAIN h, triple_barrier(h, t) # Unknown
    PROVE  /\ h[t] # Suspended /\ t + barrier <= Len(h)
           /\ \/ /\ touched(h, t).sign # 0
                 /\ triple_barrier(h, t) = [value |-> <<touched(h, t).sign, touched(h, t).exit, touched(h, t).steps>>,
                                            ends |-> t + touched(h, t).steps]
                 /\ touched(h, t).steps \in 1..barrier
              \/ /\ touched(h, t) = OpenTrade /\ Trades(h, t + barrier)
                 /\ triple_barrier(h, t) = [value |-> <<0, h[t + barrier].close, barrier>>, ends |-> t + barrier]
  <1>1. Trades(h, t) /\ ~ t + barrier > Len(h)
    BY DEF triple_barrier
  <1>2. t \in Nat /\ Len(h) \in Nat /\ barrier \in Nat \ {0}
    BY FoldNumbers
  <1>3. h[t] # Suspended /\ t + barrier <= Len(h)
    BY <1>1, <1>2 DEF Trades
  <1>4. Told(h, t, touched(h, t), barrier)
    BY <1>3, TouchedIsTold
  <1>5. PICK out : out = touched(h, t)
    OBVIOUS
  <1>6. CASE out.sign # 0
    <2>1. out.steps \in 1..barrier
      BY <1>4, <1>5, <1>6 DEF Told, OpenTrade
    <2>2. end_date(h, t, out.steps) = t + out.steps
      BY <1>2, <1>3, <2>1 DEF end_date
    <2>3. triple_barrier(h, t) = [value |-> <<out.sign, out.exit, out.steps>>, ends |-> end_date(h, t, out.steps)]
      BY <1>1, <1>5, <1>6, Zenon DEF triple_barrier
    <2> QED
      BY <1>3, <1>5, <1>6, <2>1, <2>2, <2>3
  <1>7. CASE out.sign = 0
    <2>1. out = OpenTrade
      BY <1>4, <1>5, <1>7 DEF Told
    <2>2. end_date(h, t, barrier) = t + barrier
      BY <1>2, <1>3 DEF end_date
    <2>3. Trades(h, t + barrier)
      BY <1>1, <1>5, <1>7, Zenon DEF triple_barrier
    <2>4. triple_barrier(h, t) = [value |-> <<0, h[t + barrier].close, barrier>>, ends |-> end_date(h, t, barrier)]
      BY <1>1, <1>5, <1>7, <2>3, Zenon DEF triple_barrier
    <2> QED
      BY <1>3, <1>5, <2>1, <2>2, <2>3, <2>4
  <1> QED
    BY <1>6, <1>7

LEMMA ReturnEnds ==
    ASSUME NEW h \in Seq(Bars), NEW t \in DOMAIN h, NEW n \in horizons, forward_return(h, t, n) # Unknown
    PROVE  /\ Trades(h, t) /\ Trades(h, t + n)
           /\ forward_return(h, t, n) = [value |-> <<h[t].close, h[t + n].close>>, ends |-> t + n]
  <1>1. Trades(h, t) /\ Trades(h, t + n)
    BY DEF forward_return
  <1>2. t \in Nat /\ Len(h) \in Nat /\ n \in Nat \ {0}
    BY FoldNumbers
  <1>3. end_date(h, t, n) = t + n
    BY <1>1, <1>2 DEF end_date, Trades
  <1> QED
    BY <1>1, <1>3 DEF forward_return

LEMMA LabelEnds ==
    ASSUME NEW h \in Seq(Bars), NEW t \in DOMAIN h, NEW n \in horizons \union {0}
    PROVE  /\ Label(h, t, n).ends \in 0..Len(h)
           /\ Label(h, t, n) # Unknown => Label(h, t, n).ends \in (t + 1)..Len(h)
  <1>1. Unknown.ends = 0
    BY DEF Unknown
  <1>2. t \in Nat \ {0} /\ Len(h) \in Nat /\ barrier \in Nat \ {0}
    BY FoldNumbers
  <1>3. ASSUME Label(h, t, n) # Unknown PROVE Label(h, t, n).ends \in (t + 1)..Len(h)
    <2>1. CASE n = 0
      <3>1. triple_barrier(h, t) # Unknown /\ Label(h, t, n) = triple_barrier(h, t)
        BY <1>3, <2>1 DEF Label
      <3>2. PICK s \in 1..barrier : triple_barrier(h, t).ends = t + s /\ t + barrier <= Len(h)
        BY <1>2, <3>1, BarrierEnds
      <3> QED
        BY <1>2, <3>1, <3>2
    <2>2. CASE n # 0
      <3>1. forward_return(h, t, n) # Unknown /\ Label(h, t, n) = forward_return(h, t, n) /\ n \in horizons
        BY <1>3, <2>2 DEF Label
      <3>2. forward_return(h, t, n).ends = t + n /\ t + n \in DOMAIN h
        BY <3>1, ReturnEnds DEF Trades
      <3>3. n \in Nat \ {0}
        BY <3>1, FoldNumbers
      <3> QED
        BY <1>2, <3>1, <3>2, <3>3
    <2> QED
      BY <2>1, <2>2
  <1>4. CASE Label(h, t, n) = Unknown
    BY <1>1, <1>2, <1>4
  <1>5. CASE Label(h, t, n) # Unknown
    BY <1>2, <1>3, <1>5
  <1> QED
    BY <1>4, <1>5

\* Two trades that saw the same bars are told the same.
LEMMA HitsAgree ==
    ASSUME NEW h \in Seq(Bars), NEW g, NEW t \in DOMAIN h, NEW k \in Nat, Agree(h, g, t + k)
    PROVE  \A j \in 0..k : Hits(h, t, t + j) <=> Hits(g, t, t + j)
  <1>1. DOMAIN h = 1..Len(h) /\ DOMAIN g = 1..Len(h) /\ Len(h) \in Nat /\ t \in Nat
    BY DEF Agree
  <1>2. h[t] = g[t] /\ \A u \in DOMAIN h : u <= t + k => h[u] = g[u]
    BY <1>1 DEF Agree
  <1> SUFFICES ASSUME NEW j \in 0..k PROVE Hits(h, t, t + j) <=> Hits(g, t, t + j)
    OBVIOUS
  <1>3. t + j <= t + k
    BY <1>1
  <1>4. t + j \in DOMAIN h => h[t + j] = g[t + j]
    BY <1>2, <1>3
  <1> QED
    BY <1>1, <1>2, <1>4 DEF Hits, Trades

LEMMA ToldAlike ==
    ASSUME NEW h \in Seq(Bars), NEW g, NEW t \in DOMAIN h, h[t] # Suspended, NEW a, NEW b,
           Told(h, t, a, barrier), Told(g, t, b, barrier),
           a.sign # 0 => Agree(h, g, t + a.steps), a.sign = 0 => Agree(h, g, t + barrier)
    PROVE  a = b
  <1>1. barrier \in Nat \ {0} /\ OpenTrade.sign = 0
    BY FoldNumbers DEF OpenTrade
  <1>2. CASE a.sign = 0
    <2>1. a = OpenTrade /\ \A j \in 1..barrier : ~Hits(h, t, t + j)
      BY <1>2 DEF Told
    <2>2. \A j \in 0..barrier : Hits(h, t, t + j) <=> Hits(g, t, t + j)
      BY <1>1, <1>2, HitsAgree
    <2>3. \A j \in 1..barrier : ~Hits(g, t, t + j)
      BY <1>1, <2>1, <2>2
    <2> QED
      BY <2>1, <2>3 DEF Told
  <1>3. CASE a.sign # 0
    <2>1. PICK s : s = a.steps
      OBVIOUS
    <2>2. /\ s \in 1..barrier /\ s \in Nat /\ Hits(h, t, t + s) /\ a = Left(h, t, s)
          /\ \A j \in 1..(s - 1) : ~Hits(h, t, t + j)
      BY <1>1, <1>3, <2>1 DEF Told
    <2>3. Agree(h, g, t + s)
      BY <1>3, <2>1
    <2>4. \A j \in 0..s : Hits(h, t, t + j) <=> Hits(g, t, t + j)
      BY <2>2, <2>3, HitsAgree
    <2>5. Hits(g, t, t + s)
      BY <2>2, <2>4
    <2>6. b # OpenTrade
      <3> SUFFICES ASSUME b = OpenTrade PROVE FALSE
        OBVIOUS
      <3>1. \A j \in 1..barrier : ~Hits(g, t, t + j)
        BY <1>1 DEF Told
      <3> QED
        BY <2>2, <2>5, <3>1
    <2>7. PICK r : r = b.steps
      OBVIOUS
    <2>8. /\ r \in 1..barrier /\ Hits(g, t, t + r) /\ b = Left(g, t, r)
          /\ \A j \in 1..(r - 1) : ~Hits(g, t, t + j)
      BY <2>6, <2>7 DEF Told
    <2>9. r = s
      <3>1. r \in Nat /\ s \in Nat
        BY <1>1, <2>2, <2>8
      <3>2. CASE r < s
        <4>1. r \in 1..(s - 1) /\ r \in 0..s
          BY <2>2, <2>8, <3>1, <3>2
        <4> QED
          BY <2>2, <2>4, <2>8, <4>1
      <3>3. CASE s < r
        <4>1. s \in 1..(r - 1)
          BY <2>2, <2>8, <3>1, <3>3
        <4> QED
          BY <2>5, <2>8, <4>1
      <3> QED
        BY <3>1, <3>2, <3>3
    <2>10. h[t] = g[t] /\ h[t + s] = g[t + s] /\ (Trades(h, t + s) <=> Trades(g, t + s))
      <3>1. DOMAIN h = 1..Len(h) /\ DOMAIN g = 1..Len(h) /\ Len(h) \in Nat /\ t \in Nat
        BY <2>3 DEF Agree
      <3>2. t + s \in DOMAIN h
        BY <2>2 DEF Hits, Trades
      <3> QED
        BY <2>2, <2>3, <3>1, <3>2 DEF Agree, Trades
    <2>11. Left(h, t, s) = Left(g, t, s)
      BY <2>10 DEF Left, after_session
    <2> QED
      BY <2>2, <2>8, <2>9, <2>11
  <1> QED
    BY <1>2, <1>3

\* A label that is known by a session is a matter of the bars up to it.
LEMMA LabelStands ==
    ASSUME NEW h \in Seq(Bars), NEW g, NEW t \in DOMAIN h, NEW n \in horizons \union {0}, NEW e \in Nat,
           Agree(h, g, e), Label(h, t, n) # Unknown, Label(h, t, n).ends <= e
    PROVE  Label(g, t, n) = Label(h, t, n)
  <1>1. DOMAIN h = 1..Len(h) /\ DOMAIN g = 1..Len(h) /\ Len(h) \in Nat /\ Len(g) = Len(h) /\ t \in Nat
        /\ g \in Seq(Bars) /\ t \in DOMAIN g
    BY DEF Agree
  <1>2. Label(h, t, n).ends \in (t + 1)..Len(h)
    BY LabelEnds
  <1>3. t <= e /\ h[t] = g[t]
    BY <1>1, <1>2 DEF Agree
  <1>4. CASE n # 0
    <2>1. n \in horizons /\ n \in Nat /\ Label(h, t, n) = forward_return(h, t, n)
          /\ Label(g, t, n) = forward_return(g, t, n)
      BY <1>4, FoldNumbers DEF Label
    <2>2. /\ Trades(h, t) /\ Trades(h, t + n) /\ forward_return(h, t, n).ends = t + n
      BY <2>1, ReturnEnds
    <2>3. t + n <= e /\ t + n \in DOMAIN h
      BY <2>1, <2>2 DEF Trades
    <2>4. h[t + n] = g[t + n]
      BY <2>3 DEF Agree
    <2>5. Trades(g, t) /\ Trades(g, t + n)
      BY <1>1, <1>3, <2>2, <2>3, <2>4 DEF Trades
    <2>6. end_date(h, t, n) = end_date(g, t, n)
      BY <1>1 DEF end_date
    <2> QED
      BY <1>3, <2>1, <2>2, <2>4, <2>5, <2>6 DEF forward_return
  <1>5. CASE n = 0
    <2>1. Label(h, t, n) = triple_barrier(h, t) /\ Label(g, t, n) = triple_barrier(g, t)
      BY <1>5 DEF Label
    <2>2. triple_barrier(h, t) # Unknown /\ triple_barrier(h, t).ends <= e
      BY <2>1
    <2>3. h[t] # Suspended /\ g[t] # Suspended /\ t + barrier <= Len(h) /\ barrier \in Nat \ {0}
      BY <1>3, <2>2, BarrierEnds, FoldNumbers
    <2>4. Told(h, t, touched(h, t), barrier) /\ Told(g, t, touched(g, t), barrier)
      BY <1>1, <2>3, TouchedIsTold
    <2>5. PICK a : a = touched(h, t)
      OBVIOUS
    <2>6. PICK b : b = touched(g, t)
      OBVIOUS
    <2>7. \A d \in Nat : d <= e => Agree(h, g, d)
      <3> SUFFICES ASSUME NEW d \in Nat, d <= e, NEW u \in DOMAIN h, u <= d PROVE h[u] = g[u]
        BY DEF Agree
      <3>1. u <= e
        BY <1>1
      <3> QED
        BY <3>1 DEF Agree
    <2>8. \/ a.sign # 0 /\ a.steps \in 1..barrier /\ triple_barrier(h, t).ends = t + a.steps
          \/ a.sign = 0 /\ triple_barrier(h, t).ends = t + barrier
      <3>1. OpenTrade.sign = 0
        BY DEF OpenTrade
      <3> QED
        BY <2>2, <2>5, <3>1, BarrierEnds
    <2>9. a = b
      <3>1. a.sign # 0 => Agree(h, g, t + a.steps)
        <4> SUFFICES ASSUME a.sign # 0 PROVE Agree(h, g, t + a.steps)
          OBVIOUS
        <4>1. t + a.steps <= e /\ t + a.steps \in Nat
          BY <1>1, <2>2, <2>3, <2>8
        <4> QED
          BY <2>7, <4>1
      <3>2. a.sign = 0 => Agree(h, g, t + barrier)
        <4> SUFFICES ASSUME a.sign = 0 PROVE Agree(h, g, t + barrier)
          OBVIOUS
        <4>1. t + barrier <= e /\ t + barrier \in Nat
          BY <1>1, <2>2, <2>3, <2>8
        <4> QED
          BY <2>7, <4>1
      <3> QED
        BY <2>3, <2>4, <2>5, <2>6, <3>1, <3>2, ToldAlike
    <2>10. Trades(h, t) /\ Trades(g, t) /\ ~ t + barrier > Len(h) /\ ~ t + barrier > Len(g)
      BY <1>1, <2>3 DEF Trades
    <2>11. \A k : end_date(h, t, k) = end_date(g, t, k)
      BY <1>1 DEF end_date
    <2>12. CASE a.sign # 0
      <3>1. triple_barrier(h, t) = [value |-> <<a.sign, a.exit, a.steps>>, ends |-> end_date(h, t, a.steps)]
        BY <2>5, <2>10, <2>12, Zenon DEF triple_barrier
      <3>2. triple_barrier(g, t) = [value |-> <<a.sign, a.exit, a.steps>>, ends |-> end_date(g, t, a.steps)]
        BY <2>6, <2>9, <2>10, <2>12, Zenon DEF triple_barrier
      <3> QED
        BY <2>1, <2>11, <3>1, <3>2
    <2>13. CASE a.sign = 0
      <3>1. Trades(h, t + barrier)
        BY <2>2, <2>5, <2>10, <2>13, Zenon DEF triple_barrier
      <3>2. t + barrier <= e /\ t + barrier \in DOMAIN h
        BY <2>2, <2>8, <2>13, <3>1 DEF Trades
      <3>3. h[t + barrier] = g[t + barrier] /\ Trades(g, t + barrier)
        BY <1>1, <3>1, <3>2 DEF Agree, Trades
      <3>4. triple_barrier(h, t) = [value |-> <<0, h[t + barrier].close, barrier>>, ends |-> end_date(h, t, barrier)]
        BY <2>5, <2>10, <2>13, <3>1, Zenon DEF triple_barrier
      <3>5. triple_barrier(g, t) = [value |-> <<0, g[t + barrier].close, barrier>>, ends |-> end_date(g, t, barrier)]
        BY <2>6, <2>9, <2>10, <2>13, <3>3, Zenon DEF triple_barrier
      <3> QED
        BY <2>1, <2>11, <3>3, <3>4, <3>5
    <2> QED
      BY <2>12, <2>13
  <1> QED
    BY <1>4, <1>5

-----------------------------------------------------------------------------
(* Rows and their sessions.                                                *)

\* The last of the ends of a row is the end of none of its labels at most.
LEMMA EndsOfARow ==
    ASSUME NEW h \in Seq(Bars), NEW t \in DOMAIN h, NEW names, names \subseteq horizons \union {0}
    PROVE  /\ with_label_end(Labels(h, t, names)) \in Nat
           /\ \A n \in names : /\ Labels(h, t, names)[n] = Label(h, t, n)
                               /\ Label(h, t, n).ends <= with_label_end(Labels(h, t, names))
  <1>1. PICK labels : labels = Labels(h, t, names)
    OBVIOUS
  <1>2. labels = [n \in names |-> Label(h, t, n)]
    BY <1>1 DEF Labels, Label
  <1>3. \A n \in names : labels[n] = Label(h, t, n) /\ labels[n].ends \in 0..Len(h)
    BY <1>2, LabelEnds
  <1>4. PICK known : known = {labels[n].ends : n \in DOMAIN labels} \ {0}
    OBVIOUS
  <1>5. known \subseteq 0..Len(h) /\ Len(h) \in Nat
    BY <1>2, <1>3, <1>4
  <1>6. PICK last : last = with_label_end(labels)
    OBVIOUS
  <1>7. last \in Nat /\ \A e \in known : e <= last
    <2>1. CASE known = {}
      <3>1. last = 0
        BY <1>4, <1>6, <2>1, Zenon DEF with_label_end
      <3> QED
        BY <2>1, <3>1
    <2>2. CASE known # {}
      <3>1. last = CHOOSE e \in known : \A f \in known : f <= e
        BY <1>4, <1>6, <2>2, Zenon DEF with_label_end
      <3>2. \E e \in known : \A f \in known : f <= e
        BY <1>5, <2>2, GreatestOfNaturals
      <3>3. last \in known /\ \A f \in known : f <= last
        BY <3>1, <3>2, Zenon
      <3> QED
        BY <1>5, <3>3
    <2> QED
      BY <2>1, <2>2
  <1>8. \A n \in names : labels[n].ends <= last
    <2> SUFFICES ASSUME NEW n \in names PROVE labels[n].ends <= last
      OBVIOUS
    <2>1. labels[n].ends = 0 \/ labels[n].ends \in known
      BY <1>2, <1>4
    <2> QED
      BY <1>7, <2>1
  <1> QED
    BY <1>1, <1>3, <1>6, <1>7, <1>8

LEMMA FrameIs ==
    ASSUME NEW h \in Seq(Markets), NEW names, names \subseteq horizons \union {0},
           NEW r \in DOMAIN Frame(h, names)
    PROVE  /\ r[1] \in DOMAIN h /\ r[2] \in Listed
           /\ Frame(h, names)[r].ends \in Nat
           /\ \A n \in names : /\ Frame(h, names)[r].labels[n] = Label(Of(h, r[2]), r[1], n)
                               /\ Label(Of(h, r[2]), r[1], n).ends <= Frame(h, names)[r].ends
  <1>1. r \in (DOMAIN h) \X Listed
    BY DEF Frame
  <1>2. PICK labels : labels = Labels(Of(h, r[2]), r[1], names)
    OBVIOUS
  <1>3. Frame(h, names)[r] = [labels |-> labels, ends |-> with_label_end(labels)]
    BY <1>2, Zenon DEF Frame
  <1>4. Of(h, r[2]) \in Seq(Bars) /\ r[1] \in DOMAIN Of(h, r[2])
    BY <1>1, OfIs
  <1>5. /\ with_label_end(labels) \in Nat
        /\ \A n \in names : /\ labels[n] = Label(Of(h, r[2]), r[1], n)
                            /\ Label(Of(h, r[2]), r[1], n).ends <= with_label_end(labels)
    BY <1>2, <1>4, EndsOfARow
  <1> QED
    BY <1>1, <1>3, <1>5

\* The list of the sessions of some rows, one session after the other.
Lists(rows, n, f) ==
    /\ f \in [0..n -> Seq(Nat)] /\ f[0] = <<>>
    /\ \A t \in 1..n : f[t] = IF \E r \in rows : r[1] = t THEN Append(f[t - 1], t) ELSE f[t - 1]

LEMMA ListExists ==
    ASSUME NEW rows
    PROVE  \E f : Lists(rows, LastBar, f)
  <1> DEFINE Missing == {m \in 0..LastBar : ~ \E f : Lists(rows, m, f)}
  <1> SUFFICES ASSUME LastBar \in Missing PROVE FALSE
    BY FoldNumbers
  <1>1. PICK m \in Missing : \A j \in Missing : m <= j
    <2>1. Missing \subseteq Nat /\ Missing # {}
      OBVIOUS
    <2> HIDE DEF Missing
    <2> QED
      BY <2>1, LeastOfNaturals
  <1>2. m \in 0..LastBar /\ ~ \E f : Lists(rows, m, f)
    OBVIOUS
  <1>3. CASE m = 0
    <2>1. Lists(rows, 0, [k \in 0..0 |-> <<>>])
      BY DEF Lists
    <2> QED
      BY <1>2, <1>3, <2>1
  <1>4. CASE m # 0
    <2>1. m - 1 \in 0..LastBar /\ m - 1 \notin Missing /\ m \in 1..LastBar
      BY <1>1, <1>2, <1>4, FoldNumbers
    <2>2. PICK f : Lists(rows, m - 1, f)
      BY <2>1
    <2> DEFINE next == IF \E r \in rows : r[1] = m THEN Append(f[m - 1], m) ELSE f[m - 1]
               g == [k \in 0..m |-> IF k = m THEN next ELSE f[k]]
    <2>3. next \in Seq(Nat)
      <3>1. f[m - 1] \in Seq(Nat)
        BY <2>1, <2>2 DEF Lists
      <3>2. m \in Nat
        BY <2>1, FoldNumbers
      <3>3. Append(f[m - 1], m) \in Seq(Nat)
        BY <3>1, <3>2, AppendProperties
      <3> QED
        BY <3>1, <3>3
    <2>4. g \in [0..m -> Seq(Nat)] /\ g[0] = <<>>
      <3> HIDE DEF next
      <3>1. 0 \in 0..m /\ 0 # m
        BY <1>2, <1>4
      <3>2. \A k \in 0..m : k # m => k \in 0..(m - 1)
        BY <1>2
      <3>3. \A k \in 0..m : k # m => f[k] \in Seq(Nat)
        BY <2>2, <3>2 DEF Lists
      <3>4. g[0] = <<>>
        BY <2>2, <3>1 DEF Lists
      <3> QED
        BY <2>3, <3>3, <3>4
    <2>5. \A t \in 1..m : g[t] = IF \E r \in rows : r[1] = t THEN Append(g[t - 1], t) ELSE g[t - 1]
      <3> SUFFICES ASSUME NEW t \in 1..m
                   PROVE  g[t] = IF \E r \in rows : r[1] = t THEN Append(g[t - 1], t) ELSE g[t - 1]
        OBVIOUS
      <3>1. g[t - 1] = f[t - 1]
        BY <2>1
      <3>2. CASE t = m
        <4>1. g[t] = next
          BY <3>2
        <4> QED
          BY <3>1, <3>2, <4>1
      <3>3. CASE t # m
        <4>1. g[t] = f[t] /\ t \in 1..(m - 1)
          BY <2>1, <3>3
        <4> HIDE DEF g
        <4> QED
          BY <2>2, <3>1, <4>1 DEF Lists
      <3> QED
        BY <3>2, <3>3
    <2> HIDE DEF g
    <2>6. Lists(rows, m, g)
      BY <2>4, <2>5 DEF Lists
    <2> QED
      BY <1>2, <2>6
  <1> QED
    BY <1>3, <1>4

LEMMA SessionsType ==
    ASSUME NEW rows
    PROVE  Sessions(rows) \in Seq(Nat)
  <1>1. PICK g : Lists(rows, LastBar, g)
    BY ListExists
  <1>2. g = [t \in 0..LastBar |->
                IF t = 0 THEN <<>>
                ELSE IF \E r \in rows : r[1] = t THEN Append(g[t - 1], t) ELSE g[t - 1]]
    <2>1. g = [t \in 0..LastBar |-> g[t]]
      BY <1>1 DEF Lists
    <2>2. \A t \in 0..LastBar : g[t] = IF t = 0 THEN <<>>
              ELSE IF \E r \in rows : r[1] = t THEN Append(g[t - 1], t) ELSE g[t - 1]
      <3> SUFFICES ASSUME NEW t \in 0..LastBar
                   PROVE  g[t] = IF t = 0 THEN <<>>
                                 ELSE IF \E r \in rows : r[1] = t THEN Append(g[t - 1], t) ELSE g[t - 1]
        OBVIOUS
      <3>1. CASE t = 0
        BY <1>1, <3>1 DEF Lists
      <3>2. CASE t # 0
        <4>1. t \in 1..LastBar
          BY <3>2, FoldNumbers
        <4> QED
          BY <1>1, <3>2, <4>1 DEF Lists
      <3> QED
        BY <3>1, <3>2
    <2> QED
      BY <2>1, <2>2
  <1>3. \E f : f = [t \in 0..LastBar |->
                IF t = 0 THEN <<>>
                ELSE IF \E r \in rows : r[1] = t THEN Append(f[t - 1], t) ELSE f[t - 1]]
    BY <1>2
  <1>4. PICK f : /\ f = [t \in 0..LastBar |->
                     IF t = 0 THEN <<>>
                     ELSE IF \E r \in rows : r[1] = t THEN Append(f[t - 1], t) ELSE f[t - 1]]
                 /\ Sessions(rows) = f[LastBar]
    BY <1>3, Zenon DEF Sessions
  <1>5. \A t \in 0..LastBar : f[t] \in Seq(Nat)
    <2> DEFINE Wrong == {t \in 0..LastBar : f[t] \notin Seq(Nat)}
    <2> SUFFICES ASSUME Wrong # {} PROVE FALSE
      OBVIOUS
    <2>1. PICK t \in Wrong : \A u \in Wrong : t <= u
      <3>1. Wrong \subseteq Nat
        BY FoldNumbers
      <3> HIDE DEF Wrong
      <3> QED
        BY <3>1, LeastOfNaturals
    <2>2. CASE t = 0
      BY <1>4, <2>2
    <2>3. CASE t # 0
      <3>1. t - 1 \in 0..LastBar /\ t - 1 \notin Wrong /\ t \in 1..LastBar
        BY <2>1, <2>3, FoldNumbers
      <3>2. f[t - 1] \in Seq(Nat)
        BY <3>1
      <3>3. f[t] = IF \E r \in rows : r[1] = t THEN Append(f[t - 1], t) ELSE f[t - 1]
        BY <1>4, <2>3, <3>1
      <3>4. t \in Nat /\ Append(f[t - 1], t) \in Seq(Nat)
        BY <3>1, <3>2, FoldNumbers, AppendProperties
      <3> QED
        BY <3>2, <3>3, <3>4
    <2> QED
      BY <2>2, <2>3
  <1>6. LastBar \in 0..LastBar
    BY FoldNumbers
  <1> QED
    BY <1>4, <1>5, <1>6, Zenon

LEMMA PlanIs ==
    ASSUME NEW plan \in Plans
    PROVE  /\ plan.train \in Nat \ {0} /\ plan.test \in Nat \ {0} /\ plan.step \in Nat \ {0}
           /\ plan.val \in Nat \ {0} /\ plan.embargo \in Nat
           /\ plan.labels \subseteq horizons \union {0}
  BY FoldConstants

LEMMA WindowFits ==
    ASSUME NEW a \in Nat \ {0}, NEW b \in Nat, NEW c \in Nat, NEW d \in Nat \ {0}, NEW m \in Nat,
           a + b + c + 1 + d - 1 <= m
    PROVE  a + b + c + 1 \in 1..m
  OBVIOUS

\* A test window begins with a session.
LEMMA FoldsStart ==
    ASSUME NEW s \in Seq(Nat), NEW plan \in Plans, NEW end, NEW f \in make_folds(s, plan, end)
    PROVE  f.test_start \in Nat
  <1>1. PICK b : b = Before(s, end)
    OBVIOUS
  <1>2. b \in Seq(Nat)
    <2>1. PICK D : D = {k \in DOMAIN s : s[k] < end}
      OBVIOUS
    <2>2. D \subseteq 1..Len(s) /\ Len(s) \in Nat
      BY <2>1
    <2>3. IsFiniteSet(1..Len(s)) /\ Cardinality(1..Len(s)) = Len(s)
      <3>1. PICK n : n = Len(s)
        OBVIOUS
      <3>2. n \in Int /\ n \in Nat /\ 1 \in Int
        BY <2>2, <3>1
      <3>3. IsFiniteSet(1..n) /\ Cardinality(1..n) = IF 1 > n THEN 0 ELSE n - 1 + 1
        BY <3>2, FS_Interval, Zenon
      <3>4. Cardinality(1..n) = n
        BY <3>2, <3>3
      <3> QED
        BY <3>1, <3>3, <3>4
    <2>4. IsFiniteSet(D) /\ Cardinality(D) <= Len(s) /\ Cardinality(D) \in Nat
      BY <2>2, <2>3, FS_Subset, FS_CardinalityType
    <2>5. b = SubSeq(s, 1, Cardinality(D))
      BY <1>1, <2>1 DEF Before
    <2>6. PICK c : c = Cardinality(D)
      OBVIOUS
    <2>7. c \in Nat /\ c <= Len(s) /\ 1..c \subseteq 1..Len(s)
      BY <2>2, <2>4, <2>6
    <2>8. SubSeq(s, 1, c) \in Seq(Nat)
      BY <2>7, SubSeqProperties
    <2> QED
      BY <2>5, <2>6, <2>8
  <1>3. PICK k \in Nat : /\ plan.train + plan.embargo + k * plan.step + 1 + plan.test - 1 <= Len(b)
                         /\ f.test_start = b[plan.train + plan.embargo + k * plan.step + 1]
    BY <1>1, <1>2 DEF make_folds
  <1>4. k * plan.step \in Nat
    BY PlanIs
  <1>5. PICK p : p = plan.train + plan.embargo + k * plan.step + 1
    OBVIOUS
  <1>6. p \in 1..Len(b)
    <2>1. /\ plan.train \in Nat \ {0} /\ plan.test \in Nat \ {0} /\ plan.embargo \in Nat
          /\ k * plan.step \in Nat /\ Len(b) \in Nat
      BY <1>2, <1>4, PlanIs
    <2>2. PICK n : n = k * plan.step
      OBVIOUS
    <2>3. PICK m : m = Len(b)
      OBVIOUS
    <2>4. /\ plan.train + plan.embargo + n + 1 + plan.test - 1 <= m
          /\ p = plan.train + plan.embargo + n + 1 /\ n \in Nat /\ m \in Nat
      BY <1>3, <1>5, <2>1, <2>2, <2>3, Zenon
    <2>5. p \in 1..m
      BY <2>1, <2>4, WindowFits
    <2> QED
      BY <2>3, <2>5
  <1>7. b[p] \in Nat
    BY <1>2, <1>6, ElementOfSeq
  <1> QED
    BY <1>3, <1>5, <1>7

\* What a fold is fitted on ends before its validation window, and what it is
\* calibrated on before its test window.
LEMMA SplitIs ==
    ASSUME NEW frame, NEW fold, NEW plan \in Plans, NEW x, x = split_fold(frame, fold, plan), ~x.raised
    PROVE  /\ x.val_start \in Nat /\ x.fold = fold
           /\ \A r \in x.fit : r \in DOMAIN frame /\ frame[r].ends < x.val_start
           /\ \A r \in x.val : r \in DOMAIN frame /\ frame[r].ends < fold.test_start
           /\ x.test \subseteq DOMAIN frame
  <1>1. PICK train : train = purge_train(frame, fold)
    OBVIOUS
  <1>2. \A r \in train : r \in DOMAIN frame /\ frame[r].ends < fold.test_start
    BY <1>1 DEF purge_train
  <1>3. PICK s : s = Sessions(train)
    OBVIOUS
  <1>4. s \in Seq(Nat)
    BY <1>3, SessionsType
  <1>5. ~ Len(s) <= plan.val
    <2> SUFFICES ASSUME Len(s) <= plan.val PROVE FALSE
      OBVIOUS
    <2>1. x = [raised |-> TRUE]
      BY <1>1, <1>3, Zenon DEF split_fold
    <2> QED
      BY <2>1
  <1>6. PICK v : v = s[Len(s) - plan.val + 1]
    OBVIOUS
  <1>7. v \in Nat
    <2>1. Len(s) - plan.val + 1 \in 1..Len(s)
      BY <1>4, <1>5, PlanIs
    <2> QED
      BY <1>4, <1>6, <2>1, ElementOfSeq
  <1>8. x = [raised |-> FALSE, fold |-> fold, val_start |-> v,
             val |-> {r \in train : r[1] >= v},
             fit |-> {r \in train : r[1] < v /\ frame[r].ends < v},
             test |-> {r \in DOMAIN frame : fold.test_start <= r[1] /\ r[1] <= fold.test_end}]
    BY <1>1, <1>3, <1>5, <1>6, Zenon DEF split_fold
  <1> QED
    BY <1>2, <1>7, <1>8

-----------------------------------------------------------------------------
(* What a study has seen.                                                  *)

\* The two histories are the same up to the fork.
Alike(h, o, f) ==
    /\ h \in Seq(Markets) /\ o \in Seq(Markets) /\ Len(o) = Len(h) /\ f \in Nat
    /\ \A u \in DOMAIN h : u <= f => h[u] = o[u]

SettledIn(h, o, rows, n) ==
    \A r \in rows : LET a == Labels(Of(h, r[2]), r[1], {n})[n] IN
                    a # Unknown => a = Labels(Of(o, r[2]), r[1], {n})[n]

StudyStands(h, o, f, st) ==
    st.done =>
        /\ \A s \in st.splits \cup {st.final} : \A n \in st.labels :
              /\ s.val_start <= f + 1 => SettledIn(h, o, FittedRows(s), n)
              /\ s.fold.test_start <= f + 1 => SettledIn(h, o, Calibrated(s), n)
        /\ HoldoutStart(h) <= f + 1 => \A n \in st.labels : SettledIn(h, o, st.scored[n], n)

LEMMA StandsIs ==
    \A h, o, f, st : h = history /\ o = otherwise /\ f = fork /\ st = study =>
        (TargetsAreSettled <=> StudyStands(h, o, f, st))
  BY DEF TargetsAreSettled, StudyStands, Settled, SettledIn, AgreeBefore

LEMMA StandsIsNext ==
    (\A h, o, f, st : h = history /\ o = otherwise /\ f = fork /\ st = study =>
        (TargetsAreSettled <=> StudyStands(h, o, f, st)))'
  BY StandsIs, PTL

\* Rows whose labels ended by the fork are settled.
LEMMA RowsAreSettled ==
    ASSUME NEW h, NEW o, NEW f, Alike(h, o, f), NEW names, names \subseteq horizons \union {0},
           NEW n \in names, NEW rows \in SUBSET DOMAIN Frame(h, names),
           \A r \in rows : Label(Of(h, r[2]), r[1], n).ends <= f
    PROVE  SettledIn(h, o, rows, n)
  <1> SUFFICES ASSUME NEW r \in rows, Label(Of(h, r[2]), r[1], n) # Unknown
               PROVE  Label(Of(h, r[2]), r[1], n) = Label(Of(o, r[2]), r[1], n)
    BY DEF SettledIn, Labels, Label
  <1>1. h \in Seq(Markets) /\ o \in Seq(Markets) /\ Len(o) = Len(h) /\ f \in Nat
    BY DEF Alike
  <1>2. r[1] \in DOMAIN h /\ r[2] \in Listed
    BY <1>1, FrameIs
  <1>3. PICK a : a = Of(h, r[2])
    OBVIOUS
  <1>4. PICK b : b = Of(o, r[2])
    OBVIOUS
  <1>5. /\ a \in Seq(Bars) /\ b \in Seq(Bars) /\ Len(a) = Len(h) /\ Len(b) = Len(h) /\ DOMAIN a = 1..Len(h)
        /\ \A t \in 1..Len(h) : a[t] = h[t][r[2]] /\ b[t] = o[t][r[2]]
    BY <1>1, <1>2, <1>3, <1>4, OfIs
  <1>6. Agree(a, b, f)
    <2>1. DOMAIN h = 1..Len(h)
      BY <1>1
    <2> QED
      BY <1>5, <2>1 DEF Agree, Alike
  <1>7. r[1] \in DOMAIN a /\ n \in horizons \union {0}
    BY <1>1, <1>2, <1>5
  <1> QED
    BY <1>1, <1>3, <1>4, <1>5, <1>6, <1>7, LabelStands

LEMMA EndedRowsAreSettled ==
    ASSUME NEW h, NEW o, NEW f, Alike(h, o, f), NEW names, names \subseteq horizons \union {0},
           NEW n \in names, NEW rows \in SUBSET DOMAIN Frame(h, names), NEW v \in Nat, v <= f + 1,
           \A r \in rows : Frame(h, names)[r].ends < v
    PROVE  SettledIn(h, o, rows, n)
  <1>1. h \in Seq(Markets) /\ f \in Nat
    BY DEF Alike
  <1>2. \A r \in rows : Label(Of(h, r[2]), r[1], n).ends <= f
    <2> SUFFICES ASSUME NEW r \in rows PROVE Label(Of(h, r[2]), r[1], n).ends <= f
      OBVIOUS
    <2>1. /\ Frame(h, names)[r].ends \in Nat
          /\ Label(Of(h, r[2]), r[1], n).ends <= Frame(h, names)[r].ends
          /\ r[1] \in DOMAIN h /\ r[2] \in Listed
      BY <1>1, FrameIs
    <2>2. Label(Of(h, r[2]), r[1], n).ends \in 0..Len(h) /\ Len(h) \in Nat
      <3>1. Of(h, r[2]) \in Seq(Bars) /\ r[1] \in DOMAIN Of(h, r[2]) /\ Len(Of(h, r[2])) = Len(h)
        BY <1>1, <2>1, OfIs
      <3>2. n \in horizons \union {0}
        OBVIOUS
      <3> QED
        BY <1>1, <3>1, <3>2, LabelEnds
    <2>3. Frame(h, names)[r].ends < v
      OBVIOUS
    <2> QED
      BY <1>1, <2>1, <2>2, <2>3
  <1> QED
    BY <1>2, RowsAreSettled

\* What a run of a plan stores.
Studied(h, plan, st) ==
    LET frame  == Frame(h, plan.labels)
        start  == HoldoutStart(h)
        splits == {split_fold(frame, f, plan) : f \in make_folds(Sessions(DOMAIN frame), plan, start)}
        last   == final_fold(frame, plan, start)
        final  == IF last.raised THEN last ELSE split_fold(frame, last, plan)
    IN  /\ splits # {} /\ \A s \in splits \cup {final} : ~s.raised /\ FittedRows(s) # {}
        /\ st = [done |-> TRUE, labels |-> plan.labels, splits |-> splits, final |-> final,
                 scored |-> [n \in plan.labels |->
                     label_known_before(frame, UNION {s.test : s \in splits}, n, start)]]

LEMMA StudyIsSettled ==
    ASSUME NEW h, NEW o, NEW f, Alike(h, o, f), Len(h) = LastBar, NEW plan \in Plans, NEW st,
           Studied(h, plan, st)
    PROVE  StudyStands(h, o, f, st)
  <1>1. PICK frame : frame = Frame(h, plan.labels)
    OBVIOUS
  <1>2. PICK start : start = HoldoutStart(h)
    OBVIOUS
  <1>3. PICK sessions : sessions = Sessions(DOMAIN frame)
    OBVIOUS
  <1>4. PICK splits : splits = {split_fold(frame, x, plan) : x \in make_folds(sessions, plan, start)}
    OBVIOUS
  <1>5. PICK last : last = final_fold(frame, plan, start)
    OBVIOUS
  <1>6. PICK final : final = IF last.raised THEN last ELSE split_fold(frame, last, plan)
    OBVIOUS
  <1>7. PICK scored : scored = [n \in plan.labels |->
                          label_known_before(frame, UNION {s.test : s \in splits}, n, start)]
    OBVIOUS
  <1>8. /\ \A s \in splits \cup {final} : ~s.raised
        /\ st = [done |-> TRUE, labels |-> plan.labels, splits |-> splits, final |-> final, scored |-> scored]
    BY <1>1, <1>2, <1>3, <1>4, <1>5, <1>6, <1>7, Zenon DEF Studied
  <1>9. plan.labels \subseteq horizons \union {0} /\ h \in Seq(Markets) /\ f \in Nat
    BY PlanIs DEF Alike
  <1>10. start \in Nat
    BY <1>2, FoldNumbers DEF HoldoutStart
  <1>11. \A s \in splits : \E x : s = split_fold(frame, x, plan) /\ x.test_start \in Nat
    <2> SUFFICES ASSUME NEW s \in splits
                 PROVE  \E x : s = split_fold(frame, x, plan) /\ x.test_start \in Nat
      OBVIOUS
    <2>1. PICK x \in make_folds(sessions, plan, start) : s = split_fold(frame, x, plan)
      BY <1>4
    <2>2. sessions \in Seq(Nat)
      BY <1>3, SessionsType
    <2> QED
      BY <2>1, <2>2, FoldsStart
  <1>12. final = split_fold(frame, last, plan) /\ last.test_start \in Nat
    <2>1. ~ last.raised
      BY <1>6, <1>8
    <2>2. last.test_start = start
      <3>1. PICK s : s = Sessions(DOMAIN frame)
        OBVIOUS
      <3>2. PICK w : w = IF Len(Before(s, start)) - plan.embargo >= 1 THEN Len(Before(s, start)) - plan.embargo
                         ELSE Len(Before(s, start)) - plan.embargo + Len(s)
        OBVIOUS
      <3>3. last = IF w \notin DOMAIN s THEN [raised |-> TRUE]
                   ELSE [raised |-> FALSE, train_start |-> s[1], train_end |-> s[w],
                         test_start |-> start, test_end |-> LastBar]
        BY <1>5, <3>1, <3>2, Zenon DEF final_fold
      <3>4. w \in DOMAIN s
        BY <2>1, <3>3
      <3> QED
        BY <3>3, <3>4
    <2> QED
      BY <1>6, <1>10, <2>1, <2>2
  <1>13. ASSUME NEW s \in splits \cup {final}, NEW n \in plan.labels
         PROVE  /\ s.val_start <= f + 1 => SettledIn(h, o, FittedRows(s), n)
                /\ s.fold.test_start <= f + 1 => SettledIn(h, o, Calibrated(s), n)
    <2>1. PICK x : s = split_fold(frame, x, plan) /\ x.test_start \in Nat
      BY <1>11, <1>12, <1>13
    <2>2. /\ s.val_start \in Nat /\ s.fold = x
          /\ \A r \in s.fit : r \in DOMAIN frame /\ frame[r].ends < s.val_start
          /\ \A r \in s.val : r \in DOMAIN frame /\ frame[r].ends < x.test_start
      BY <1>8, <1>13, <2>1, SplitIs
    <2>3. s.val_start <= f + 1 => SettledIn(h, o, s.fit, n)
      <3> SUFFICES ASSUME s.val_start <= f + 1 PROVE SettledIn(h, o, s.fit, n)
        OBVIOUS
      <3>1. PICK v : v = s.val_start
        OBVIOUS
      <3>2. PICK rows : rows = s.fit
        OBVIOUS
      <3>3. /\ rows \in SUBSET DOMAIN Frame(h, plan.labels) /\ v \in Nat /\ v <= f + 1
            /\ \A r \in rows : Frame(h, plan.labels)[r].ends < v
        BY <1>1, <2>2, <3>1, <3>2
      <3> QED
        BY <1>9, <1>13, <3>2, <3>3, EndedRowsAreSettled
    <2>4. s.fold.test_start <= f + 1 => SettledIn(h, o, s.val, n)
      <3> SUFFICES ASSUME s.fold.test_start <= f + 1 PROVE SettledIn(h, o, s.val, n)
        OBVIOUS
      <3>1. PICK v : v = x.test_start
        OBVIOUS
      <3>2. PICK rows : rows = s.val
        OBVIOUS
      <3>3. /\ rows \in SUBSET DOMAIN Frame(h, plan.labels) /\ v \in Nat /\ v <= f + 1
            /\ \A r \in rows : Frame(h, plan.labels)[r].ends < v
        BY <1>1, <2>1, <2>2, <3>1, <3>2
      <3> QED
        BY <1>9, <1>13, <3>2, <3>3, EndedRowsAreSettled
    <2> QED
      BY <2>3, <2>4 DEF FittedRows, Calibrated
  <1>14. ASSUME start <= f + 1, NEW n \in plan.labels PROVE SettledIn(h, o, scored[n], n)
    <2>1. PICK rows : rows = label_known_before(frame, UNION {s.test : s \in splits}, n, start)
      OBVIOUS
    <2>2. scored[n] = rows
      BY <1>7, <1>14, <2>1
    <2>3. \A r \in rows : r \in DOMAIN frame
      <3> SUFFICES ASSUME NEW r \in rows PROVE r \in DOMAIN frame
        OBVIOUS
      <3>1. PICK s \in splits : r \in s.test
        BY <2>1 DEF label_known_before
      <3>2. PICK x : s = split_fold(frame, x, plan) /\ x.test_start \in Nat
        BY <1>11
      <3> QED
        BY <1>8, <3>1, <3>2, SplitIs
    <2>4. \A r \in rows : Label(Of(h, r[2]), r[1], n).ends <= f
      <3> SUFFICES ASSUME NEW r \in rows PROVE Label(Of(h, r[2]), r[1], n).ends <= f
        OBVIOUS
      <3>1. frame[r].labels[n].ends < start
        BY <2>1 DEF label_known_before
      <3>2. /\ r[1] \in DOMAIN h /\ r[2] \in Listed
            /\ frame[r].labels[n] = Label(Of(h, r[2]), r[1], n)
        BY <1>1, <1>9, <1>14, <2>3, FrameIs
      <3>3. Label(Of(h, r[2]), r[1], n).ends \in 0..Len(h) /\ Len(h) \in Nat
        <4>1. Of(h, r[2]) \in Seq(Bars) /\ r[1] \in DOMAIN Of(h, r[2]) /\ Len(Of(h, r[2])) = Len(h)
          BY <1>9, <3>2, OfIs
        <4>2. n \in horizons \union {0}
          BY <1>9, <1>14
        <4> QED
          BY <1>9, <4>1, <4>2, LabelEnds
      <3> QED
        BY <1>9, <1>10, <1>14, <3>1, <3>2, <3>3
    <2>5. rows \in SUBSET DOMAIN Frame(h, plan.labels)
      BY <1>1, <2>3
    <2> QED
      BY <1>9, <1>14, <2>2, <2>4, <2>5, RowsAreSettled
  <1>15. /\ st.splits = splits /\ st.final = final /\ st.labels = plan.labels /\ st.scored = scored
    BY <1>8
  <1> QED
    BY <1>2, <1>13, <1>14, <1>15 DEF StudyStands

-----------------------------------------------------------------------------
(* The invariant.                                                          *)

FoldsInv ==
    /\ Alike(history, otherwise, fork)
    /\ study.done \in BOOLEAN /\ (study.done => Len(history) = LastBar)
    /\ TargetsAreSettled

LEMMA AlikeIs == \A h, o, f : h = history /\ o = otherwise /\ f = fork =>
                     (Alike(history, otherwise, fork) <=> Alike(h, o, f))
  OBVIOUS

LEMMA AlikeIsNext ==
    (\A h, o, f : h = history /\ o = otherwise /\ f = fork =>
        (Alike(history, otherwise, fork) <=> Alike(h, o, f)))'
  BY AlikeIs, PTL

LEMMA HistoriesGrow ==
    ASSUME NEW h, NEW o, NEW f, Alike(h, o, f), NEW m \in Markets, NEW n \in Markets,
           Len(h) < f => n = m
    PROVE  Alike(Append(h, m), Append(o, n), f)
  <1>1. h \in Seq(Markets) /\ o \in Seq(Markets) /\ Len(o) = Len(h) /\ f \in Nat /\ Len(h) \in Nat
        /\ DOMAIN h = 1..Len(h)
    BY DEF Alike
  <1>2. PICK g : g = Append(h, m)
    OBVIOUS
  <1>3. PICK p : p = Append(o, n)
    OBVIOUS
  <1>4. /\ g \in Seq(Markets) /\ Len(g) = Len(h) + 1 /\ g[Len(h) + 1] = m
        /\ \A u \in 1..Len(h) : g[u] = h[u]
    BY <1>1, <1>2, AppendProperties
  <1>5. /\ p \in Seq(Markets) /\ Len(p) = Len(h) + 1 /\ p[Len(h) + 1] = n
        /\ \A u \in 1..Len(h) : p[u] = o[u]
    BY <1>1, <1>3, AppendProperties
  <1>6. \A u \in DOMAIN g : u <= f => g[u] = p[u]
    <2> SUFFICES ASSUME NEW u \in DOMAIN g, u <= f PROVE g[u] = p[u]
      OBVIOUS
    <2>1. u \in 1..(Len(h) + 1)
      BY <1>4
    <2>2. CASE u = Len(h) + 1
      <3>1. Len(h) < f
        BY <1>1, <2>2
      <3> QED
        BY <1>4, <1>5, <2>2, <3>1
    <2>3. CASE u # Len(h) + 1
      <3>1. u \in 1..Len(h)
        BY <1>1, <2>1, <2>3
      <3> QED
        BY <1>1, <1>4, <1>5, <3>1 DEF Alike
    <2> QED
      BY <2>2, <2>3
  <1> QED
    BY <1>1, <1>2, <1>3, <1>4, <1>5, <1>6 DEF Alike

LEMMA FoldsInvInit == FoldsInit => FoldsInv
  <1> SUFFICES ASSUME FoldsInit PROVE FoldsInv
    OBVIOUS
  <1>1. history = <<>> /\ otherwise = <<>> /\ fork \in Nat
    BY FoldNumbers DEF FoldsInit
  <1>2. study.done = FALSE
    BY DEF FoldsInit, NoStudy
  <1>3. Alike(history, otherwise, fork)
    BY <1>1 DEF Alike
  <1> QED
    BY <1>2, <1>3 DEF FoldsInv, TargetsAreSettled

LEMMA KeepsBarCloses == ASSUME FoldsInv, BarCloses PROVE FoldsInv'
  <1>1. PICK m \in Markets, n \in Markets :
            /\ Len(history) < fork => n = m
            /\ history' = Append(history, m) /\ otherwise' = Append(otherwise, n)
    BY DEF BarCloses
  <1>2. Len(history) < LastBar /\ fork' = fork /\ study' = study
    BY DEF BarCloses
  <1>3. study.done = FALSE
    <2>1. Len(history) \in Nat /\ LastBar \in Nat
      BY FoldNumbers DEF FoldsInv, Alike
    <2> QED
      BY <1>2, <2>1 DEF FoldsInv
  <1>4. Alike(Append(history, m), Append(otherwise, n), fork)
    BY <1>1, HistoriesGrow DEF FoldsInv
  <1>5. Alike(history, otherwise, fork)'
    BY <1>1, <1>2, <1>4, AlikeIsNext
  <1> QED
    BY <1>2, <1>3, <1>5 DEF FoldsInv, TargetsAreSettled

LEMMA KeepsRunStudy == ASSUME FoldsInv, NEW plan \in Plans, RunStudy(plan) PROVE FoldsInv'
  <1>1. /\ history' = history /\ otherwise' = otherwise /\ fork' = fork
        /\ Len(history) = LastBar /\ Studied(history, plan, study')
    BY DEF RunStudy, Studied
  <1>2. StudyStands(history, otherwise, fork, study')
    BY <1>1, StudyIsSettled DEF FoldsInv
  <1>3. TargetsAreSettled'
    BY <1>1, <1>2, StandsIsNext
  <1>4. study'.done = TRUE
    BY <1>1 DEF Studied
  <1>5. Alike(history, otherwise, fork)'
    BY <1>1, AlikeIsNext DEF FoldsInv
  <1> QED
    BY <1>1, <1>3, <1>4, <1>5 DEF FoldsInv

LEMMA KeepsUnchanged == ASSUME FoldsInv, UNCHANGED foldVars PROVE FoldsInv'
  <1>1. history' = history /\ otherwise' = otherwise /\ fork' = fork /\ study' = study
    BY DEF foldVars
  <1>2. TargetsAreSettled'
    BY <1>1, StandsIs, StandsIsNext DEF FoldsInv
  <1>3. Alike(history, otherwise, fork)'
    BY <1>1, AlikeIsNext DEF FoldsInv
  <1> QED
    BY <1>1, <1>2, <1>3 DEF FoldsInv

\* The histories are alike up to the fork, and a study is made of a whole one.
THEOREM FoldsInvAlways == FoldsSpec => []FoldsInv
  <1>1. FoldsInv /\ [FoldsNext]_foldVars => FoldsInv'
    BY KeepsBarCloses, KeepsRunStudy, KeepsUnchanged DEF FoldsNext
  <1> QED
    BY <1>1, FoldsInvInit, PTL DEF FoldsSpec

\* Whatever a model is fitted, tuned, stopped or calibrated on, and what the
\* figures of a study are computed from, does not change with the future of the
\* rows it is judged on (backtest/walkforward.py, swing/folds.py).
THEOREM TargetsAreSettledAlways == FoldsSpec => []TargetsAreSettled
  <1>1. FoldsInv => TargetsAreSettled
    BY DEF FoldsInv
  <1> QED
    BY <1>1, FoldsInvAlways, PTL

FirstTouchOf(h, t) ==
    LET l == triple_barrier(h, t)
        hits == {u \in t+1..t+barrier :
                    Trades(h, u) /\ (\/ h[u].low <= h[t].close - stop_width
                                     \/ h[u].high >= h[t].close + target_width)}
    IN  (l # Unknown /\ hits # {}) =>
            LET u == CHOOSE v \in hits : \A w \in hits : v <= w IN
            /\ l.ends = u
            /\ l.value[1] = -1 <=> h[u].low <= h[t].close - stop_width
            /\ h[u].low <= l.value[2] /\ l.value[2] <= h[u].high

LEMMA Distance ==
    ASSUME NEW t \in Nat, NEW b \in Nat, NEW u \in t+1..t+b
    PROVE  u - t \in 1..b /\ u = t + (u - t)
  OBVIOUS

LEMMA Nearer == ASSUME NEW t \in Nat, NEW b \in Nat, NEW j \in 1..b, NEW k \in 1..b, t + j <= t + k PROVE j <= k
  OBVIOUS

LEMMA FirstTouchHolds ==
    ASSUME NEW h \in Seq(Bars), NEW t \in DOMAIN h
    PROVE  FirstTouchOf(h, t)
  <1>1. PICK l : l = triple_barrier(h, t)
    OBVIOUS
  <1>2. PICK hits : hits = {u \in t+1..t+barrier : Hits(h, t, u)}
    OBVIOUS
  <1>3. PICK u : u = CHOOSE v \in hits : \A w \in hits : v <= w
    OBVIOUS
  <1> SUFFICES ASSUME l # Unknown, hits # {}
               PROVE  /\ l.ends = u
                      /\ l.value[1] = -1 <=> h[u].low <= h[t].close - stop_width
                      /\ h[u].low <= l.value[2] /\ l.value[2] <= h[u].high
    <2>1. hits = {v \in t+1..t+barrier :
                    Trades(h, v) /\ (\/ h[v].low <= h[t].close - stop_width
                                     \/ h[v].high >= h[t].close + target_width)}
      BY <1>2 DEF Hits
    <2> QED
      BY <1>1, <1>3, <2>1, Zenon DEF FirstTouchOf
  <1>4. t \in Nat /\ barrier \in Nat \ {0} /\ barrier \in Nat
    BY FoldNumbers
  <1>5. PICK out : out = touched(h, t)
    OBVIOUS
  <1>6. h[t] # Suspended
    BY <1>1, BarrierEnds
  <1>7. Told(h, t, out, barrier)
    BY <1>5, <1>6, TouchedIsTold
  <1>8. u \in hits /\ \A w \in hits : u <= w
    <2>1. hits \subseteq Nat
      BY <1>2, <1>4
    <2>2. \E v \in hits : \A w \in hits : v <= w
      BY <2>1, LeastOfNaturals
    <2> QED
      BY <1>3, <2>2, Zenon
  <1>9. PICK k \in 1..barrier : u = t + k /\ Hits(h, t, t + k)
    <2>1. u \in t+1..t+barrier /\ Hits(h, t, u)
      BY <1>2, <1>8
    <2>2. u - t \in 1..barrier /\ u = t + (u - t)
      BY <1>4, <2>1, Distance
    <2> QED
      BY <2>1, <2>2
  <1>10. out.sign # 0
    <2> SUFFICES ASSUME out.sign = 0 PROVE FALSE
      OBVIOUS
    <2>1. \A j \in 1..barrier : ~Hits(h, t, t + j)
      BY <1>7 DEF Told
    <2> QED
      BY <1>9, <2>1
  <1>11. PICK s : s = out.steps
    OBVIOUS
  <1>12. /\ s \in 1..barrier /\ Hits(h, t, t + s) /\ out = Left(h, t, s)
         /\ \A j \in 1..(s - 1) : ~Hits(h, t, t + j)
    BY <1>7, <1>10, <1>11 DEF Told, OpenTrade
  <1>13. s = k
    <2>1. t + s \in t+1..t+barrier
      BY <1>4, <1>12
    <2>2. t + s \in hits
      BY <1>2, <1>12, <2>1
    <2>3. t + k <= t + s
      BY <1>8, <1>9, <2>2
    <2>4. k <= s
      BY <1>4, <1>9, <1>12, <2>3, Nearer
    <2>5. k \notin 1..(s - 1)
      BY <1>9, <1>12
    <2> QED
      BY <1>4, <1>9, <1>12, <2>4, <2>5
  <1>14. /\ out.sign = -1 <=> h[u].low <= h[t].close - stop_width
         /\ h[u].low <= out.exit /\ out.exit <= h[u].high
    <2>1. k \in Nat \ {0}
      BY <1>4, <1>9
    <2> QED
      BY <1>6, <1>9, <1>12, <1>13, <2>1, LeftIs
  <1>15. l = [value |-> <<out.sign, out.exit, out.steps>>, ends |-> t + out.steps]
    BY <1>1, <1>5, <1>10, BarrierEnds DEF OpenTrade
  <1> QED
    BY <1>9, <1>11, <1>13, <1>14, <1>15

\* A barrier label tells the first session that touched a barrier, the stop where
\* one session touched both, at a price of that session (features/labels.py).
THEOREM FirstTouchDecidesAlways == FoldsSpec => []FirstTouchDecides
  <1>1. ASSUME FoldsInv PROVE FirstTouchDecides
    <2>1. history \in Seq(Markets)
      BY <1>1 DEF FoldsInv, Alike
    <2>2. \A t \in DOMAIN history, i \in Listed : FirstTouchOf(Of(history, i), t)
      <3> SUFFICES ASSUME NEW t \in DOMAIN history, NEW i \in Listed PROVE FirstTouchOf(Of(history, i), t)
        OBVIOUS
      <3>1. Of(history, i) \in Seq(Bars) /\ t \in DOMAIN Of(history, i)
        BY <2>1, OfIs
      <3> QED
        BY <3>1, FirstTouchHolds
    <2> QED
      BY <2>2, Zenon DEF FirstTouchDecides, FirstTouchOf
  <1> QED
    BY <1>1, FoldsInvAlways, PTL

-----------------------------------------------------------------------------
(* Prices of the exchange.                                                 *)

\* What is left of a product.
LEMMA TimesMod == ASSUME NEW s \in Nat \ {0}, NEW q \in Int PROVE (s * q) % s = 0
  OBVIOUS

LEMMA Divided ==
    ASSUME NEW x \in Int, NEW d \in Nat \ {0}
    PROVE  /\ x \div d \in Int /\ d * (x \div d) <= x /\ x < d * (x \div d) + d
           /\ x = d * (x \div d) + (x % d) /\ x % d \in 0..(d - 1)
  OBVIOUS

LEMMA Cancel ==
    ASSUME NEW s \in Nat \ {0}, NEW a \in Int, NEW b \in Int
    PROVE  (s * a < s * b => a < b) /\ (a <= b => s * a <= s * b)
  OBVIOUS

LEMMA CardNumbers ==
    /\ {watch_ranks, invest_max, max_weight_name, max_open_risk} \subseteq Nat /\ top_k \in Nat \ {0}
    /\ band \in 0..100 /\ lot_size \in Nat \ {0}
    /\ {swing.breakout_within, swing.buffer_atr, swing.zone_atr, swing.stop_atr, swing.target1_atr,
        swing.target2_atr, swing.risk_per_trade, swing.max_weight, swing.max_positions} \subseteq Nat
    /\ {swing.pullback_atr[1], swing.pullback_atr[2], swing.ato_zone[1], swing.ato_zone[2]} \subseteq Int
    /\ swing.min_rr \in Nat /\ swing.min_rr >= 150 /\ invest_zone[1] \in Int /\ invest_zone[2] \in Int
  BY CardConstants

\* The steps by their rank.
Low(n) == Ticks[n].lower
Size(n) == Ticks[n].size

LEMMA TicksAre ==
    /\ Len(Ticks) \in Nat \ {0} /\ DOMAIN Ticks = 1..Len(Ticks) /\ Low(1) = 0
    /\ \A n \in 1..Len(Ticks) :
          /\ Low(n) \in Nat /\ Size(n) \in Nat \ {0} /\ Low(n) % Size(n) = 0
          /\ n > 1 => Low(n) % Size(n - 1) = 0
          /\ \A m \in 1..Len(Ticks) : n < m => Low(n) < Low(m)
  <1>1. Ticks \in Seq([lower: Nat, size: Nat \ {0}]) /\ Ticks # <<>> /\ Ticks[1].lower = 0
    BY CardConstants
  <1>2. /\ \A i, j \in DOMAIN Ticks : i < j => Ticks[i].lower < Ticks[j].lower
        /\ \A i \in DOMAIN Ticks :
              Ticks[i].lower % Ticks[i].size = 0 /\ (i > 1 => Ticks[i].lower % Ticks[i - 1].size = 0)
    BY CardConstants
  <1>3. DOMAIN Ticks = 1..Len(Ticks) /\ Len(Ticks) \in Nat \ {0}
    BY <1>1, EmptySeq
  <1>4. \A n \in 1..Len(Ticks) : Ticks[n] \in [lower: Nat, size: Nat \ {0}]
    BY <1>1, ElementOfSeq
  <1> QED
    BY <1>1, <1>2, <1>3, <1>4 DEF Low, Size

\* The ladder rises: TicksAre without the remainders.
LEMMA TicksRise ==
    /\ Len(Ticks) \in Nat
    /\ \A n \in 1..Len(Ticks) : Low(n) \in Nat /\ \A m \in 1..Len(Ticks) : n < m => Low(n) < Low(m)
  BY TicksAre

\* Step n is the one that holds at the price p / 100.
At(n, p) == n \in 1..Len(Ticks) /\ 100 * Low(n) <= p /\ (n < Len(Ticks) => p < 100 * Low(n + 1))

LEMMA StepAt ==
    ASSUME NEW x \in Int
    PROVE  /\ tick(x) \in Nat \ {0}
           /\ x >= 0 => \E n \in 1..Len(Ticks) : At(n, x) /\ tick(x) = Size(n)
  <1>1. PICK S : S = {1} \union {i \in DOMAIN Ticks : 100 * Ticks[i].lower <= x}
    OBVIOUS
  <1>2. S \subseteq 1..Len(Ticks) /\ 1 \in S
    BY <1>1, TicksAre
  <1>3. PICK n \in S : \A m \in S : m <= n
    <2>1. S \subseteq 0..Len(Ticks) /\ S # {} /\ Len(Ticks) \in Nat
      BY <1>2, TicksAre
    <2> QED
      BY <2>1, GreatestOfNaturals
  <1>4. Max(S) = n
    <2>1. \A m \in S : n >= m
      BY <1>2, <1>3
    <2>2. \A m \in S : (\A k \in S : m >= k) => m = n
      BY <1>2, <1>3
    <2> QED
      BY <1>3, <2>1, <2>2, Zenon DEF Max
  <1>5. tick(x) = Size(n)
    BY <1>1, <1>4 DEF tick, Size
  <1>6. x >= 0 => At(n, x)
    <2> SUFFICES ASSUME x >= 0 PROVE At(n, x)
      OBVIOUS
    <2>1. 100 * Low(n) <= x
      <3>1. CASE n = 1
        BY <3>1, TicksAre
      <3>2. CASE n # 1
        BY <1>1, <3>2 DEF Low
      <3> QED
        BY <3>1, <3>2
    <2>2. ASSUME n < Len(Ticks) PROVE x < 100 * Low(n + 1)
      <3>1. n + 1 \in 1..Len(Ticks) /\ n + 1 \notin S
        BY <1>2, <1>3, <2>2, TicksAre
      <3>2. ~(100 * Low(n + 1) <= x)
        BY <1>1, <3>1, TicksAre DEF Low
      <3> QED
        BY <3>1, <3>2, TicksAre
    <2> QED
      BY <1>2, <2>1, <2>2 DEF At
  <1> QED
    BY <1>2, <1>5, <1>6, TicksAre

\* The steps do not overlap.
LEMMA OneStep ==
    ASSUME NEW x \in Nat, NEW n, At(n, x)
    PROVE  tick(x) = Size(n)
  <1>1. PICK m \in 1..Len(Ticks) : At(m, x) /\ tick(x) = Size(m)
    BY StepAt
  <1>2. ASSUME NEW a \in 1..Len(Ticks), NEW b \in 1..Len(Ticks), At(a, x), At(b, x), a < b PROVE FALSE
    <2>1. a < Len(Ticks) /\ a + 1 \in 1..Len(Ticks)
      BY <1>2, TicksAre
    <2>2. x < 100 * Low(a + 1) /\ 100 * Low(b) <= x
      BY <1>2, <2>1 DEF At
    <2>3. Low(a + 1) <= Low(b)
      <3>1. CASE a + 1 = b
        BY <3>1, TicksAre
      <3>2. CASE a + 1 # b
        BY <1>2, <2>1, <3>2, TicksAre
      <3> QED
        BY <3>1, <3>2
    <2> QED
      <3>1. Low(a + 1) \in Nat /\ Low(b) \in Nat
        BY <1>2, <2>1, TicksRise
      <3>2. 100 * Low(a + 1) <= 100 * Low(b)
        BY <2>3, <3>1
      <3> QED
        BY <2>2, <3>1, <3>2
  <1>3. n \in 1..Len(Ticks)
    BY DEF At
  <1>4. n = m
    BY <1>1, <1>2, <1>3, TicksAre
  <1> QED
    BY <1>1, <1>4

\* A price of the exchange: a natural number of units on its step.
OnGrid(p) == p \in Nat /\ OnStep(p)

LEMMA OnGridIs ==
    ASSUME NEW p \in Nat, NEW n, At(n, 100 * p), p % Size(n) = 0
    PROVE  OnGrid(p)
  <1>1. n \in 1..Len(Ticks) /\ n \in DOMAIN Ticks
    BY TicksAre DEF At
  <1>2. p >= Low(n)
    BY <1>1, TicksAre DEF At
  <1>3. n < Len(Ticks) => p < Low(n + 1)
    <2>1. n < Len(Ticks) => n + 1 \in 1..Len(Ticks) /\ 100 * p < 100 * Low(n + 1)
      BY <1>1, TicksAre DEF At
    <2> QED
      BY <2>1, TicksAre
  <1> QED
    BY <1>1, <1>2, <1>3 DEF OnGrid, OnStep, Low, Size

LEMMA GridStep ==
    ASSUME NEW p, OnGrid(p)
    PROVE  p \in Nat /\ p % tick(100 * p) = 0
  <1>1. PICK n \in DOMAIN Ticks : /\ p >= Low(n) /\ (n < Len(Ticks) => p < Low(n + 1))
                                  /\ p % Size(n) = 0
    BY DEF OnGrid, OnStep, Low, Size
  <1>2. n \in 1..Len(Ticks) /\ p \in Nat
    BY TicksAre DEF OnGrid
  <1>3. At(n, 100 * p)
    <2>1. 100 * Low(n) <= 100 * p
      BY <1>1, <1>2, TicksAre
    <2>2. n < Len(Ticks) => n + 1 \in 1..Len(Ticks)
      BY <1>2, TicksAre
    <2>3. n < Len(Ticks) => 100 * p < 100 * Low(n + 1)
      BY <1>1, <1>2, <2>2, TicksAre
    <2> QED
      BY <1>2, <2>1, <2>3 DEF At
  <1>4. 100 * p \in Nat
    BY <1>2
  <1>5. tick(100 * p) = Size(n)
    BY <1>3, <1>4, OneStep
  <1> QED
    BY <1>1, <1>2, <1>5


\* A number of steps that is less than a step away from x is a price.
LEMMA Rounded ==
    ASSUME NEW x \in Nat, NEW n, At(n, x), NEW q \in Int, NEW r, r = Size(n) * q,
           100 * Size(n) * q < x + 100 * Size(n), x < 100 * Size(n) * q + 100 * Size(n)
    PROVE  OnGrid(r)
  <1>1. n \in 1..Len(Ticks) /\ 100 * Low(n) <= x /\ (n < Len(Ticks) => x < 100 * Low(n + 1))
    BY DEF At
  <1>2. PICK s \in Nat \ {0} : s = Size(n)
    BY <1>1, TicksAre
  <1>3. PICK k \in Int : Low(n) = s * k
    <2>1. Low(n) \in Nat /\ Low(n) % s = 0
      BY <1>1, <1>2, TicksAre
    <2>2. PICK l \in Nat : l = Low(n)
      BY <2>1
    <2>0. l \in Int
      BY <2>2
    <2>3. l \div s \in Int /\ l = s * (l \div s) + (l % s)
      BY <2>0, Divided
    <2>4. l = s * (l \div s)
      BY <2>1, <2>2, <2>3
    <2> QED
      BY <2>2, <2>3, <2>4
  <1>4. PICK d \in Nat \ {0} : d = 100 * s
    OBVIOUS
  <1>5. /\ \A j \in Int : 100 * (s * j) = d * j /\ 100 * s * j = d * j
    BY <1>4
  <1>6. d * q < x + d /\ x < d * q + d /\ d * q + d = d * (q + 1)
    BY <1>2, <1>4, <1>5
  <1>7. k <= q
    <2>1. d * k <= x
      BY <1>1, <1>3, <1>5
    <2>2. d * k < d * (q + 1) /\ q + 1 \in Int
      BY <1>6, <2>1
    <2>3. k < q + 1
      BY <2>2, Cancel
    <2> QED
      BY <2>3
  <1>8. r \in Int /\ Low(n) <= r /\ r % s = 0 /\ 100 * Low(n) <= 100 * r
    <2>1. r = s * q /\ Low(n) = s * k
      BY <1>2, <1>3
    <2>2. s * k <= s * q /\ s * q \in Int /\ s * k \in Int
      BY <1>7, Cancel
    <2>3. r % s = 0
      BY <2>1, TimesMod
    <2> QED
      BY <2>1, <2>2, <2>3
  <1>9. r \in Nat
    BY <1>1, <1>8, TicksAre
  <1>10. ASSUME n < Len(Ticks) PROVE r <= Low(n + 1)
    <2>1. n + 1 \in 1..Len(Ticks) /\ n + 1 > 1 /\ (n + 1) - 1 = n
      BY <1>1, <1>10, TicksAre
    <2>2. PICK l \in Nat : l = Low(n + 1) /\ l % s = 0
      BY <1>2, <2>1, TicksAre
    <2>3. PICK j \in Int : l = s * j
      <3>0. l \in Int
        BY <2>2
      <3>1. l \div s \in Int /\ l = s * (l \div s) + (l % s)
        BY <3>0, Divided
      <3>2. l = s * (l \div s)
        BY <2>2, <3>1
      <3> QED
        BY <3>1, <3>2
    <2>4. x < d * j
      BY <1>1, <1>5, <1>10, <2>2, <2>3
    <2>5. d * q < d * (j + 1) /\ j + 1 \in Int
      <3>1. d * (j + 1) = d * j + d /\ d * j \in Int /\ d * q \in Int
        OBVIOUS
      <3> QED
        BY <1>6, <2>4, <3>1
    <2>6. q < j + 1
      BY <2>5, Cancel
    <2>7. s * q <= s * j
      BY <2>6, Cancel
    <2> QED
      BY <1>2, <2>2, <2>3, <2>7
  <1>11. CASE n < Len(Ticks) /\ r = Low(n + 1)
    <2>1. n + 1 \in 1..Len(Ticks)
      BY <1>1, <1>11, TicksAre
    <2>2. n + 1 < Len(Ticks) => n + 2 \in 1..Len(Ticks) /\ (n + 1) + 1 = n + 2 /\ Low(n + 1) < Low(n + 2)
      <3> SUFFICES ASSUME n + 1 < Len(Ticks)
                   PROVE  n + 2 \in 1..Len(Ticks) /\ (n + 1) + 1 = n + 2 /\ Low(n + 1) < Low(n + 2)
        OBVIOUS
      <3>1. n \in Nat /\ Len(Ticks) \in Nat
        BY <1>1, TicksAre DEF At
      <3>2. n + 2 \in 1..Len(Ticks) /\ (n + 1) + 1 = n + 2 /\ n + 1 < n + 2
        BY <3>1
      <3>3. \A m \in 1..Len(Ticks) : n + 1 < m => Low(n + 1) < Low(m)
        BY <2>1, TicksRise
      <3> QED
        BY <3>2, <3>3
    <2>3. At(n + 1, 100 * r)
      <3>1. 100 * Low(n + 1) <= 100 * r
        BY <1>9, <1>11
      <3>2. n + 1 < Len(Ticks) => 100 * r < 100 * Low((n + 1) + 1)
        BY <1>9, <1>11, <2>2, TicksAre
      <3> QED
        BY <2>1, <3>1, <3>2 DEF At
    <2>4. r % Size(n + 1) = 0
      BY <1>11, <2>1, TicksAre
    <2> QED
      BY <1>9, <2>3, <2>4, OnGridIs
  <1>12. CASE ~(n < Len(Ticks) /\ r = Low(n + 1))
    <2>1. n < Len(Ticks) => n + 1 \in 1..Len(Ticks) /\ r < Low(n + 1) /\ Low(n + 1) \in Nat
      <3>1. n \in 1..Len(Ticks) /\ Len(Ticks) \in Nat /\ r \in Nat
        BY <1>1, <1>9, TicksRise DEF At
      <3>2. n < Len(Ticks) => n + 1 \in 1..Len(Ticks) /\ Low(n + 1) \in Nat
        BY <3>1, TicksRise
      <3> QED
        BY <1>10, <1>12, <3>1, <3>2
    <2>2. n < Len(Ticks) => 100 * r < 100 * Low(n + 1)
      BY <1>9, <2>1
    <2>3. At(n, 100 * r)
      BY <1>1, <1>8, <2>2 DEF At
    <2> QED
      BY <1>2, <1>8, <1>9, <2>3, OnGridIs
  <1> QED
    BY <1>11, <1>12

LEMMA RoundDown ==
    ASSUME NEW x \in Int
    PROVE  /\ round_down(x) \in Int /\ 100 * round_down(x) <= x
           /\ round_down(x) >= 0 => OnGrid(round_down(x))
  <1>1. PICK s \in Nat \ {0} : s = tick(x)
    BY StepAt
  <1>2. PICK q : q = x \div (100 * s)
    OBVIOUS
  <1>3. q \in Int /\ (100 * s) * q <= x /\ x < (100 * s) * q + 100 * s
    <2>1. PICK d \in Nat \ {0} : d = 100 * s
      OBVIOUS
    <2>2. q = x \div d
      BY <1>2, <2>1
    <2>3. q \in Int /\ d * q <= x /\ x < d * q + d
      BY <2>2, Divided
    <2> QED
      BY <2>1, <2>3
  <1>4. PICK r : r = round_down(x)
    OBVIOUS
  <1>5. r = s * q
    BY <1>1, <1>2, <1>4 DEF round_down
  <1>6. r \in Int /\ 100 * r <= x
    BY <1>3, <1>5
  <1>7. ASSUME r >= 0 PROVE OnGrid(r)
    <2>1. x \in Nat /\ x >= 0
      BY <1>6, <1>7
    <2>2. PICK n \in 1..Len(Ticks) : At(n, x) /\ tick(x) = Size(n)
      BY <2>1, StepAt
    <2>3. s = Size(n)
      BY <1>1, <2>2
    <2>4. (100 * s) * q < x + 100 * s
      BY <1>3
    <2> QED
      BY <1>3, <1>5, <2>1, <2>2, <2>3, <2>4, Rounded
  <1> QED
    BY <1>4, <1>6, <1>7

LEMMA RoundUp ==
    ASSUME NEW x \in Nat
    PROVE  OnGrid(round_up(x)) /\ round_up(x) \in Nat /\ x <= 100 * round_up(x)
  <1>0. x \in Int /\ x >= 0
    OBVIOUS
  <1>1. PICK n \in 1..Len(Ticks) : At(n, x) /\ tick(x) = Size(n)
    BY <1>0, StepAt
  <1>2. PICK s \in Nat \ {0} : s = tick(x)
    BY <1>0, StepAt
  <1>3. PICK q : q = (x + 100 * s - 1) \div (100 * s)
    OBVIOUS
  <1>4. q \in Int /\ (100 * s) * q < x + 100 * s /\ x <= (100 * s) * q /\ x < (100 * s) * q + 100 * s
    <2>1. PICK d \in Nat \ {0} : d = 100 * s
      OBVIOUS
    <2>2. PICK y \in Int : y = x + 100 * s - 1
      OBVIOUS
    <2>3. q = y \div d
      BY <1>3, <2>1, <2>2
    <2>4. q \in Int /\ d * q <= y /\ y < d * q + d
      BY <2>3, Divided
    <2> QED
      BY <2>1, <2>2, <2>4
  <1>5. PICK r : r = round_up(x)
    OBVIOUS
  <1>6. r = s * q
    BY <1>2, <1>3, <1>5 DEF round_up
  <1>7. OnGrid(r)
    BY <1>1, <1>2, <1>4, <1>6, Rounded
  <1>8. x <= 100 * r
    BY <1>4, <1>6
  <1> QED
    BY <1>5, <1>7, <1>8 DEF OnGrid

LEMMA Nearest ==
    ASSUME NEW x \in Nat
    PROVE  nearest(x) \in Nat
  <1>0. x \in Int /\ x >= 0
    OBVIOUS
  <1>1. PICK n \in 1..Len(Ticks) : At(n, x) /\ tick(x) = Size(n)
    BY <1>0, StepAt
  <1>2. PICK s \in Nat \ {0} : s = tick(x)
    BY <1>0, StepAt
  <1>3. PICK q : q = x \div (100 * s)
    OBVIOUS
  <1>4. q \in Int /\ x < (100 * s) * (q + 1)
    <2>1. PICK d \in Nat \ {0} : d = 100 * s
      OBVIOUS
    <2>2. q = x \div d
      BY <1>3, <2>1
    <2>3. q \in Int /\ x < d * q + d
      BY <2>2, Divided
    <2> QED
      BY <2>1, <2>3
  <1>5. q \in Nat
    <2>1. 0 < (100 * s) * (q + 1) /\ 100 * s \in Nat \ {0} /\ q + 1 \in Int
      BY <1>4
    <2>2. PICK d \in Nat \ {0} : d = 100 * s
      BY <2>1
    <2>3. d * 0 < d * (q + 1)
      BY <2>1, <2>2
    <2>4. 0 < q + 1
      BY <2>1, <2>3, Cancel
    <2> QED
      BY <1>4, <2>4
  <1>6. nearest(x) = s * q \/ nearest(x) = s * (q + 1)
    BY <1>2, <1>3, Zenon DEF nearest
  <1> QED
    BY <1>5, <1>6

\* The lowest price that is not below x.
LEMMA LeastAbove ==
    ASSUME NEW x \in Nat, NEW p, OnGrid(p), x <= 100 * p
    PROVE  round_up(x) <= p
  <1> SUFFICES ASSUME ~(round_up(x) <= p) PROVE FALSE
    OBVIOUS
  <1>0. x \in Int /\ x >= 0 /\ p \in Nat
    BY DEF OnGrid
  <1>1. PICK n \in 1..Len(Ticks) : At(n, x) /\ tick(x) = Size(n)
    BY <1>0, StepAt
  <1>2. PICK s \in Nat \ {0} : s = tick(x)
    BY <1>0, StepAt
  <1>3. PICK q : q = (x + 100 * s - 1) \div (100 * s)
    OBVIOUS
  <1>4. q \in Int /\ (100 * s) * q < x + 100 * s
    <2>1. PICK d \in Nat \ {0} : d = 100 * s
      OBVIOUS
    <2>2. PICK y \in Int : y = x + 100 * s - 1
      OBVIOUS
    <2>3. q = y \div d
      BY <1>3, <2>1, <2>2
    <2>4. q \in Int /\ d * q <= y
      BY <2>3, Divided
    <2> QED
      BY <2>1, <2>2, <2>4
  <1>5. round_up(x) = s * q
    BY <1>2, <1>3 DEF round_up
  <1>6. PICK r \in Int : r = s * q
    BY <1>4
  <1>7. p < r
    BY <1>0, <1>5, <1>6
  <1>8. 100 * r < x + 100 * s
    BY <1>4, <1>6
  <1>9. At(n, 100 * p)
    <2>1. 100 * Low(n) <= 100 * p
      BY <1>0, <1>1, TicksAre DEF At
    <2>2. ASSUME n < Len(Ticks) PROVE 100 * p < 100 * Low(n + 1)
      <3>1. n + 1 \in 1..Len(Ticks) /\ n + 1 > 1 /\ (n + 1) - 1 = n
        BY <2>2, TicksAre
      <3>2. PICK l \in Nat : l = Low(n + 1) /\ l % s = 0
        BY <1>1, <1>2, <3>1, TicksAre
      <3>3. PICK j \in Int : l = s * j
        <4>0. l \in Int
          BY <3>2
        <4>1. l \div s \in Int /\ l = s * (l \div s) + (l % s)
          BY <4>0, Divided
        <4>2. l = s * (l \div s)
          BY <3>2, <4>1
        <4> QED
          BY <4>1, <4>2
      <3>4. x < 100 * (s * j) /\ (100 * s) * j = 100 * (s * j)
        BY <1>1, <2>2, <3>2, <3>3 DEF At
      <3>5. (100 * s) * q < (100 * s) * (j + 1)
        BY <1>4, <3>4
      <3>6. q < j + 1
        <4>1. PICK d \in Nat \ {0} : d = 100 * s
          OBVIOUS
        <4>2. d * q < d * (j + 1) /\ j + 1 \in Int
          BY <3>5, <4>1
        <4> QED
          BY <1>4, <4>2, Cancel
      <3>7. s * q <= s * j
        BY <1>4, <3>6, Cancel
      <3> QED
        BY <1>0, <1>6, <1>7, <3>2, <3>3, <3>7
    <2> QED
      BY <2>1, <2>2 DEF At
  <1>10. tick(100 * p) = s /\ 100 * p \in Nat
    <2>1. 100 * p \in Nat
      BY <1>0
    <2> QED
      BY <1>1, <1>2, <1>9, <2>1, OneStep
  <1>11. PICK j \in Int : p = s * j
    <2>1. p % s = 0
      BY <1>10, GridStep
    <2>2. p \in Int
      BY <1>0
    <2>3. p \div s \in Int /\ p = s * (p \div s) + (p % s)
      BY <2>2, Divided
    <2>4. p = s * (p \div s)
      BY <1>0, <2>1, <2>3
    <2> QED
      BY <2>3, <2>4
  <1>12. j + 1 <= q
    <2>1. j < q
      BY <1>4, <1>6, <1>7, <1>11, Cancel
    <2> QED
      BY <1>4, <2>1
  <1>13. s * (j + 1) <= s * q
    BY <1>4, <1>12, Cancel
  <1>14. p + s <= r
    BY <1>6, <1>11, <1>13
  <1> QED
    BY <1>0, <1>8, <1>14

-----------------------------------------------------------------------------
(* Levels of a card.                                                       *)

GoodContext(c) ==
    /\ c.close \in Nat \ {0} /\ c.atr \in Nat \ {0} /\ c.hi20 \in Nat /\ c.hi60 \in Nat
    /\ c.hi20 = 0 \/ c.close <= c.hi20

LEMMA BandIs ==
    ASSUME NEW x \in Nat \ {0}
    PROVE  /\ OnGrid(band_floor(x)) /\ band_floor(x) \in Nat
           /\ x * (100 - band) <= 100 * band_floor(x)
           /\ band_ceiling(x) \in Int /\ 100 * band_ceiling(x) <= x * (100 + band)
           /\ band_ceiling(x) >= 0 => OnGrid(band_ceiling(x))
           /\ \A p : OnGrid(p) /\ x <= p => band_floor(x) <= p
  <1>1. PICK b \in 0..100 : b = band
    BY CardNumbers
  <1>2. x * (100 - b) \in Nat /\ x * (100 + b) \in Int /\ x * (100 - b) <= 100 * x
    OBVIOUS
  <1>3. PICK y \in Nat : y = x * (100 - b)
    BY <1>2
  <1>4. PICK w \in Int : w = x * (100 + b)
    BY <1>2
  <1>5. OnGrid(round_up(y)) /\ round_up(y) \in Nat /\ y <= 100 * round_up(y)
    BY RoundUp
  <1>6. /\ round_down(w) \in Int /\ 100 * round_down(w) <= w
        /\ round_down(w) >= 0 => OnGrid(round_down(w))
    BY RoundDown
  <1>7. ASSUME NEW p, OnGrid(p), x <= p PROVE round_up(y) <= p
    <2>1. y <= 100 * p
      BY <1>2, <1>3, <1>7 DEF OnGrid
    <2> QED
      BY <1>7, <2>1, LeastAbove
  <1>8. band_floor(x) = round_up(y) /\ band_ceiling(x) = round_down(w)
    BY <1>1, <1>3, <1>4 DEF band_floor, band_ceiling
  <1> QED
    BY <1>1, <1>3, <1>4, <1>5, <1>6, <1>7, <1>8

\* A price that is one when it is not negative.
MaybePrice(p) == p \in Int /\ (p >= 0 => OnGrid(p))

LEMMA DownIsMaybe == \A x \in Int : MaybePrice(round_down(x))
  BY RoundDown DEF MaybePrice

\* What the rules of a style ask for.
ZoneOK(c, z) ==
    /\ z = [order |-> z.order, trigger |-> z.trigger, low |-> z.low, high |-> z.high]
    /\ z.order \in {"limit", "stop", "ato"} /\ MaybePrice(z.low) /\ MaybePrice(z.high) /\ z.trigger \in Nat
    /\ z.order = "stop" => /\ StyleOf(c) = "breakout" /\ OnGrid(z.trigger)
                           /\ c.hi20 > 0 => c.close <= z.trigger

LEMMA ZoneIs ==
    ASSUME NEW c, GoodContext(c), style \in Styles
    PROVE  ZoneOK(c, EntryZone(c))
  <1>1. PICK t : t = round_up(100 * c.hi20 + swing.buffer_atr * c.atr)
    OBVIOUS
  <1>2. /\ OnGrid(t) /\ t \in Nat /\ 100 * c.hi20 <= 100 * t
    <2>1. swing.buffer_atr * c.atr \in Nat /\ c.hi20 \in Nat
      BY CardNumbers DEF GoodContext
    <2>2. PICK x \in Nat : x = 100 * c.hi20 + swing.buffer_atr * c.atr
      BY <2>1
    <2>3. OnGrid(round_up(x)) /\ round_up(x) \in Nat /\ x <= 100 * round_up(x)
      BY RoundUp
    <2> QED
      BY <1>1, <2>1, <2>2, <2>3
  <1>3. StyleOf(c) \in {"pullback", "breakout", "ato"}
    BY CardConstants DEF StyleOf
  <1>4. PICK z : z = EntryZone(c)
    OBVIOUS
  <1>5. CASE StyleOf(c) = "pullback"
    <2>1. z = [order |-> "limit", trigger |-> 0,
               low |-> round_down(100 * c.close - swing.pullback_atr[1] * c.atr),
               high |-> round_down(100 * c.close - swing.pullback_atr[2] * c.atr)]
      BY <1>4, <1>5 DEF EntryZone
    <2>2. /\ 100 * c.close - swing.pullback_atr[1] * c.atr \in Int
          /\ 100 * c.close - swing.pullback_atr[2] * c.atr \in Int
      BY CardNumbers DEF GoodContext
    <2>3. MaybePrice(z.low) /\ MaybePrice(z.high)
      BY <2>1, <2>2, DownIsMaybe
    <2> QED
      BY <1>4, <2>1, <2>3 DEF ZoneOK
  <1>6. CASE StyleOf(c) = "breakout"
    <2>1. PICK h : h = round_down(100 * t + swing.zone_atr * c.atr)
      OBVIOUS
    <2>2. z = [order |-> "stop", trigger |-> t, low |-> t, high |-> Larger(t, h)]
      BY <1>1, <1>4, <1>6, <2>1, Zenon DEF EntryZone
    <2>3. 100 * t + swing.zone_atr * c.atr \in Int
      BY <1>2, CardNumbers DEF GoodContext
    <2>4. MaybePrice(h) /\ MaybePrice(t)
      BY <1>2, <2>1, <2>3, DownIsMaybe DEF MaybePrice
    <2>5. MaybePrice(Larger(t, h))
      BY <2>4 DEF Larger
    <2>6. c.hi20 > 0 => c.close <= t
      BY <1>2 DEF GoodContext
    <2> QED
      BY <1>2, <1>4, <1>6, <2>2, <2>4, <2>5, <2>6 DEF ZoneOK
  <1>7. CASE StyleOf(c) = "ato"
    <2>1. z = [order |-> "ato", trigger |-> 0,
               low |-> round_down(c.close * (100 + swing.ato_zone[1])),
               high |-> round_down(c.close * (100 + swing.ato_zone[2]))]
      BY <1>4, <1>7 DEF EntryZone
    <2>2. /\ c.close * (100 + swing.ato_zone[1]) \in Int
          /\ c.close * (100 + swing.ato_zone[2]) \in Int
      BY CardNumbers DEF GoodContext
    <2>3. MaybePrice(z.low) /\ MaybePrice(z.high)
      BY <2>1, <2>2, DownIsMaybe
    <2> QED
      BY <1>4, <2>1, <2>3 DEF ZoneOK
  <1> QED
    BY <1>3, <1>5, <1>6, <1>7

LEMMA InBandIs ==
    ASSUME NEW c, GoodContext(c), style \in Styles, NEW z, z = InBand(c)
    PROVE  /\ ZoneOK(c, z) /\ OnGrid(z.low) /\ band_floor(c.close) <= z.low /\ z.high <= band_ceiling(c.close)
  <1>1. PICK e : e = EntryZone(c)
    OBVIOUS
  <1>2. ZoneOK(c, e)
    BY <1>1, ZoneIs
  <1>3. PICK f, g : f = band_floor(c.close) /\ g = band_ceiling(c.close)
    OBVIOUS
  <1>4. OnGrid(f) /\ f \in Nat /\ MaybePrice(g) /\ g \in Int
    BY <1>3, BandIs DEF GoodContext, MaybePrice
  <1>5. z = [e EXCEPT !.low = Larger(e.low, f), !.high = Smaller(e.high, g)]
    BY <1>1, <1>3, Zenon DEF InBand
  <1>6. e = [order |-> e.order, trigger |-> e.trigger, low |-> e.low, high |-> e.high]
    BY <1>2 DEF ZoneOK
  <1>7. z = [order |-> e.order, trigger |-> e.trigger, low |-> Larger(e.low, f), high |-> Smaller(e.high, g)]
    BY <1>5, <1>6
  <1>8. OnGrid(Larger(e.low, f)) /\ Larger(e.low, f) \in Nat /\ f <= Larger(e.low, f)
    BY <1>2, <1>4 DEF ZoneOK, MaybePrice, Larger
  <1>9. MaybePrice(Smaller(e.high, g)) /\ Smaller(e.high, g) <= g
    BY <1>2, <1>4 DEF ZoneOK, MaybePrice, Smaller
  <1>10. PICK lo, hi : lo = Larger(e.low, f) /\ hi = Smaller(e.high, g)
    OBVIOUS
  <1>11. z = [order |-> e.order, trigger |-> e.trigger, low |-> lo, high |-> hi]
    BY <1>7, <1>10
  <1>12. z.order = e.order /\ z.trigger = e.trigger /\ z.low = lo /\ z.high = hi
    BY <1>11
  <1>13. z = [order |-> z.order, trigger |-> z.trigger, low |-> z.low, high |-> z.high]
    BY <1>11, <1>12
  <1> QED
    BY <1>2, <1>3, <1>8, <1>9, <1>10, <1>12, <1>13 DEF ZoneOK, MaybePrice

\* The zone of a card and the price its figures are computed from.
EntryOK(c, l) ==
    /\ OnGrid(l.low) /\ OnGrid(l.high) /\ l.reference \in Nat /\ l.trigger \in Nat
    /\ l.low <= l.reference /\ l.reference <= l.high /\ l.high > 0
    /\ band_floor(c.close) <= l.low /\ l.high <= band_ceiling(c.close)
    /\ l.order = "stop" => /\ OnGrid(l.trigger)
                           /\ band_floor(c.close) <= l.trigger /\ l.trigger <= band_ceiling(c.close)

LEMMA ReferenceIs ==
    ASSUME NEW z, z.low \in Nat, z.high \in Nat, z.low <= z.high
    PROVE  Reference(z) \in Nat /\ z.low <= Reference(z) /\ Reference(z) <= z.high
  <1>1. PICK x \in Nat : x = 50 * (z.low + z.high)
    OBVIOUS
  <1>2. nearest(x) \in Nat
    BY Nearest
  <1>3. PICK n \in Nat : n = nearest(x)
    BY <1>2
  <1>4. Reference(z) = Smaller(Larger(n, z.low), z.high)
    BY <1>1, <1>3 DEF Reference
  <1> QED
    BY <1>4 DEF Smaller, Larger

\* The levels of a SWING card that the rules give.
SwingOK(c, l) ==
    /\ EntryOK(c, l)
    /\ DOMAIN l = {"order", "trigger", "low", "high", "reference", "stop", "target1", "target2"}
    /\ OnGrid(l.stop) /\ OnGrid(l.target1) /\ OnGrid(l.target2)
    /\ 0 < l.stop /\ l.stop < l.reference
    /\ l.target1 <= l.target2 /\ (l.reference < l.target2 => l.reference < l.target1)

LEMMA LevelsAre ==
    ASSUME NEW c, GoodContext(c), style \in Styles, NEW l \in swing_levels(c)
    PROVE  SwingOK(c, l)
  <1>1. PICK z : z = InBand(c)
    OBVIOUS
  <1>2. PICK ref : ref = Reference(z)
    OBVIOUS
  <1>3. l \in LevelsAt(c, z, ref)
    BY <1>1, <1>2 DEF swing_levels
  <1>4. PICK stop : stop = round_down(100 * ref - swing.stop_atr * c.atr)
    OBVIOUS
  <1>5. PICK cap : cap = round_down(100 * (c.hi60 - tick(100 * c.hi60)))
    OBVIOUS
  <1>6. PICK u2 : u2 = round_up(100 * ref + swing.target2_atr * c.atr)
    OBVIOUS
  <1>7. PICK u1 : u1 = round_up(100 * ref + swing.target1_atr * c.atr)
    OBVIOUS
  <1>8. PICK t2 : t2 = IF c.hi60 > ref THEN Smaller(u2, cap) ELSE u2
    OBVIOUS
  <1>9. PICK t1 : t1 = IF c.hi60 > ref THEN Smaller(u1, cap) ELSE u1
    OBVIOUS
  <1>10. PICK bad : bad <=> \/ StyleOf(c) = "breakout" /\ c.hi20 = 0
                            \/ z.trigger > band_ceiling(c.close)
                            \/ z.low > z.high \/ z.high <= band_floor(c.close)
                            \/ stop <= 0 \/ stop >= ref
                            \/ (c.hi60 > ref) /\ cap <= ref + tick(100 * ref)
                            \/ t1 <= ref
    OBVIOUS
  <1>11. l \in IF bad THEN {}
               ELSE {[order |-> z.order, trigger |-> z.trigger, low |-> z.low, high |-> z.high,
                      reference |-> ref, stop |-> stop, target1 |-> Smaller(t1, t2), target2 |-> t2]}
    BY <1>3, <1>4, <1>5, <1>6, <1>7, <1>8, <1>9, <1>10 DEF LevelsAt
  <1>12. ~bad /\ l = [order |-> z.order, trigger |-> z.trigger, low |-> z.low, high |-> z.high,
                      reference |-> ref, stop |-> stop, target1 |-> Smaller(t1, t2), target2 |-> t2]
    BY <1>11
  <1>13. /\ ZoneOK(c, z) /\ OnGrid(z.low) /\ z.low \in Nat
         /\ band_floor(c.close) <= z.low /\ z.high <= band_ceiling(c.close)
         /\ band_floor(c.close) \in Nat /\ band_ceiling(c.close) \in Int /\ z.high \in Int
    BY <1>1, InBandIs, BandIs DEF OnGrid, GoodContext, ZoneOK, MaybePrice
  <1>14. z.trigger <= band_ceiling(c.close) /\ z.low <= z.high /\ z.high > band_floor(c.close)
    BY <1>10, <1>12, <1>13 DEF ZoneOK
  <1>15. z.high \in Nat /\ OnGrid(z.high) /\ z.high > 0
    BY <1>13, <1>14 DEF ZoneOK, MaybePrice
  <1>16. ref \in Nat /\ z.low <= ref /\ ref <= z.high
    BY <1>2, <1>13, <1>14, <1>15, ReferenceIs
  <1>17. MaybePrice(stop)
    <2>1. 100 * ref - swing.stop_atr * c.atr \in Int
      BY <1>16, CardNumbers DEF GoodContext
    <2> QED
      BY <1>4, <2>1, DownIsMaybe
  <1>18. 0 < stop /\ stop < ref /\ OnGrid(stop)
    BY <1>10, <1>12, <1>16, <1>17 DEF MaybePrice
  <1>19. OnGrid(u1) /\ u1 \in Nat /\ OnGrid(u2) /\ u2 \in Nat
    <2>1. PICK x \in Nat : x = 100 * ref + swing.target1_atr * c.atr
      BY <1>16, CardNumbers DEF GoodContext
    <2>2. PICK y \in Nat : y = 100 * ref + swing.target2_atr * c.atr
      BY <1>16, CardNumbers DEF GoodContext
    <2> QED
      BY <1>6, <1>7, <2>1, <2>2, RoundUp
  <1>20. (c.hi60 > ref) => OnGrid(cap) /\ cap \in Nat
    <2>1. c.hi60 \in Nat /\ 100 * c.hi60 \in Int
      BY DEF GoodContext
    <2>2. tick(100 * c.hi60) \in Nat
      BY <2>1, StepAt
    <2>3. 100 * (c.hi60 - tick(100 * c.hi60)) \in Int
      BY <2>1, <2>2
    <2>4. MaybePrice(cap)
      BY <1>5, <2>3, DownIsMaybe
    <2>5. tick(100 * ref) \in Nat
      <3>1. 100 * ref \in Int
        BY <1>16
      <3> QED
        BY <3>1, StepAt
    <2>6. (c.hi60 > ref) => ~(cap <= ref + tick(100 * ref))
      BY <1>10, <1>12
    <2> QED
      BY <1>16, <2>4, <2>5, <2>6 DEF MaybePrice
  <1>21. OnGrid(t1) /\ t1 \in Nat /\ OnGrid(t2) /\ t2 \in Nat
    BY <1>8, <1>9, <1>19, <1>20 DEF Smaller
  <1>22. t1 > ref
    BY <1>10, <1>12, <1>16, <1>21
  <1>23. z.order = "stop" => OnGrid(z.trigger) /\ band_floor(c.close) <= z.trigger
    <2> SUFFICES ASSUME z.order = "stop" PROVE OnGrid(z.trigger) /\ band_floor(c.close) <= z.trigger
      OBVIOUS
    <2>1. StyleOf(c) = "breakout" /\ OnGrid(z.trigger)
      BY <1>13 DEF ZoneOK
    <2>2. c.hi20 > 0 /\ c.close <= z.trigger
      BY <1>10, <1>12, <1>13, <2>1 DEF ZoneOK, GoodContext
    <2> QED
      BY <2>1, <2>2, BandIs DEF GoodContext
  <1>24. EntryOK(c, l)
    BY <1>12, <1>13, <1>14, <1>15, <1>16, <1>23 DEF EntryOK, ZoneOK
  <1>25. /\ OnGrid(Smaller(t1, t2)) /\ Smaller(t1, t2) <= t2
         /\ ref < t2 => ref < Smaller(t1, t2)
    BY <1>16, <1>21, <1>22 DEF Smaller
  <1> QED
    BY <1>12, <1>18, <1>21, <1>24, <1>25 DEF SwingOK

-----------------------------------------------------------------------------
(* Sums over finite sets.                                                  *)

LEMMA CountUp ==
    ASSUME NEW S, 0 \in S, \A n \in Nat : n \in S => n + 1 \in S
    PROVE  \A n \in Nat : n \in S
  <1>1. SUFFICES ASSUME Nat \ S # {} PROVE FALSE
    OBVIOUS
  <1>2. PICK n \in Nat \ S : \A m \in Nat \ S : n <= m
    BY <1>1, LeastOfNaturals
  <1>3. n # 0 /\ n - 1 \in Nat /\ ~(n <= n - 1)
    BY <1>2
  <1>4. n - 1 \in S
    BY <1>2, <1>3
  <1> QED
    BY <1>2, <1>3, <1>4

Any(T) == CHOOSE x \in T : TRUE
OneMore(f, g, T) == IF T = {} THEN 0 ELSE f[Any(T)] + g[T \ {Any(T)}]
SumsTo(f, S, g) == g = [T \in SUBSET S |-> OneMore(f, g, T)]
Amounts(f, S) == \A x \in S : f[x] \in Int

LEMMA OneLess ==
    ASSUME NEW T, IsFiniteSet(T), NEW x \in T
    PROVE  /\ IsFiniteSet(T \ {x}) /\ Cardinality(T) \in Nat \ {0}
           /\ Cardinality(T \ {x}) = Cardinality(T) - 1
  <1>1. Cardinality(T) \in Nat
    BY FS_CardinalityType
  <1>2. IsFiniteSet(T \ {x}) /\ Cardinality(T \ {x}) = Cardinality(T) - 1
    BY FS_RemoveElement
  <1>3. Cardinality(T) # 0
    BY FS_EmptySet
  <1> QED
    BY <1>1, <1>2, <1>3

LEMMA AnyIs == \A T : T # {} => Any(T) \in T
  BY DEF Any

LEMMA SumsExist ==
    ASSUME NEW S, IsFiniteSet(S), NEW f, Amounts(f, S)
    PROVE  \E g : SumsTo(f, S, g) /\ \A T \in SUBSET S : g[T] \in Int
  <1> DEFINE Small(n) == {T \in SUBSET S : Cardinality(T) <= n}
             Built(n, g) == /\ g \in [Small(n) -> Int]
                            /\ \A T \in Small(n) : g[T] = OneMore(f, g, T)
             I == {n \in Nat : \E g : Built(n, g)}
  <1>0. \A T \in SUBSET S : IsFiniteSet(T) /\ Cardinality(T) \in Nat
    BY FS_Subset, FS_CardinalityType
  <1>1. 0 \in I
    <2> DEFINE g == [T \in Small(0) |-> 0]
    <2>1. \A T \in Small(0) : T = {}
      BY <1>0, FS_EmptySet
    <2>2. Built(0, g)
      BY <2>1 DEF OneMore
    <2> QED
      BY <2>2
  <1>2. ASSUME NEW n \in Nat, n \in I PROVE n + 1 \in I
    <2>1. PICK g : Built(n, g)
      BY <1>2
    <2> DEFINE h == [T \in Small(n + 1) |-> IF T \in Small(n) THEN g[T] ELSE OneMore(f, g, T)]
    <2>2. ASSUME NEW T \in Small(n + 1), T # {}
          PROVE  T \ {Any(T)} \in Small(n) /\ T \ {Any(T)} \in Small(n + 1) /\ Any(T) \in S
      <3>1. Any(T) \in T
        BY <2>2, AnyIs
      <3>2. Cardinality(T \ {Any(T)}) = Cardinality(T) - 1 /\ Cardinality(T) \in Nat
        BY <1>0, <3>1, OneLess
      <3> QED
        BY <3>1, <3>2
    <2>3. Small(n) \subseteq Small(n + 1)
      BY <1>0
    <2>4. ASSUME NEW T \in Small(n + 1) PROVE h[T] \in Int /\ h[T] = OneMore(f, h, T)
      <3>1. CASE T = {}
        <4>1. T \in Small(n)
          BY <3>1, FS_EmptySet
        <4> QED
          BY <2>1, <3>1, <4>1 DEF OneMore
      <3>2. CASE T # {}
        <4> DEFINE R == T \ {Any(T)}
        <4>1. R \in Small(n) /\ R \in Small(n + 1) /\ Any(T) \in S
          BY <2>2, <3>2
        <4>2. h[R] = g[R] /\ g[R] \in Int
          <5> HIDE DEF R
          <5> QED
            BY <2>1, <4>1
        <4>3. OneMore(f, h, T) = OneMore(f, g, T) /\ OneMore(f, g, T) \in Int
          BY <3>2, <4>1, <4>2 DEF OneMore, Amounts
        <4>4. T \in Small(n) => g[T] = OneMore(f, g, T)
          BY <2>1
        <4>5. h[T] = IF T \in Small(n) THEN g[T] ELSE OneMore(f, g, T)
          OBVIOUS
        <4> HIDE DEF h
        <4> QED
          BY <4>3, <4>4, <4>5
      <3> QED
        BY <3>1, <3>2
    <2>5. Built(n + 1, h)
      <3>1. h \in [Small(n + 1) -> Int]
        <4>1. h = [T \in Small(n + 1) |-> h[T]]
          OBVIOUS
        <4> HIDE DEF h
        <4> QED
          BY <2>4, <4>1
      <3> HIDE DEF h
      <3> QED
        BY <2>4, <3>1
    <2> HIDE DEF h, Built
    <2> QED
      BY <2>5
  <1>3. Cardinality(S) \in I
    <2> HIDE DEF I
    <2> QED
      BY <1>1, <1>2, CountUp, FS_CardinalityType
  <1>4. PICK g : Built(Cardinality(S), g)
    BY <1>3
  <1>5. Small(Cardinality(S)) = SUBSET S
    <2>1. \A T \in SUBSET S : Cardinality(T) <= Cardinality(S)
      BY FS_Subset
    <2> QED
      BY <2>1
  <1>6. g \in [SUBSET S -> Int] /\ \A T \in SUBSET S : g[T] = OneMore(f, g, T)
    BY <1>4, <1>5
  <1>7. g = [T \in SUBSET S |-> OneMore(f, g, T)]
    BY <1>6
  <1> QED
    BY <1>6, <1>7 DEF SumsTo

\* One solution is as good as another, whatever set it is for.
LEMMA SumsAgree ==
    ASSUME NEW S, IsFiniteSet(S), NEW R \in SUBSET S, NEW f, NEW g, NEW h,
           SumsTo(f, S, g), SumsTo(f, R, h)
    PROVE  \A T \in SUBSET R : g[T] = h[T]
  <1> DEFINE I == {n \in Nat : \A T \in SUBSET R : Cardinality(T) = n => g[T] = h[T]}
  <1>0. \A T \in SUBSET R : IsFiniteSet(T) /\ Cardinality(T) \in Nat /\ T \in SUBSET S
    BY FS_Subset, FS_CardinalityType
  <1>1. \A T \in SUBSET R : g[T] = OneMore(f, g, T) /\ h[T] = OneMore(f, h, T)
    BY DEF SumsTo
  <1>2. 0 \in I
    <2>1. \A T \in SUBSET R : Cardinality(T) = 0 => T = {}
      BY <1>0, FS_EmptySet
    <2> QED
      BY <1>1, <2>1 DEF OneMore
  <1>3. ASSUME NEW n \in Nat, n \in I PROVE n + 1 \in I
    <2> SUFFICES ASSUME NEW T \in SUBSET R, Cardinality(T) = n + 1 PROVE g[T] = h[T]
      OBVIOUS
    <2>1. T # {}
      BY FS_EmptySet
    <2>2. Any(T) \in T
      BY <2>1, AnyIs
    <2>3. T \ {Any(T)} \in SUBSET R /\ Cardinality(T \ {Any(T)}) = n
      BY <1>0, <2>2, OneLess
    <2>4. g[T \ {Any(T)}] = h[T \ {Any(T)}]
      BY <1>3, <2>3
    <2> QED
      BY <1>1, <2>1, <2>4 DEF OneMore
  <1>4. \A n \in Nat : n \in I
    <2> HIDE DEF I
    <2> QED
      BY <1>2, <1>3, CountUp
  <1> QED
    BY <1>0, <1>4

LEMMA SumIs ==
    ASSUME NEW S, IsFiniteSet(S), NEW f, Amounts(f, S)
    PROVE  \E g : SumsTo(f, S, g) /\ SumOver(f, S) = g[S]
  <1>1. \E g : g = [T \in SUBSET S |->
                     IF T = {} THEN 0 ELSE LET x == CHOOSE x \in T : TRUE IN f[x] + g[T \ {x}]]
    <2>1. PICK g : SumsTo(f, S, g)
      BY SumsExist
    <2> QED
      BY <2>1, Zenon DEF SumsTo, OneMore, Any
  <1>2. \E g : /\ g = [T \in SUBSET S |->
                     IF T = {} THEN 0 ELSE LET x == CHOOSE x \in T : TRUE IN f[x] + g[T \ {x}]]
               /\ SumOver(f, S) = g[S]
    BY <1>1, Zenon DEF SumOver
  <1> QED
    BY <1>2 DEF SumsTo, OneMore, Any

LEMMA SumOfNone == ASSUME NEW f PROVE SumOver(f, {}) = 0
  <1>1. IsFiniteSet({}) /\ Amounts(f, {})
    BY FS_EmptySet DEF Amounts
  <1>2. PICK g : SumsTo(f, {}, g) /\ SumOver(f, {}) = g[{}]
    BY <1>1, SumIs
  <1> QED
    BY <1>2 DEF SumsTo, OneMore

LEMMA SumType ==
    ASSUME NEW S, IsFiniteSet(S), NEW f, Amounts(f, S)
    PROVE  SumOver(f, S) \in Int
  <1>1. PICK g : SumsTo(f, S, g) /\ \A T \in SUBSET S : g[T] \in Int
    BY SumsExist
  <1>2. PICK h : SumsTo(f, S, h) /\ SumOver(f, S) = h[S]
    BY SumIs
  <1>3. g[S] = h[S]
    BY <1>1, <1>2, SumsAgree
  <1> QED
    BY <1>1, <1>2, <1>3

LEMMA SumFirst ==
    ASSUME NEW S, IsFiniteSet(S), NEW f, Amounts(f, S), S # {}
    PROVE  SumOver(f, S) = f[Any(S)] + SumOver(f, S \ {Any(S)})
  <1>1. PICK R : R = S \ {Any(S)}
    OBVIOUS
  <1>2. R \in SUBSET S /\ IsFiniteSet(R) /\ Amounts(f, R)
    BY <1>1, FS_Subset DEF Amounts
  <1>3. PICK g : SumsTo(f, S, g) /\ SumOver(f, S) = g[S]
    BY SumIs
  <1>4. PICK h : SumsTo(f, R, h) /\ SumOver(f, R) = h[R]
    BY <1>2, SumIs
  <1>5. g[R] = h[R]
    BY <1>2, <1>3, <1>4, SumsAgree
  <1>6. g[S] = f[Any(S)] + g[R]
    BY <1>1, <1>3 DEF SumsTo, OneMore
  <1> QED
    BY <1>1, <1>3, <1>4, <1>5, <1>6

\* Any member may be added last.
LEMMA SumWithout ==
    ASSUME NEW S, IsFiniteSet(S), NEW f, Amounts(f, S), NEW y \in S
    PROVE  SumOver(f, S) = f[y] + SumOver(f, S \ {y})
  <1> DEFINE I == {n \in Nat : \A T \in SUBSET S : Cardinality(T) = n =>
                      \A x \in T : SumOver(f, T) = f[x] + SumOver(f, T \ {x})}
  <1>0. \A T \in SUBSET S : IsFiniteSet(T) /\ Cardinality(T) \in Nat /\ Amounts(f, T)
    BY FS_Subset, FS_CardinalityType DEF Amounts
  <1>1. 0 \in I
    BY <1>0, FS_EmptySet
  <1>2. ASSUME NEW n \in Nat, n \in I PROVE n + 1 \in I
    <2> SUFFICES ASSUME NEW T \in SUBSET S, Cardinality(T) = n + 1, NEW x \in T
                 PROVE  SumOver(f, T) = f[x] + SumOver(f, T \ {x})
      OBVIOUS
    <2>1. PICK z : z = Any(T)
      OBVIOUS
    <2>2. z \in T /\ SumOver(f, T) = f[z] + SumOver(f, T \ {z})
      BY <1>0, <2>1, AnyIs, SumFirst
    <2>3. CASE z = x
      BY <2>2, <2>3
    <2>4. CASE z # x
      <3>1. /\ T \ {x} \in SUBSET S /\ T \ {z} \in SUBSET S
            /\ Cardinality(T \ {x}) = n /\ Cardinality(T \ {z}) = n
        BY <1>0, <2>2, OneLess
      <3>2. z \in T \ {x} /\ x \in T \ {z}
        BY <2>2, <2>4
      <3>3. PICK U : U = (T \ {x}) \ {z}
        OBVIOUS
      <3>4. U = (T \ {z}) \ {x} /\ U \in SUBSET S
        BY <3>3
      <3>5. SumOver(f, T \ {x}) = f[z] + SumOver(f, U)
        BY <1>2, <3>1, <3>2, <3>3
      <3>6. SumOver(f, T \ {z}) = f[x] + SumOver(f, U)
        BY <1>2, <3>1, <3>2, <3>4
      <3>7. SumOver(f, U) \in Int /\ f[x] \in Int /\ f[z] \in Int
        BY <1>0, <2>2, <3>4, SumType DEF Amounts
      <3> QED
        BY <2>2, <3>5, <3>6, <3>7
    <2> QED
      BY <2>3, <2>4
  <1>3. \A n \in Nat : n \in I
    <2> HIDE DEF I
    <2> QED
      BY <1>1, <1>2, CountUp
  <1> QED
    BY <1>0, <1>3

\* What holds of no member, and with a set of one more member, holds.
LEMMA MemberByMember ==
    ASSUME NEW S, IsFiniteSet(S), NEW G, {} \in G,
           \A T \in SUBSET S : \A x \in T : T \ {x} \in G => T \in G
    PROVE  S \in G
  <1> DEFINE I == {n \in Nat : \A T \in SUBSET S : Cardinality(T) = n => T \in G}
  <1>0. \A T \in SUBSET S : IsFiniteSet(T) /\ Cardinality(T) \in Nat
    BY FS_Subset, FS_CardinalityType
  <1>1. 0 \in I
    <2>1. \A T \in SUBSET S : Cardinality(T) = 0 => T = {}
      BY <1>0, FS_EmptySet
    <2> QED
      BY <2>1
  <1>2. ASSUME NEW n \in Nat, n \in I PROVE n + 1 \in I
    <2> SUFFICES ASSUME NEW T \in SUBSET S, Cardinality(T) = n + 1 PROVE T \in G
      OBVIOUS
    <2>1. T # {}
      <3>1. Cardinality({}) = 0 /\ n + 1 # 0
        BY FS_EmptySet
      <3> QED
        BY <3>1
    <2>2. PICK x : x \in T
      BY <2>1
    <2>3. T \ {x} \in SUBSET S /\ Cardinality(T \ {x}) = n
      BY <1>0, <2>2, OneLess
    <2> QED
      BY <1>2, <2>2, <2>3
  <1>3. \A n \in Nat : n \in I
    <2> HIDE DEF I
    <2> QED
      BY <1>1, <1>2, CountUp
  <1> QED
    BY <1>0, <1>3

LEMMA PartsOf ==
    ASSUME NEW S, IsFiniteSet(S), NEW f, Amounts(f, S)
    PROVE  \A T \in SUBSET S :
              /\ IsFiniteSet(T) /\ Amounts(f, T) /\ SumOver(f, T) \in Int
              /\ \A x \in T : f[x] \in Int /\ SumOver(f, T) = f[x] + SumOver(f, T \ {x})
  <1> SUFFICES ASSUME NEW T \in SUBSET S
               PROVE  /\ IsFiniteSet(T) /\ Amounts(f, T) /\ SumOver(f, T) \in Int
                      /\ \A x \in T : f[x] \in Int /\ SumOver(f, T) = f[x] + SumOver(f, T \ {x})
    OBVIOUS
  <1>1. IsFiniteSet(T) /\ Amounts(f, T) /\ \A x \in T : f[x] \in Int
    BY FS_Subset DEF Amounts
  <1> QED
    BY <1>1, SumType, SumWithout

\* An inequality that holds of every member holds of the sums.
LEMMA LinearSums ==
    ASSUME NEW S, IsFiniteSet(S), NEW c, Amounts(c, S), NEW p, Amounts(p, S), NEW t, Amounts(t, S),
           NEW k \in Nat, NEW m \in Nat, NEW n \in Nat,
           \A x \in S : k * c[x] <= m * p[x] + n * t[x]
    PROVE  k * SumOver(c, S) <= m * SumOver(p, S) + n * SumOver(t, S)
  <1> DEFINE G == {T \in SUBSET S : k * SumOver(c, T) <= m * SumOver(p, T) + n * SumOver(t, T)}
  <1>1. {} \in G
    BY SumOfNone
  <1>2. ASSUME NEW T \in SUBSET S, NEW x \in T, T \ {x} \in G PROVE T \in G
    <2>1. PICK C, P, Q : /\ C = SumOver(c, T \ {x}) /\ P = SumOver(p, T \ {x}) /\ Q = SumOver(t, T \ {x})
      OBVIOUS
    <2>2. PICK u, v, w : u = c[x] /\ v = p[x] /\ w = t[x]
      OBVIOUS
    <2>3. T \ {x} \in SUBSET S
      OBVIOUS
    <2>4. C \in Int /\ P \in Int /\ Q \in Int /\ u \in Int /\ v \in Int /\ w \in Int
      BY <2>1, <2>2, <2>3, PartsOf
    <2>5. SumOver(c, T) = u + C /\ SumOver(p, T) = v + P /\ SumOver(t, T) = w + Q
      BY <2>1, <2>2, PartsOf
    <2>6. k * C <= m * P + n * Q
      BY <1>2, <2>1
    <2>7. k * u <= m * v + n * w
      BY <2>2
    <2>8. k * (u + C) = k * u + k * C /\ m * (v + P) = m * v + m * P /\ n * (w + Q) = n * w + n * Q
      BY <2>4
    <2>9. k * (u + C) <= m * (v + P) + n * (w + Q)
      <3>1. /\ k * u \in Int /\ k * C \in Int /\ m * v \in Int /\ m * P \in Int
            /\ n * w \in Int /\ n * Q \in Int
        BY <2>4
      <3> QED
        BY <2>6, <2>7, <2>8, <3>1
    <2> QED
      BY <2>5, <2>9
  <1>3. S \in G
    <2> HIDE DEF G
    <2> QED
      BY <1>1, <1>2, MemberByMember
  <1> QED
    BY <1>3

LEMMA SumsCompare ==
    ASSUME NEW S, IsFiniteSet(S), NEW f, Amounts(f, S), NEW h, Amounts(h, S),
           \A x \in S : f[x] <= h[x]
    PROVE  SumOver(f, S) <= SumOver(h, S)
  <1>1. \A x \in S : 1 * f[x] <= 1 * h[x] + 0 * h[x]
    BY DEF Amounts
  <1>2. 1 * SumOver(f, S) <= 1 * SumOver(h, S) + 0 * SumOver(h, S)
    BY <1>1, LinearSums
  <1> QED
    BY <1>2, SumType

LEMMA SumsAlike ==
    ASSUME NEW S, IsFiniteSet(S), NEW f, Amounts(f, S), NEW h, \A x \in S : f[x] = h[x]
    PROVE  SumOver(f, S) = SumOver(h, S)
  <1>1. Amounts(h, S) /\ \A x \in S : f[x] <= h[x] /\ h[x] <= f[x]
    BY DEF Amounts
  <1>2. SumOver(f, S) <= SumOver(h, S) /\ SumOver(h, S) <= SumOver(f, S)
    BY <1>1, SumsCompare
  <1> QED
    BY <1>1, <1>2, SumType

\* Members with nothing to add change nothing, members with more add to it.
LEMMA SumOfMore ==
    ASSUME NEW S, IsFiniteSet(S), NEW f, Amounts(f, S), NEW R \in SUBSET S,
           \A x \in S \ R : f[x] >= 0
    PROVE  /\ SumOver(f, R) <= SumOver(f, S)
           /\ (\A x \in S \ R : f[x] = 0) => SumOver(f, R) = SumOver(f, S)
  <1> DEFINE G == {T \in SUBSET S :
                      /\ SumOver(f, T \intersect R) <= SumOver(f, T)
                      /\ (\A x \in S \ R : f[x] = 0) => SumOver(f, T \intersect R) = SumOver(f, T)}
  <1>1. {} \in G
    <2>1. {} \intersect R = {}
      OBVIOUS
    <2> QED
      BY <2>1, SumOfNone
  <1>2. ASSUME NEW T \in SUBSET S, NEW x \in T, T \ {x} \in G PROVE T \in G
    <2>1. PICK A, B : A = SumOver(f, (T \ {x}) \intersect R) /\ B = SumOver(f, T \ {x})
      OBVIOUS
    <2>2. A \in Int /\ B \in Int /\ f[x] \in Int /\ SumOver(f, T) = f[x] + B
      BY <2>1, PartsOf
    <2>3. A <= B /\ ((\A z \in S \ R : f[z] = 0) => A = B)
      BY <1>2, <2>1
    <2>4. CASE x \in R
      <3>1. x \in T \intersect R /\ (T \intersect R) \ {x} = (T \ {x}) \intersect R
        BY <2>4
      <3>2. T \intersect R \in SUBSET S
        OBVIOUS
      <3>3. SumOver(f, T \intersect R) = f[x] + A
        BY <2>1, <3>1, <3>2, PartsOf
      <3> QED
        BY <2>2, <2>3, <3>3
    <2>5. CASE x \notin R
      <3>1. T \intersect R = (T \ {x}) \intersect R
        BY <2>5
      <3>2. SumOver(f, T \intersect R) = A /\ f[x] >= 0
        BY <2>1, <2>5, <3>1
      <3> QED
        BY <2>2, <2>3, <2>5, <3>2
    <2> QED
      BY <2>4, <2>5
  <1>3. S \in G
    <2> HIDE DEF G
    <2> QED
      BY <1>1, <1>2, MemberByMember
  <1>4. S \intersect R = R
    OBVIOUS
  <1> QED
    BY <1>3, <1>4

\* One more member, new or not.
LEMMA SumOfOneMore ==
    ASSUME NEW S, IsFiniteSet(S), NEW y, NEW f, Amounts(f, S \union {y}), f[y] >= 0
    PROVE  SumOver(f, S \union {y}) <= SumOver(f, S) + f[y]
  <1>1. PICK T : T = S \union {y}
    OBVIOUS
  <1>2. IsFiniteSet(T) /\ y \in T /\ f[y] \in Int /\ Amounts(f, S) /\ SumOver(f, S) \in Int
    BY <1>1, FS_AddElement, SumType DEF Amounts
  <1>3. SumOver(f, T) = f[y] + SumOver(f, T \ {y})
    BY <1>1, <1>2, SumWithout
  <1>4. T \ {y} \in SUBSET S /\ \A x \in S \ (T \ {y}) : x = y
    BY <1>1
  <1>5. SumOver(f, T \ {y}) <= SumOver(f, S)
    BY <1>2, <1>4, SumOfMore
  <1>6. SumOver(f, T \ {y}) \in Int
    BY <1>2, <1>4, PartsOf
  <1> QED
    BY <1>1, <1>2, <1>3, <1>5, <1>6

LEMMA SumBound ==
    ASSUME NEW S, IsFiniteSet(S), NEW f, Amounts(f, S), NEW k \in Nat, \A x \in S : f[x] <= k
    PROVE  SumOver(f, S) <= k * Cardinality(S)
  <1> DEFINE G == {T \in SUBSET S : SumOver(f, T) <= k * Cardinality(T)}
  <1>1. {} \in G
    BY SumOfNone, FS_EmptySet
  <1>2. ASSUME NEW T \in SUBSET S, NEW x \in T, T \ {x} \in G PROVE T \in G
    <2>1. PICK A, N : A = SumOver(f, T \ {x}) /\ N = Cardinality(T \ {x})
      OBVIOUS
    <2>2. IsFiniteSet(T) /\ A \in Int /\ f[x] \in Int /\ SumOver(f, T) = f[x] + A /\ f[x] <= k
      BY <2>1, PartsOf
    <2>3. N \in Nat /\ Cardinality(T) = N + 1
      <3>1. Cardinality(T) \in Nat \ {0} /\ Cardinality(T \ {x}) = Cardinality(T) - 1
        BY <2>2, OneLess
      <3> QED
        BY <2>1, <3>1
    <2>4. A <= k * N
      BY <1>2, <2>1
    <2>5. k * (N + 1) = k * N + k /\ k * N \in Int
      BY <2>3
    <2> QED
      BY <2>2, <2>3, <2>4, <2>5
  <1>3. S \in G
    <2> HIDE DEF G
    <2> QED
      BY <1>1, <1>2, MemberByMember
  <1> QED
    BY <1>3

-----------------------------------------------------------------------------
(* Cards.                                                                  *)

LEMMA PresetsAre ==
    /\ Presets = {"b1", "b2"} /\ "swing" \notin Presets /\ budgets \in [Presets \union {"swing"} -> Nat]
    /\ IsFiniteSet(Names)
  BY CardConstants

LEMMA LotsIs ==
    ASSUME NEW q \in Int
    PROVE  lots(q) \in Int /\ lots(q) % lot_size = 0 /\ lots(q) <= q
  <1>1. PICK s \in Nat \ {0} : s = lot_size
    BY CardNumbers
  <1>2. PICK k : k = q \div s
    OBVIOUS
  <1>3. k \in Int /\ s * k <= q
    BY <1>2, Divided
  <1>4. lots(q) = s * k
    BY <1>1, <1>2 DEF lots
  <1>5. (s * k) % s = 0 /\ s * k \in Int
    BY <1>3, TimesMod
  <1> QED
    BY <1>1, <1>3, <1>4, <1>5

WholeLots(n) == n \in Nat \ {0} /\ n % lot_size = 0

LEMMA WholeLotsIs == \A q \in Int : lots(q) >= lot_size => WholeLots(lots(q))
  BY LotsIs, CardNumbers DEF WholeLots

\* The cards the builders give, in whatever size the limits leave.
SwingCard(m, c) ==
    /\ c = [name |-> c.name, sleeve |-> "swing", action |-> c.action,
            levels |-> c.levels, shares |-> c.shares, full |-> c.full]
    /\ c.name \in Names /\ c.action \in {"BUY", "WATCH"}
    /\ SwingOK(m[c.name], c.levels) /\ WholeLots(c.shares)
    /\ 2 * (c.levels.target2 - c.levels.reference) >= 3 * (c.levels.reference - c.levels.stop)

InvestCard(m, c) ==
    /\ c.sleeve \in Presets /\ c.name \in Names /\ c.action \in {"BUY", "WATCH"}
    /\ EntryOK(m[c.name], c.levels) /\ WholeLots(c.shares)
    /\ c.levels.order = "limit" /\ DOMAIN c.levels = {"order", "trigger", "low", "high", "reference"}

EveningOK(m) == style \in Styles /\ \A a \in Names : GoodContext(m[a])

LEMMA SizingIs ==
    ASSUME NEW c, NEW l, SwingOK(c, l)
    PROVE  swing_sizing(l) >= lot_size => WholeLots(swing_sizing(l))
  <1>1. l.high \in Nat \ {0} /\ l.reference \in Nat /\ l.stop \in Nat /\ l.stop < l.reference
    BY DEF SwingOK, EntryOK, OnGrid
  <1>2. PICK d \in Nat \ {0} : d = l.reference - l.stop
    BY <1>1
  <1>3. PICK e \in Nat \ {0} : e = d * l.high
    BY <1>1
  <1>4. PICK x \in Int : x = swing.risk_per_trade * l.reference
    BY <1>1, CardNumbers
  <1>5. swing.max_weight \in Int
    BY CardNumbers
  <1>6. PICK p, q : p = x \div e /\ q = swing.max_weight \div l.high
    OBVIOUS
  <1>7. p \in Int /\ q \in Int
    BY <1>1, <1>5, <1>6, Divided
  <1>8. swing_sizing(l) = lots(Smaller(p, q))
    BY <1>2, <1>3, <1>4, <1>6 DEF swing_sizing
  <1>9. Smaller(p, q) \in Int
    BY <1>7 DEF Smaller
  <1> QED
    BY <1>8, <1>9, WholeLotsIs

LEMMA RewardIs ==
    ASSUME NEW c, NEW l, SwingOK(c, l), MinReward(l)
    PROVE  2 * (l.target2 - l.reference) >= 3 * (l.reference - l.stop) /\ l.reference < l.target2
  <1>1. /\ l.reference \in Nat /\ l.stop \in Nat /\ l.stop < l.reference /\ l.target2 \in Nat
    BY DEF SwingOK, EntryOK, OnGrid
  <1>2. PICK r \in Nat \ {0} : r = l.reference - l.stop
    BY <1>1
  <1>3. PICK w \in Int : w = l.target2 - l.reference
    BY <1>1
  <1>4. PICK k \in Nat : k = swing.min_rr /\ k >= 150
    BY CardNumbers
  <1>5. 100 * w >= k * r
    BY <1>2, <1>3, <1>4 DEF MinReward
  <1>6. k * r >= 150 * r
    <2>1. r * 150 <= r * k
      BY <1>4, Cancel
    <2> QED
      BY <1>2, <1>4, <2>1
  <1> QED
    BY <1>1, <1>2, <1>3, <1>5, <1>6

LEMMA SwingCardIs ==
    ASSUME NEW a \in Names, NEW w \in BOOLEAN, EveningOK(context), NEW c \in build_swing_card(a, w)
    PROVE  SwingCard(context, c) /\ c.name = a /\ c.action = IF w THEN "WATCH" ELSE "BUY"
  <1>1. PICK l \in swing_levels(context[a]) :
            /\ MinReward(l) /\ swing_sizing(l) >= lot_size
            /\ c = [name |-> a, sleeve |-> "swing", action |-> IF w THEN "WATCH" ELSE "BUY",
                    levels |-> l, shares |-> swing_sizing(l), full |-> swing_sizing(l)]
    BY DEF build_swing_card
  <1>2. SwingOK(context[a], l)
    BY LevelsAre DEF EveningOK
  <1>3. WholeLots(swing_sizing(l))
    BY <1>1, <1>2, SizingIs
  <1>4. 2 * (l.target2 - l.reference) >= 3 * (l.reference - l.stop)
    BY <1>1, <1>2, RewardIs
  <1>5. PICK q : q = swing_sizing(l)
    OBVIOUS
  <1>6. PICK v : v = IF w THEN "WATCH" ELSE "BUY"
    OBVIOUS
  <1>7. c = [name |-> a, sleeve |-> "swing", action |-> v, levels |-> l, shares |-> q, full |-> q]
    BY <1>1, <1>5, <1>6
  <1>8. c.name = a /\ c.action = v /\ c.levels = l /\ c.shares = q /\ c.full = q
    BY <1>7
  <1>9. c = [name |-> c.name, sleeve |-> "swing", action |-> c.action,
             levels |-> c.levels, shares |-> c.shares, full |-> c.full]
    BY <1>7, <1>8
  <1> QED
    BY <1>2, <1>3, <1>4, <1>5, <1>6, <1>8, <1>9 DEF SwingCard

LEMMA InvestCardIs ==
    ASSUME NEW a \in Names, NEW key \in Presets, NEW weight \in Nat, NEW w \in BOOLEAN,
           EveningOK(context), NEW c \in build_invest_card(a, key, weight, w)
    PROVE  InvestCard(context, c) /\ c.name = a /\ c.action = IF w THEN "WATCH" ELSE "BUY"
  <1>1. PICK x \in Nat \ {0} : x = context[a].close
    BY DEF EveningOK, GoodContext
  <1>2. PICK f, g : f = band_floor(x) /\ g = band_ceiling(x)
    OBVIOUS
  <1>3. PICK lo, hi : /\ lo = Larger(round_down(x * (100 + invest_zone[1])), f)
                      /\ hi = Smaller(round_down(x * (100 + invest_zone[2])), g)
    OBVIOUS
  <1>4. PICK z : z = [low |-> lo, high |-> hi]
    OBVIOUS
  <1>5. PICK shares : shares = lots(Smaller(weight, invest_max) \div hi)
    OBVIOUS
  <1>6. /\ ~(lo > hi) /\ ~(hi <= f) /\ ~(shares < lot_size)
        /\ c = [name |-> a, sleeve |-> key, action |-> IF w THEN "WATCH" ELSE "BUY",
                levels |-> [order |-> "limit", trigger |-> 0, low |-> lo, high |-> hi,
                            reference |-> Reference(z)],
                shares |-> shares, full |-> shares]
    BY <1>1, <1>2, <1>3, <1>4, <1>5 DEF build_invest_card
  <1>7. OnGrid(f) /\ f \in Nat /\ g \in Int /\ MaybePrice(g)
    BY <1>2, BandIs DEF MaybePrice
  <1>8. PICK u, v : /\ u = round_down(x * (100 + invest_zone[1])) /\ v = round_down(x * (100 + invest_zone[2]))
                    /\ MaybePrice(u) /\ MaybePrice(v)
    <2>1. x * (100 + invest_zone[1]) \in Int /\ x * (100 + invest_zone[2]) \in Int
      BY CardNumbers
    <2> QED
      BY <2>1, DownIsMaybe
  <1>9. /\ OnGrid(lo) /\ lo \in Nat /\ f <= lo /\ MaybePrice(hi) /\ hi \in Int /\ hi <= g
    BY <1>3, <1>7, <1>8 DEF MaybePrice, Larger, Smaller
  <1>10. hi \in Nat /\ hi > 0 /\ OnGrid(hi) /\ lo <= hi
    BY <1>6, <1>7, <1>9 DEF MaybePrice
  <1>11. Reference(z) \in Nat /\ lo <= Reference(z) /\ Reference(z) <= hi
    BY <1>4, <1>9, <1>10, ReferenceIs
  <1>12. WholeLots(shares)
    <2>1. Smaller(weight, invest_max) \in Int
      BY CardNumbers DEF Smaller
    <2>2. Smaller(weight, invest_max) \div hi \in Int
      BY <1>10, <2>1, Divided
    <2>3. shares >= lot_size
      BY <1>5, <1>6, <2>2, LotsIs, CardNumbers
    <2> QED
      BY <1>5, <2>2, <2>3, WholeLotsIs
  <1>13. PICK ref, act : ref = Reference(z) /\ act = IF w THEN "WATCH" ELSE "BUY"
    OBVIOUS
  <1>14. /\ c.name = a /\ c.sleeve = key /\ c.action = act /\ c.shares = shares
         /\ c.levels = [order |-> "limit", trigger |-> 0, low |-> lo, high |-> hi, reference |-> ref]
    BY <1>6, <1>13
  <1>15. EntryOK(context[a], c.levels)
    BY <1>1, <1>2, <1>9, <1>10, <1>11, <1>13, <1>14 DEF EntryOK
  <1> QED
    BY <1>12, <1>13, <1>14, <1>15 DEF InvestCard

\* What is asked of a card.
Tradable(c) ==
    LET l == c.levels
        close == context[c.name].close
        Near(p) == OnStep(p) /\ 100 * (IF p > close THEN p - close ELSE close - p) <= band * close
    IN  /\ problems(c) = {}
        /\ Near(l.low) /\ Near(l.high) /\ l.low <= l.reference /\ l.reference <= l.high
        /\ c.shares > 0 /\ c.shares % lot_size = 0
        /\ c.sleeve = "swing" =>
             l.stop > 0 /\ 2 * (l.target2 - l.reference) >= 3 * (l.reference - l.stop)

LEMMA NearIs ==
    ASSUME NEW x \in Nat \ {0}, NEW p, OnGrid(p), band_floor(x) <= p, p <= band_ceiling(x)
    PROVE  OnStep(p) /\ 100 * (IF p > x THEN p - x ELSE x - p) <= band * x
  <1>1. PICK b \in 0..100 : b = band
    BY CardNumbers
  <1>2. PICK f, g : f = band_floor(x) /\ g = band_ceiling(x)
    OBVIOUS
  <1>3. /\ f \in Nat /\ x * (100 - b) <= 100 * f /\ g \in Int /\ 100 * g <= x * (100 + b)
    BY <1>1, <1>2, BandIs
  <1>4. p \in Nat /\ OnStep(p) /\ f <= p /\ p <= g
    BY <1>2 DEF OnGrid
  <1>5. PICK y \in Nat : y = b * x
    OBVIOUS
  <1>6. x * (100 - b) = 100 * x - y /\ x * (100 + b) = 100 * x + y
    BY <1>5
  <1>7. 100 * x - y <= 100 * p /\ 100 * p <= 100 * x + y
    BY <1>3, <1>4, <1>6
  <1> QED
    BY <1>1, <1>4, <1>5, <1>7

LEMMA ZoneIsTradable ==
    ASSUME NEW c, NEW x \in Nat \ {0}, x = context[c.name].close, EntryOK(context[c.name], c.levels)
    PROVE  LET l == c.levels
               Near(p) == OnStep(p) /\ 100 * (IF p > x THEN p - x ELSE x - p) <= band * x
           IN  /\ Near(l.low) /\ Near(l.high) /\ l.low <= l.reference /\ l.reference <= l.high
               /\ ~(l.low > l.high)
               /\ \A k \in {"low", "high"} \union (IF l.order = "stop" THEN {"trigger"} ELSE {}) :
                     /\ l[k] % tick(100 * l[k]) = 0
                     /\ ~(l[k] < band_floor(x) \/ l[k] > band_ceiling(x))
  <1>1. PICK l : l = c.levels
    OBVIOUS
  <1>2. EntryOK(context[c.name], l)
    BY <1>1
  <1>3. /\ OnGrid(l.low) /\ OnGrid(l.high) /\ l.low \in Nat /\ l.high \in Nat /\ l.reference \in Nat
        /\ l.low <= l.reference /\ l.reference <= l.high
        /\ band_floor(x) <= l.low /\ l.high <= band_ceiling(x)
        /\ l.order = "stop" => /\ OnGrid(l.trigger) /\ l.trigger \in Nat
                               /\ band_floor(x) <= l.trigger /\ l.trigger <= band_ceiling(x)
    BY <1>2 DEF EntryOK, OnGrid
  <1>4. band_floor(x) \in Nat /\ band_ceiling(x) \in Int
    BY BandIs
  <1>5. l.low <= band_ceiling(x) /\ band_floor(x) <= l.high
    BY <1>3, <1>4
  <1>6. /\ OnStep(l.low) /\ 100 * (IF l.low > x THEN l.low - x ELSE x - l.low) <= band * x
        /\ OnStep(l.high) /\ 100 * (IF l.high > x THEN l.high - x ELSE x - l.high) <= band * x
    BY <1>3, <1>5, NearIs
  <1>7. ASSUME NEW k \in {"low", "high"} \union (IF l.order = "stop" THEN {"trigger"} ELSE {})
        PROVE  /\ l[k] % tick(100 * l[k]) = 0
               /\ ~(l[k] < band_floor(x) \/ l[k] > band_ceiling(x))
    <2>1. OnGrid(l[k]) /\ l[k] \in Nat /\ band_floor(x) <= l[k] /\ l[k] <= band_ceiling(x)
      BY <1>3, <1>5
    <2> QED
      BY <1>4, <2>1, GridStep
  <1> QED
    BY <1>1, <1>3, <1>6, <1>7

LEMMA InvestIsTradable ==
    ASSUME EveningOK(context), NEW c, InvestCard(context, c)
    PROVE  Tradable(c)
  <1>1. PICK x \in Nat \ {0} : x = context[c.name].close
    BY DEF EveningOK, InvestCard, GoodContext
  <1>2. PICK l : l = c.levels
    OBVIOUS
  <1>3. EntryOK(context[c.name], c.levels) /\ c.sleeve # "swing" /\ l.order # "stop"
        /\ {"stop", "target1", "target2"} \intersect DOMAIN l = {}
    BY <1>2, PresetsAre DEF InvestCard
  <1>4. /\ OnStep(l.low) /\ 100 * (IF l.low > x THEN l.low - x ELSE x - l.low) <= band * x
        /\ OnStep(l.high) /\ 100 * (IF l.high > x THEN l.high - x ELSE x - l.high) <= band * x
        /\ l.low <= l.reference /\ l.reference <= l.high /\ ~(l.low > l.high)
        /\ \A k \in {"low", "high"} \union (IF l.order = "stop" THEN {"trigger"} ELSE {}) :
              /\ l[k] % tick(100 * l[k]) = 0
              /\ ~(l[k] < band_floor(x) \/ l[k] > band_ceiling(x))
    BY <1>1, <1>2, <1>3, ZoneIsTradable
  <1>5. problems(c) = {}
    BY <1>1, <1>2, <1>3, <1>4, Zenon DEF problems
  <1>6. c.shares > 0 /\ c.shares % lot_size = 0
    BY DEF InvestCard, WholeLots
  <1> QED
    BY <1>1, <1>2, <1>3, <1>4, <1>5, <1>6, Zenon DEF Tradable

LEMMA SwingIsTradable ==
    ASSUME EveningOK(context), NEW c, SwingCard(context, c)
    PROVE  Tradable(c)
  <1>1. PICK x \in Nat \ {0} : x = context[c.name].close
    BY DEF EveningOK, SwingCard, GoodContext
  <1>2. PICK l : l = c.levels
    OBVIOUS
  <1>3. SwingOK(context[c.name], l) /\ EntryOK(context[c.name], c.levels) /\ c.sleeve = "swing"
    BY <1>2 DEF SwingCard, SwingOK
  <1>4. /\ OnStep(l.low) /\ 100 * (IF l.low > x THEN l.low - x ELSE x - l.low) <= band * x
        /\ OnStep(l.high) /\ 100 * (IF l.high > x THEN l.high - x ELSE x - l.high) <= band * x
        /\ l.low <= l.reference /\ l.reference <= l.high /\ ~(l.low > l.high)
        /\ \A k \in {"low", "high"} \union (IF l.order = "stop" THEN {"trigger"} ELSE {}) :
              /\ l[k] % tick(100 * l[k]) = 0
              /\ ~(l[k] < band_floor(x) \/ l[k] > band_ceiling(x))
    BY <1>1, <1>2, <1>3, ZoneIsTradable
  <1>5. /\ \A k \in {"stop", "target1", "target2"} : l[k] % tick(100 * l[k]) = 0
        /\ l.stop > 0 /\ l.stop < l.reference
        /\ l.reference \in Nat /\ l.stop \in Nat /\ l.target1 \in Nat /\ l.target2 \in Nat
    BY <1>3, GridStep DEF SwingOK, EntryOK, OnGrid
  <1>6. 2 * (l.target2 - l.reference) >= 3 * (l.reference - l.stop)
    BY <1>2 DEF SwingCard
  <1>7. l.stop < l.reference /\ l.reference < l.target1 /\ l.target1 <= l.target2
    <2>1. l.reference < l.target2
      BY <1>5, <1>6
    <2> QED
      BY <1>3, <1>5, <2>1 DEF SwingOK
  <1>8. problems(c) = {}
    BY <1>1, <1>2, <1>3, <1>4, <1>5, <1>7, Zenon DEF problems
  <1>9. c.shares > 0 /\ c.shares % lot_size = 0
    BY DEF SwingCard, WholeLots
  <1> QED
    BY <1>1, <1>2, <1>3, <1>4, <1>5, <1>6, <1>8, <1>9, Zenon DEF Tradable

-----------------------------------------------------------------------------
(* An evening's SWING cards fitted to the limits.                          *)

BuyCard(m, c) == SwingCard(m, c) /\ c.action = "BUY"

LEMMA Money ==
    ASSUME NEW m, NEW c, SwingCard(m, c)
    PROVE  /\ Value(c) \in Nat /\ RiskIfStop(c) \in Nat
           /\ c.shares \in Nat \ {0} /\ c.levels.high \in Nat \ {0} /\ c.sleeve = "swing" /\ c.name \in Names
  <1>1. /\ c.shares \in Nat \ {0} /\ c.levels.high \in Nat \ {0} /\ c.levels.reference \in Nat
        /\ c.levels.stop \in Nat /\ c.levels.stop < c.levels.reference
    BY DEF SwingCard, SwingOK, EntryOK, OnGrid, WholeLots
  <1>2. PICK s, h, d : s = c.shares /\ h = c.levels.high /\ d = c.levels.reference - c.levels.stop
    OBVIOUS
  <1>3. s \in Nat /\ h \in Nat /\ d \in Nat
    BY <1>1, <1>2
  <1>4. s * h \in Nat /\ s * d \in Nat
    BY <1>3
  <1> QED
    BY <1>1, <1>2, <1>4 DEF Value, RiskIfStop, SwingCard

LEMMA FittedIs ==
    ASSUME NEW m, NEW c, BuyCard(m, c), NEW room \in Int, NEW d \in Fitted(c, room)
    PROVE  BuyCard(m, d) /\ d.name = c.name /\ Value(d) <= room /\ Value(d) <= Value(c)
  <1>1. /\ Value(c) \in Nat /\ c.shares \in Nat \ {0} /\ c.levels.high \in Nat \ {0}
    BY Money DEF BuyCard
  <1>2. CASE room >= Value(c)
    <2>1. d = c
      BY <1>2 DEF Fitted
    <2> QED
      BY <1>1, <1>2, <2>1
  <1>3. CASE ~(room >= Value(c))
    <2>1. PICK q, h : h = c.levels.high /\ q = lots(room \div h)
      OBVIOUS
    <2>2. q >= lot_size /\ d = [c EXCEPT !.shares = q]
      BY <1>3, <2>1 DEF Fitted
    <2>3. PICK k : k = room \div h
      OBVIOUS
    <2>4. k \in Int /\ h * k <= room /\ h \in Nat \ {0}
      BY <1>1, <2>1, <2>3, Divided
    <2>5. WholeLots(q) /\ q <= k /\ q \in Nat
      BY <2>1, <2>2, <2>3, <2>4, LotsIs, WholeLotsIs DEF WholeLots
    <2>6. c = [name |-> c.name, sleeve |-> "swing", action |-> c.action,
               levels |-> c.levels, shares |-> c.shares, full |-> c.full]
      BY DEF BuyCard, SwingCard
    <2>7. d = [name |-> c.name, sleeve |-> "swing", action |-> c.action,
               levels |-> c.levels, shares |-> q, full |-> c.full]
      BY <2>2, <2>6
    <2>8. /\ d.name = c.name /\ d.action = c.action /\ d.levels = c.levels /\ d.shares = q
          /\ d.full = c.full /\ d.sleeve = "swing"
      BY <2>7
    <2>9. BuyCard(m, d)
      <3>1. d = [name |-> d.name, sleeve |-> "swing", action |-> d.action,
                 levels |-> d.levels, shares |-> d.shares, full |-> d.full]
        BY <2>7, <2>8
      <3> QED
        BY <2>5, <2>8, <3>1 DEF BuyCard, SwingCard
    <2>10. Value(d) = q * h
      BY <2>1, <2>8 DEF Value
    <2>11. q * h <= room
      <3>1. h * q <= h * k
        BY <2>4, <2>5, Cancel
      <3> QED
        BY <2>4, <2>5, <3>1
    <2> QED
      BY <1>1, <1>3, <2>4, <2>5, <2>8, <2>9, <2>10, <2>11
  <1> QED
    BY <1>2, <1>3

Values(cards) == [c \in cards |-> Value(c)]
Risks(cards) == [c \in cards |-> RiskIfStop(c)]

\* Cards that keep the limits together, and each with what is held of its name.
Fit(m, holdings, cards) ==
    /\ IsFiniteSet(cards)
    /\ \A c \in cards : BuyCard(m, c) /\ Value(c) + Held(holdings, c.name) <= max_weight_name
    /\ SumOver(Values(cards), cards) <= budgets["swing"]
    /\ SumOver(Risks(cards), cards) <= max_open_risk

\* What the aggregator has used of a limit is no less than its cards need.
AccOK(m, holdings, acc) ==
    /\ acc = [used |-> acc.used, by_name |-> acc.by_name, risk |-> acc.risk, cards |-> acc.cards]
    /\ acc.used \in [{"swing"} -> Int] /\ acc.used["swing"] <= budgets["swing"]
    /\ acc.by_name \in [Names -> Int] /\ \A a \in Names : Held(holdings, a) <= acc.by_name[a]
    /\ acc.risk \in Int /\ acc.risk <= max_open_risk
    /\ IsFiniteSet(acc.cards)
    /\ \A c \in acc.cards : BuyCard(m, c) /\ Value(c) + Held(holdings, c.name) <= max_weight_name
    /\ SumOver(Values(acc.cards), acc.cards) <= acc.used["swing"]
    /\ SumOver(Risks(acc.cards), acc.cards) <= acc.risk

HoldingsOK(holdings) == \A a \in Names : Held(holdings, a) \in Int

LEMMA LimitsAreNumbers ==
    budgets["swing"] \in Nat /\ max_weight_name \in Nat /\ max_open_risk \in Nat
  BY CardConstants

LEMMA OneMoreCard ==
    ASSUME NEW m, NEW cards, IsFiniteSet(cards), \A c \in cards : BuyCard(m, c), NEW d, BuyCard(m, d),
           NEW new, new = cards \union {d}
    PROVE  /\ SumOver(Values(new), new) <= SumOver(Values(cards), cards) + Value(d)
           /\ SumOver(Risks(new), new) <= SumOver(Risks(cards), cards) + RiskIfStop(d)
  <1>1. \A c \in new : Value(c) \in Nat /\ RiskIfStop(c) \in Nat
    BY Money DEF BuyCard
  <1>2. PICK v, r : v = Values(new) /\ r = Risks(new)
    OBVIOUS
  <1>3. /\ \A c \in new : v[c] = Value(c) /\ r[c] = RiskIfStop(c)
        /\ \A c \in cards : v[c] = Values(cards)[c] /\ r[c] = Risks(cards)[c]
    BY <1>2 DEF Values, Risks
  <1>4. Amounts(v, new) /\ Amounts(r, new) /\ Amounts(v, cards) /\ Amounts(r, cards) /\ v[d] >= 0 /\ r[d] >= 0
    BY <1>1, <1>3 DEF Amounts
  <1>5. SumOver(v, new) <= SumOver(v, cards) + v[d] /\ SumOver(r, new) <= SumOver(r, cards) + r[d]
    BY <1>4, SumOfOneMore
  <1>6. SumOver(v, cards) = SumOver(Values(cards), cards) /\ SumOver(r, cards) = SumOver(Risks(cards), cards)
    BY <1>3, <1>4, SumsAlike
  <1> QED
    BY <1>2, <1>3, <1>5, <1>6

LEMMA CardSums ==
    ASSUME NEW m, NEW cards, IsFiniteSet(cards), \A c \in cards : BuyCard(m, c)
    PROVE  SumOver(Values(cards), cards) \in Int /\ SumOver(Risks(cards), cards) \in Int
  <1>1. Amounts(Values(cards), cards) /\ Amounts(Risks(cards), cards)
    BY Money DEF Amounts, Values, Risks, BuyCard
  <1> QED
    BY <1>1, SumType

LEMMA AcceptedIsOK ==
    ASSUME NEW m, NEW holdings, HoldingsOK(holdings), NEW acc, AccOK(m, holdings, acc),
           NEW d, BuyCard(m, d), Value(d) <= budgets["swing"] - acc.used["swing"],
           Value(d) <= max_weight_name - acc.by_name[d.name], acc.risk + RiskIfStop(d) <= max_open_risk
    PROVE  AccOK(m, holdings, Accepted(acc, d))
  <1>1. PICK a, v, r : a = d.name /\ v = Value(d) /\ r = RiskIfStop(d)
    OBVIOUS
  <1>2. a \in Names /\ v \in Nat /\ r \in Nat /\ d.sleeve = "swing"
    BY <1>1, Money DEF BuyCard
  <1>3. PICK u, b, k, cs : acc = [used |-> u, by_name |-> b, risk |-> k, cards |-> cs]
    BY DEF AccOK
  <1>4. u = acc.used /\ b = acc.by_name /\ k = acc.risk /\ cs = acc.cards
    BY <1>3
  <1>5. PICK new : new = Accepted(acc, d)
    OBVIOUS
  <1>6. new = [acc EXCEPT !.used["swing"] = @ + v, !.by_name[a] = @ + v, !.risk = @ + r, !.cards = @ \union {d}]
    BY <1>1, <1>2, <1>5 DEF Accepted
  <1>7. new = [used |-> [u EXCEPT !["swing"] = @ + v], by_name |-> [b EXCEPT ![a] = @ + v],
               risk |-> k + r, cards |-> cs \union {d}]
    BY <1>3, <1>6
  <1>8. PICK u2, b2, c2 : /\ u2 = [u EXCEPT !["swing"] = @ + v] /\ b2 = [b EXCEPT ![a] = @ + v]
                          /\ c2 = cs \union {d}
    OBVIOUS
  <1>9. new = [used |-> u2, by_name |-> b2, risk |-> k + r, cards |-> c2]
    BY <1>7, <1>8
  <1>10. new.used = u2 /\ new.by_name = b2 /\ new.risk = k + r /\ new.cards = c2
    BY <1>9
  <1>11. new = [used |-> new.used, by_name |-> new.by_name, risk |-> new.risk, cards |-> new.cards]
    BY <1>9, <1>10
  <1>12. /\ u \in [{"swing"} -> Int] /\ u["swing"] <= budgets["swing"]
         /\ b \in [Names -> Int] /\ \A x \in Names : Held(holdings, x) <= b[x] /\ Held(holdings, x) \in Int
         /\ k \in Int /\ k <= max_open_risk /\ IsFiniteSet(cs)
         /\ \A c \in cs : BuyCard(m, c) /\ Value(c) + Held(holdings, c.name) <= max_weight_name
         /\ SumOver(Values(cs), cs) <= u["swing"] /\ SumOver(Risks(cs), cs) <= k
    BY <1>4 DEF AccOK, HoldingsOK
  <1>13. u2 \in [{"swing"} -> Int] /\ u2["swing"] = u["swing"] + v /\ u2["swing"] <= budgets["swing"]
    BY <1>1, <1>2, <1>4, <1>8, <1>12, LimitsAreNumbers
  <1>14. b2 \in [Names -> Int] /\ \A x \in Names : Held(holdings, x) <= b2[x]
    BY <1>2, <1>8, <1>12
  <1>15. IsFiniteSet(c2)
    BY <1>8, <1>12, FS_AddElement
  <1>16. \A c \in c2 : BuyCard(m, c) /\ Value(c) + Held(holdings, c.name) <= max_weight_name
    <2>1. Value(d) + Held(holdings, d.name) <= max_weight_name
      <3>1. v <= max_weight_name - b[a] /\ Held(holdings, a) <= b[a] /\ Held(holdings, a) \in Int /\ b[a] \in Int
        BY <1>1, <1>2, <1>4, <1>12
      <3>2. v + Held(holdings, a) <= max_weight_name
        BY <1>2, <3>1, LimitsAreNumbers
      <3> QED
        BY <1>1, <3>2
    <2> QED
      BY <1>8, <1>12, <2>1
  <1>17. SumOver(Values(cs), cs) \in Int /\ SumOver(Risks(cs), cs) \in Int
    BY <1>12, CardSums
  <1>18. SumOver(Values(c2), c2) \in Int /\ SumOver(Risks(c2), c2) \in Int
    BY <1>15, <1>16, CardSums
  <1>19. SumOver(Values(c2), c2) <= u2["swing"] /\ SumOver(Risks(c2), c2) <= k + r
    <2>1. /\ SumOver(Values(c2), c2) <= SumOver(Values(cs), cs) + v
          /\ SumOver(Risks(c2), c2) <= SumOver(Risks(cs), cs) + r
      BY <1>1, <1>8, <1>12, OneMoreCard
    <2>2. u["swing"] \in Int
      BY <1>12
    <2> QED
      BY <1>2, <1>12, <1>13, <1>17, <1>18, <2>1, <2>2
  <1>20. k + r \in Int /\ k + r <= max_open_risk
    BY <1>1, <1>2, <1>4, <1>12
  <1> QED
    BY <1>5, <1>10, <1>11, <1>13, <1>14, <1>15, <1>16, <1>19, <1>20 DEF AccOK

LEMMA OfferedIsOK ==
    ASSUME NEW m, NEW holdings, HoldingsOK(holdings), NEW acc, AccOK(m, holdings, acc),
           NEW built, \A c \in built : BuyCard(m, c)
    PROVE  AccOK(m, holdings, Offered(acc, built))
  <1>1. PICK sleeve : sleeve = UNION {Fitted(c, budgets[c.sleeve] - acc.used[c.sleeve]) : c \in built}
    OBVIOUS
  <1>2. PICK named : named = UNION {Fitted(c, max_weight_name - acc.by_name[c.name]) : c \in sleeve}
    OBVIOUS
  <1>3. PICK safe : safe = {c \in named : acc.risk + RiskIfStop(c) <= max_open_risk}
    OBVIOUS
  <1>4. Offered(acc, built) = IF safe = {} THEN acc ELSE Accepted(acc, CHOOSE c \in safe : TRUE)
    <2> DEFINE s1 == UNION {Fitted(c, budgets[c.sleeve] - acc.used[c.sleeve]) : c \in built}
               s2 == UNION {Fitted(c, max_weight_name - acc.by_name[c.name]) : c \in s1}
               s3 == {c \in s2 : acc.risk + RiskIfStop(c) <= max_open_risk}
    <2>1. Offered(acc, built) = IF s3 = {} THEN acc ELSE Accepted(acc, CHOOSE c \in s3 : TRUE)
      BY DEF Offered
    <2>2. sleeve = s1
      BY <1>1
    <2>3. named = s2
      BY <1>2, <2>2
    <2>4. safe = s3
      BY <1>3, <2>3
    <2> HIDE DEF s3
    <2> QED
      BY <2>1, <2>4
  <1>5. CASE safe = {}
    BY <1>4, <1>5
  <1>6. CASE safe # {}
    <2>1. PICK d : d = CHOOSE c \in safe : TRUE
      OBVIOUS
    <2>2. d \in safe
      BY <1>6, <2>1
    <2>3. PICK e \in sleeve : d \in Fitted(e, max_weight_name - acc.by_name[e.name])
      BY <1>2, <1>3, <2>2
    <2>4. PICK c \in built : e \in Fitted(c, budgets[c.sleeve] - acc.used[c.sleeve])
      BY <1>1
    <2>5. BuyCard(m, c) /\ c.sleeve = "swing"
      BY DEF BuyCard, SwingCard
    <2>6. /\ acc.used["swing"] \in Int /\ budgets["swing"] \in Int /\ max_weight_name \in Int
          /\ \A a \in Names : acc.by_name[a] \in Int
      BY LimitsAreNumbers DEF AccOK
    <2>7. PICK room \in Int : room = budgets["swing"] - acc.used["swing"]
      BY <2>6
    <2>8. BuyCard(m, e) /\ Value(e) <= room
      BY <2>4, <2>5, <2>7, FittedIs
    <2>9. e.name \in Names
      BY <2>8 DEF BuyCard, SwingCard
    <2>10. PICK left \in Int : left = max_weight_name - acc.by_name[e.name]
      BY <2>6, <2>9
    <2>11. BuyCard(m, d) /\ d.name = e.name /\ Value(d) <= left /\ Value(d) <= Value(e)
      BY <2>3, <2>8, <2>10, FittedIs
    <2>12. Value(d) \in Nat /\ Value(e) \in Nat
      BY <2>8, <2>11, Money DEF BuyCard
    <2>13. acc.risk + RiskIfStop(d) <= max_open_risk
      BY <1>3, <2>2
    <2>14. Value(d) <= budgets["swing"] - acc.used["swing"] /\ Value(d) <= max_weight_name - acc.by_name[d.name]
      BY <2>7, <2>8, <2>10, <2>11, <2>12
    <2>15. AccOK(m, holdings, Accepted(acc, d))
      BY <2>11, <2>13, <2>14, AcceptedIsOK
    <2> QED
      BY <1>4, <1>6, <2>1, <2>15
  <1> QED
    BY <1>5, <1>6

NothingYet(holdings) ==
    [used |-> [s \in {"swing"} |-> 0], by_name |-> [a \in Names |-> Held(holdings, a)],
     risk |-> 0, cards |-> {}]

Aggregates(builds, holdings, n, f) ==
    f = [k \in 0..n |-> IF k = 0 THEN NothingYet(holdings) ELSE Offered(f[k - 1], builds[k])]

LEMMA NothingYetIsOK ==
    ASSUME NEW m, NEW holdings, HoldingsOK(holdings)
    PROVE  AccOK(m, holdings, NothingYet(holdings))
  <1>1. PICK b : b = [a \in Names |-> Held(holdings, a)]
    OBVIOUS
  <1>2. PICK acc : acc = NothingYet(holdings)
    OBVIOUS
  <1>3. acc = [used |-> [s \in {"swing"} |-> 0], by_name |-> b, risk |-> 0, cards |-> {}]
    BY <1>1, <1>2 DEF NothingYet
  <1>4. acc = [used |-> acc.used, by_name |-> acc.by_name, risk |-> acc.risk, cards |-> acc.cards]
    BY <1>3
  <1>5. /\ acc.used \in [{"swing"} -> Int] /\ acc.used["swing"] = 0 /\ acc.risk = 0 /\ acc.cards = {}
        /\ acc.by_name = b
    BY <1>3
  <1>6. b \in [Names -> Int] /\ \A a \in Names : Held(holdings, a) <= b[a]
    BY <1>1 DEF HoldingsOK
  <1>7. SumOver(Values({}), {}) = 0 /\ SumOver(Risks({}), {}) = 0 /\ IsFiniteSet({})
    BY SumOfNone, FS_EmptySet
  <1> QED
    BY <1>2, <1>4, <1>5, <1>6, <1>7, LimitsAreNumbers DEF AccOK

LEMMA AggregateExists ==
    ASSUME NEW builds, NEW holdings, NEW n \in Nat
    PROVE  \E f : Aggregates(builds, holdings, n, f)
  <1> DEFINE I == {k \in Nat : \E f : Aggregates(builds, holdings, k, f)}
  <1>1. 0 \in I
    <2>1. Aggregates(builds, holdings, 0, [k \in 0..0 |-> NothingYet(holdings)])
      BY DEF Aggregates
    <2> QED
      BY <2>1
  <1>2. ASSUME NEW m \in Nat, m \in I PROVE m + 1 \in I
    <2>1. PICK f : Aggregates(builds, holdings, m, f)
      BY <1>2
    <2> DEFINE g == [k \in 0..(m + 1) |-> IF k = m + 1 THEN Offered(f[m], builds[m + 1]) ELSE f[k]]
    <2>2. \A k \in 0..(m + 1) :
             g[k] = IF k = 0 THEN NothingYet(holdings) ELSE Offered(g[k - 1], builds[k])
      <3> SUFFICES ASSUME NEW k \in 0..(m + 1)
                   PROVE  g[k] = IF k = 0 THEN NothingYet(holdings) ELSE Offered(g[k - 1], builds[k])
        OBVIOUS
      <3>1. CASE k = m + 1
        <4>1. k # 0 /\ k - 1 = m /\ m \in 0..(m + 1) /\ m # m + 1
          BY <3>1
        <4>2. g[m] = f[m] /\ g[k] = Offered(f[m], builds[k])
          BY <3>1, <4>1
        <4> QED
          BY <4>1, <4>2
      <3>2. CASE k # m + 1
        <4>1. k \in 0..m /\ g[k] = f[k]
          BY <3>2
        <4>2. f[k] = IF k = 0 THEN NothingYet(holdings) ELSE Offered(f[k - 1], builds[k])
          BY <2>1, <4>1 DEF Aggregates
        <4>3. k # 0 => k - 1 \in 0..(m + 1) /\ k - 1 # m + 1 /\ g[k - 1] = f[k - 1]
          BY <4>1
        <4> HIDE DEF g
        <4> QED
          BY <4>1, <4>2, <4>3
      <3> QED
        BY <3>1, <3>2
    <2>3. g = [k \in 0..(m + 1) |-> g[k]]
      OBVIOUS
    <2>4. Aggregates(builds, holdings, m + 1, g)
      <3> HIDE DEF g
      <3> QED
        BY <2>2, <2>3 DEF Aggregates
    <2> HIDE DEF g
    <2> QED
      BY <2>4
  <1>3. n \in I
    <2> HIDE DEF I
    <2> QED
      BY <1>1, <1>2, CountUp
  <1> QED
    BY <1>3

LEMMA AggregateIs ==
    ASSUME NEW builds, Len(builds) \in Nat, NEW holdings
    PROVE  \E f : Aggregates(builds, holdings, Len(builds), f)
                  /\ aggregate(builds, holdings) = f[Len(builds)].cards
  <1>1. \E f : f = [n \in 0..Len(builds) |->
                     IF n = 0 THEN [used |-> [s \in {"swing"} |-> 0],
                                    by_name |-> [a \in Names |-> Held(holdings, a)],
                                    risk |-> 0, cards |-> {}]
                     ELSE Offered(f[n - 1], builds[n])]
    <2>1. PICK f : Aggregates(builds, holdings, Len(builds), f)
      BY AggregateExists
    <2> QED
      BY <2>1, Zenon DEF Aggregates, NothingYet
  <1>2. \E f : /\ f = [n \in 0..Len(builds) |->
                     IF n = 0 THEN [used |-> [s \in {"swing"} |-> 0],
                                    by_name |-> [a \in Names |-> Held(holdings, a)],
                                    risk |-> 0, cards |-> {}]
                     ELSE Offered(f[n - 1], builds[n])]
               /\ aggregate(builds, holdings) = f[Len(builds)].cards
    BY <1>1, Zenon DEF aggregate
  <1> QED
    BY <1>2, Zenon DEF Aggregates, NothingYet

LEMMA AggregateFits ==
    ASSUME NEW m, NEW builds, Len(builds) \in Nat, NEW holdings, HoldingsOK(holdings),
           \A n \in 1..Len(builds) : \A c \in builds[n] : BuyCard(m, c)
    PROVE  Fit(m, holdings, aggregate(builds, holdings))
  <1>1. PICK f : Aggregates(builds, holdings, Len(builds), f)
                 /\ aggregate(builds, holdings) = f[Len(builds)].cards
    BY AggregateIs
  <1> DEFINE I == {n \in Nat : n <= Len(builds) => AccOK(m, holdings, f[n])}
  <1>2. 0 \in I
    <2>1. f[0] = NothingYet(holdings)
      BY <1>1 DEF Aggregates
    <2> QED
      BY <2>1, NothingYetIsOK
  <1>3. ASSUME NEW n \in Nat, n \in I PROVE n + 1 \in I
    <2> SUFFICES ASSUME n + 1 <= Len(builds) PROVE AccOK(m, holdings, f[n + 1])
      OBVIOUS
    <2>1. n + 1 \in 1..Len(builds) /\ n + 1 \in 0..Len(builds) /\ n + 1 # 0 /\ (n + 1) - 1 = n
      OBVIOUS
    <2>2. f[n + 1] = Offered(f[n], builds[n + 1])
      BY <1>1, <2>1 DEF Aggregates
    <2>3. AccOK(m, holdings, f[n])
      BY <1>3
    <2> QED
      BY <2>1, <2>2, <2>3, OfferedIsOK
  <1>4. Len(builds) \in I
    <2> HIDE DEF I
    <2> QED
      BY <1>2, <1>3, CountUp
  <1>5. PICK acc : acc = f[Len(builds)] /\ AccOK(m, holdings, acc)
    BY <1>4
  <1>6. SumOver(Values(acc.cards), acc.cards) \in Int /\ SumOver(Risks(acc.cards), acc.cards) \in Int
    BY <1>5, CardSums DEF AccOK
  <1>7. /\ IsFiniteSet(acc.cards) /\ acc.used["swing"] \in Int /\ acc.used["swing"] <= budgets["swing"]
        /\ acc.risk \in Int /\ acc.risk <= max_open_risk
        /\ \A c \in acc.cards : BuyCard(m, c) /\ Value(c) + Held(holdings, c.name) <= max_weight_name
        /\ SumOver(Values(acc.cards), acc.cards) <= acc.used["swing"]
        /\ SumOver(Risks(acc.cards), acc.cards) <= acc.risk
    BY <1>5 DEF AccOK
  <1>8. Fit(m, holdings, acc.cards)
    BY <1>6, <1>7, LimitsAreNumbers DEF Fit
  <1> QED
    BY <1>1, <1>5, <1>8

-----------------------------------------------------------------------------
(* The targets of a preset.                                                *)

Weights(f, total) ==
    /\ IsFiniteSet(DOMAIN f) /\ DOMAIN f \subseteq Names
    /\ \A a \in DOMAIN f : f[a] \in Nat
    /\ SumOver(f, DOMAIN f) <= total

BookOK(b, total, now) ==
    /\ b.start \in Nat /\ b.start <= now
    /\ Weights(b.prev, total) /\ Weights(b.target, total) /\ Weights(b.cur, total)

LEMMA PresetNumbers ==
    ASSUME NEW key \in Presets
    PROVE  /\ budgets[key] \in Nat /\ presets[key].tranches \in Nat \ {0}
           /\ presets[key].spacing \in Nat \ {0} /\ top_k \in Nat \ {0}
  BY CardConstants

LEMMA AmountIs ==
    ASSUME NEW f, NEW total, Weights(f, total), NEW a
    PROVE  AmountOf(f, a) \in Nat
  BY DEF Weights, AmountOf

LEMMA RankIs ==
    ASSUME NEW rank \in Rankings
    PROVE  Len(rank) \in Nat /\ DOMAIN rank = 1..Len(rank) /\ \A i \in 1..Len(rank) : rank[i] \in Names
  <1>1. rank \in Seq(Names)
    BY CardConstants
  <1> QED
    BY <1>1, ElementOfSeq

LEMMA LeadersAre ==
    ASSUME NEW rank \in Rankings, NEW n \in Nat
    PROVE  /\ Leaders(rank, n) \subseteq Names /\ IsFiniteSet(Leaders(rank, n))
           /\ Cardinality(Leaders(rank, n)) \in Nat /\ Cardinality(Leaders(rank, n)) <= n
  <1>1. PICK k \in Nat : k = Smaller(n, Len(rank)) /\ k <= n /\ k <= Len(rank)
    BY RankIs DEF Smaller
  <1>2. PICK T : T = {rank[i] : i \in 1..k}
    OBVIOUS
  <1>3. Leaders(rank, n) = T
    BY <1>1, <1>2 DEF Leaders
  <1>4. PICK f : f = [i \in 1..k |-> rank[i]]
    OBVIOUS
  <1>5. f \in Surjection(1..k, T)
    BY <1>2, <1>4 DEF Surjection
  <1>6. IsFiniteSet(1..k) /\ Cardinality(1..k) = k
    <2>1. 1 \in Int /\ k \in Int /\ (1 > k => k = 0)
      OBVIOUS
    <2> QED
      BY <2>1, FS_Interval
  <1>7. IsFiniteSet(T) /\ Cardinality(T) <= k
    BY <1>5, <1>6, FS_Surjection
  <1>8. T \subseteq Names
    BY <1>1, <1>2, RankIs
  <1>9. Cardinality(T) \in Nat
    BY <1>7, FS_CardinalityType
  <1> QED
    BY <1>1, <1>3, <1>7, <1>8, <1>9

\* The targets of a rebalance: equal parts for the names that lead.
LEMMA TargetIs ==
    ASSUME NEW key \in Presets, NEW rank \in Rankings
    PROVE  Weights([a \in Leaders(rank, top_k) |-> budgets[key] \div top_k], budgets[key])
  <1>1. PICK B \in Nat : B = budgets[key]
    BY PresetNumbers
  <1>2. PICK k \in Nat \ {0} : k = top_k
    BY PresetNumbers
  <1>3. PICK q \in Nat : q = B \div k /\ k * q <= B
    <2>1. B \in Int
      OBVIOUS
    <2>2. B \div k \in Int /\ k * (B \div k) <= B /\ B < k * (B \div k) + k
      BY <2>1, Divided
    <2>3. PICK j \in Int : j = B \div k
      BY <2>2
    <2>4. k * 0 < k * (j + 1)
      BY <2>2, <2>3
    <2>5. 0 < j + 1
      BY <2>4, Cancel
    <2> QED
      BY <2>2, <2>3, <2>5
  <1>4. PICK L : L = Leaders(rank, k)
    OBVIOUS
  <1>5. L \subseteq Names /\ IsFiniteSet(L) /\ Cardinality(L) \in Nat /\ Cardinality(L) <= k
    BY <1>2, <1>4, LeadersAre
  <1>6. PICK f : f = [a \in L |-> q]
    OBVIOUS
  <1>7. DOMAIN f = L /\ (\A a \in L : f[a] \in Nat /\ f[a] <= q) /\ Amounts(f, L)
    BY <1>6 DEF Amounts
  <1>8. SumOver(f, L) <= q * Cardinality(L)
    BY <1>5, <1>7, SumBound
  <1>9. q * Cardinality(L) <= k * q
    <2>1. PICK n \in Nat : n = Cardinality(L) /\ n <= k
      BY <1>5
    <2>2. q * n <= q * k
      <3>1. CASE q = 0
        BY <3>1
      <3>2. CASE q # 0
        BY <2>1, <3>2, Cancel
      <3> QED
        BY <3>1, <3>2
    <2> QED
      BY <2>1, <2>2
  <1>10. SumOver(f, L) <= B
    <2>1. SumOver(f, L) \in Int
      BY <1>5, <1>7, SumType
    <2>2. q * Cardinality(L) \in Int
      BY <1>5
    <2> QED
      BY <1>3, <1>8, <1>9, <2>1, <2>2
  <1>11. Weights(f, B)
    BY <1>5, <1>7, <1>10 DEF Weights
  <1> QED
    BY <1>1, <1>2, <1>3, <1>4, <1>6, <1>11

\* A weight on its way from one target to the next.
LEMMA OnTheWay ==
    ASSUME NEW of \in Nat \ {0}, NEW n \in 1..of, NEW P \in Nat, NEW T \in Nat,
           NEW w, w = P + (((T - P) * n) \div of)
    PROVE  w \in Nat /\ of * w <= (of - n) * P + n * T
  <1>1. PICK x \in Int : x = (T - P) * n
    OBVIOUS
  <1>2. PICK q : q = x \div of
    OBVIOUS
  <1>3. q \in Int /\ of * q <= x /\ x < of * q + of
    BY <1>2, Divided
  <1>4. w = P + q
    BY <1>1, <1>2
  <1>5. x = T * n - P * n
    BY <1>1
  <1>6. of * w = of * P + of * q
    BY <1>3, <1>4
  <1>7. (of - n) * P + n * T = of * P + x
    BY <1>5
  <1>8. of * w <= (of - n) * P + n * T
    <2>1. of * P \in Int /\ of * q \in Int
      BY <1>3
    <2> QED
      BY <1>3, <1>6, <1>7, <2>1
  <1>9. P * n <= of * P
    <2>1. CASE P = 0
      BY <2>1
    <2>2. CASE P # 0
      <3>1. P * n <= P * of
        BY <2>2, Cancel
      <3> QED
        BY <3>1
    <2> QED
      BY <2>1, <2>2
  <1>10. 0 <= T * n
    OBVIOUS
  <1>11. of * (0 - P) < of * (q + 1)
    <2>1. of * (0 - P) = 0 - of * P /\ of * (q + 1) = of * q + of
      BY <1>3
    <2>2. of * P \in Int /\ of * q \in Int /\ P * n \in Int /\ T * n \in Int
      BY <1>3
    <2> QED
      BY <1>3, <1>5, <1>9, <1>10, <2>1, <2>2
  <1>12. 0 - P < q + 1
    BY <1>3, <1>11, Cancel
  <1> QED
    BY <1>3, <1>4, <1>8, <1>12

\* However many tranches are bought, the weights in force keep the budget.
LEMMA PartWayIs ==
    ASSUME NEW total \in Nat, NEW prev, Weights(prev, total), NEW target, Weights(target, total),
           NEW of \in Nat \ {0}, NEW n \in 1..of
    PROVE  Weights(PartWay(prev, target, n, of), total)
  <1>1. PICK D : D = DOMAIN prev \union DOMAIN target
    OBVIOUS
  <1>2. IsFiniteSet(D) /\ D \subseteq Names /\ DOMAIN prev \in SUBSET D /\ DOMAIN target \in SUBSET D
    BY <1>1, FS_Union DEF Weights
  <1>3. PICK p, t : p = [a \in D |-> AmountOf(prev, a)] /\ t = [a \in D |-> AmountOf(target, a)]
    OBVIOUS
  <1>4. PICK c : c = PartWay(prev, target, n, of)
    OBVIOUS
  <1>5. DOMAIN c = D /\ \A a \in D : c[a] = p[a] + (((t[a] - p[a]) * n) \div of)
    BY <1>1, <1>3, <1>4 DEF PartWay
  <1>6. \A a \in D : p[a] \in Nat /\ t[a] \in Nat
    BY <1>3, AmountIs
  <1>7. \A a \in D : c[a] \in Nat /\ of * c[a] <= (of - n) * p[a] + n * t[a]
    <2> SUFFICES ASSUME NEW a \in D PROVE c[a] \in Nat /\ of * c[a] <= (of - n) * p[a] + n * t[a]
      OBVIOUS
    <2>1. PICK P \in Nat : P = p[a]
      BY <1>6
    <2>2. PICK T \in Nat : T = t[a]
      BY <1>6
    <2>3. PICK w : w = c[a]
      OBVIOUS
    <2>4. w = P + (((T - P) * n) \div of)
      BY <1>5, <2>1, <2>2, <2>3
    <2>5. w \in Nat /\ of * w <= (of - n) * P + n * T
      BY <2>4, OnTheWay
    <2> QED
      BY <2>1, <2>2, <2>3, <2>5
  <1>8. Amounts(c, D) /\ Amounts(p, D) /\ Amounts(t, D)
    BY <1>6, <1>7 DEF Amounts
  <1>9. PICK m \in Nat : m = of - n
    OBVIOUS
  <1>10. of * SumOver(c, D) <= m * SumOver(p, D) + n * SumOver(t, D)
    <2>1. n \in Nat /\ of \in Nat /\ \A a \in D : of * c[a] <= m * p[a] + n * t[a]
      BY <1>7, <1>9
    <2> QED
      BY <1>2, <1>8, <2>1, LinearSums
  <1>11. SumOver(p, D) = SumOver(prev, DOMAIN prev) /\ Amounts(prev, DOMAIN prev)
    <2>1. \A a \in D : (a \in DOMAIN prev => p[a] = prev[a]) /\ (a \notin DOMAIN prev => p[a] = 0)
      BY <1>3 DEF AmountOf
    <2>2. Amounts(prev, DOMAIN prev) /\ IsFiniteSet(DOMAIN prev) /\ Amounts(p, DOMAIN prev)
      BY <1>2, <1>8 DEF Weights, Amounts
    <2>3. SumOver(p, DOMAIN prev) = SumOver(prev, DOMAIN prev)
      BY <1>2, <2>1, <2>2, SumsAlike
    <2>4. \A a \in D \ DOMAIN prev : p[a] >= 0 /\ p[a] = 0
      BY <2>1
    <2>5. SumOver(p, DOMAIN prev) = SumOver(p, D)
      BY <1>2, <1>8, <2>4, SumOfMore
    <2> QED
      BY <2>2, <2>3, <2>5
  <1>12. SumOver(t, D) = SumOver(target, DOMAIN target) /\ Amounts(target, DOMAIN target)
    <2>1. \A a \in D : (a \in DOMAIN target => t[a] = target[a]) /\ (a \notin DOMAIN target => t[a] = 0)
      BY <1>3 DEF AmountOf
    <2>2. Amounts(target, DOMAIN target) /\ IsFiniteSet(DOMAIN target) /\ Amounts(t, DOMAIN target)
      BY <1>2, <1>8 DEF Weights, Amounts
    <2>3. SumOver(t, DOMAIN target) = SumOver(target, DOMAIN target)
      BY <1>2, <2>1, <2>2, SumsAlike
    <2>4. \A a \in D \ DOMAIN target : t[a] >= 0 /\ t[a] = 0
      BY <2>1
    <2>5. SumOver(t, DOMAIN target) = SumOver(t, D)
      BY <1>2, <1>8, <2>4, SumOfMore
    <2> QED
      BY <2>2, <2>3, <2>5
  <1>13. PICK C, P, T : C = SumOver(c, D) /\ P = SumOver(p, D) /\ T = SumOver(t, D)
    OBVIOUS
  <1>14. C \in Int /\ P \in Int /\ T \in Int /\ P <= total /\ T <= total
    BY <1>2, <1>8, <1>11, <1>12, <1>13, SumType DEF Weights
  <1>15. C <= total
    <2>1. of * C <= m * P + n * T
      BY <1>10, <1>13
    <2>2. m * P <= m * total
      <3>1. CASE m = 0
        BY <1>14, <3>1
      <3>2. CASE m # 0
        BY <1>14, <3>2, Cancel
      <3> QED
        BY <3>1, <3>2
    <2>3. n * T <= n * total
      BY <1>14, Cancel
    <2>4. m * total + n * total = of * total
      BY <1>9
    <2>5. of * C <= of * total
      <3>1. of * C \in Int /\ m * P \in Int /\ n * T \in Int /\ m * total \in Int /\ n * total \in Int
        BY <1>14
      <3> QED
        BY <2>1, <2>2, <2>3, <2>4, <3>1
    <2>6. of * C < of * (total + 1)
      <3>1. of * (total + 1) = of * total + of /\ of * C \in Int /\ of * total \in Int
        BY <1>14
      <3> QED
        BY <2>5, <3>1
    <2>7. C < total + 1
      BY <1>14, <2>6, Cancel
    <2> QED
      BY <1>14, <2>7
  <1> QED
    BY <1>2, <1>4, <1>5, <1>7, <1>13, <1>15 DEF Weights

LEMMA BookAfterIs ==
    ASSUME NEW key \in Presets, NEW rank \in Rankings, session \in Nat,
           BookOK(book[key], budgets[key], session), Due(key)
    PROVE  BookOK(BookAfter(key, rank), budgets[key], session)
  <1>1. PICK B \in Nat : B = budgets[key]
    BY PresetNumbers
  <1>2. PICK of \in Nat \ {0} : of = presets[key].tranches
    BY PresetNumbers
  <1>3. PICK sp \in Nat \ {0} : sp = presets[key].spacing
    BY PresetNumbers
  <1>4. PICK b : b = book[key]
    OBVIOUS
  <1>5. PICK start, prev, target, n :
          /\ start = IF session \in presets[key].rebalances THEN session ELSE b.start
          /\ prev = IF session \in presets[key].rebalances THEN b.cur ELSE b.prev
          /\ target = IF session \in presets[key].rebalances
                      THEN [a \in Leaders(rank, top_k) |-> budgets[key] \div top_k] ELSE b.target
          /\ n = Tranche(key)
    OBVIOUS
  <1>6. BookAfter(key, rank) = [start |-> start, prev |-> prev, target |-> target,
                                cur |-> PartWay(prev, target, n, of)]
    BY <1>2, <1>4, <1>5, Zenon DEF BookAfter
  <1>7. BookOK(b, B, session)
    BY <1>1, <1>4
  <1>8. start \in Nat /\ start <= session
    BY <1>5, <1>7 DEF BookOK
  <1>9. Weights(prev, B) /\ Weights(target, B)
    <2>1. Weights([a \in Leaders(rank, top_k) |-> budgets[key] \div top_k], B)
      BY <1>1, TargetIs
    <2> QED
      BY <1>5, <1>7, <2>1, Zenon DEF BookOK
  <1>10. n \in 1..of
    <2>1. CASE session \in presets[key].rebalances
      BY <1>5, <2>1 DEF Tranche
    <2>2. CASE session \notin presets[key].rebalances
      <3>1. PICK gone \in Nat : gone = session - b.start
        BY <1>7 DEF BookOK
      <3>2. gone \div sp < of
        BY <1>2, <1>3, <1>4, <2>2, <3>1 DEF Due
      <3>3. n = gone \div sp + 1
        BY <1>3, <1>4, <1>5, <2>2, <3>1 DEF Tranche
      <3>4. PICK q : q = gone \div sp
        OBVIOUS
      <3>5. gone \in Int
        BY <3>1
      <3>6. q \in Int /\ gone < sp * q + sp
        BY <3>4, <3>5, Divided
      <3>7. 0 <= q
        <4>1. sp * 0 < sp * (q + 1)
          BY <3>6
        <4>2. 0 < q + 1
          BY <3>6, <4>1, Cancel
        <4> QED
          BY <3>6, <4>2
      <3> QED
        BY <3>2, <3>3, <3>4, <3>6, <3>7
    <2> QED
      BY <2>1, <2>2
  <1>11. Weights(PartWay(prev, target, n, of), B)
    BY <1>9, <1>10, PartWayIs
  <1>12. PICK cur : cur = PartWay(prev, target, n, of)
    OBVIOUS
  <1>13. BookAfter(key, rank) = [start |-> start, prev |-> prev, target |-> target, cur |-> cur]
    BY <1>6, <1>12
  <1> QED
    BY <1>1, <1>8, <1>9, <1>11, <1>12, <1>13 DEF BookOK

-----------------------------------------------------------------------------
(* The plan.                                                               *)

IssuedOK(m, cards, holdings) ==
    /\ \A c \in cards : SwingCard(m, c) \/ InvestCard(m, c)
    /\ Fit(m, holdings, {c \in cards : c.sleeve = "swing" /\ c.action = "BUY"})

OrdersStateCards ==
    \A o \in orders : "levels" \in DOMAIN o =>
        \E c \in evening.cards : c.name = o.name /\ c.levels = o.levels /\ c.action = "BUY"

CardsInv ==
    /\ session \in Nat /\ phase \in {"b1", "b2", "swing", "close", "done"}
    /\ style \in Styles /\ context \in Contexts
    /\ DOMAIN book = Presets
    /\ \A key \in Presets : BookOK(book[key], budgets[key], session)
    /\ IssuedOK(context, evening.cards, evening.holdings)
    /\ phase # "done" => OrdersStateCards

LEMMA ContextIsOK == ASSUME CardsInv PROVE EveningOK(context)
  <1>1. context \in Contexts /\ style \in Styles
    BY DEF CardsInv
  <1>2. \A a \in Names : /\ {context[a].close, context[a].atr} \subseteq Nat \ {0}
                         /\ {context[a].hi20, context[a].hi60} \subseteq Nat
                         /\ context[a].hi20 = 0 \/ context[a].close <= context[a].hi20
    BY <1>1, CardConstants
  <1> QED
    BY <1>1, <1>2 DEF EveningOK, GoodContext

LEMMA NothingFits == ASSUME NEW m, NEW holdings PROVE Fit(m, holdings, {})
  <1>1. SumOver(Values({}), {}) = 0 /\ SumOver(Risks({}), {}) = 0 /\ IsFiniteSet({})
    BY SumOfNone, FS_EmptySet
  <1> QED
    BY <1>1, LimitsAreNumbers DEF Fit

LEMMA InvestOnly ==
    ASSUME NEW m, NEW cards, \A c \in cards : InvestCard(m, c), NEW holdings
    PROVE  IssuedOK(m, cards, holdings)
  <1>1. \A c \in cards : c.sleeve # "swing"
    BY PresetsAre DEF InvestCard
  <1>2. {c \in cards : c.sleeve = "swing" /\ c.action = "BUY"} = {}
    BY <1>1
  <1> QED
    BY <1>2, NothingFits DEF IssuedOK

LEMMA WithInvest ==
    ASSUME NEW m, NEW cards, NEW holdings, IssuedOK(m, cards, holdings),
           NEW others, \A c \in others : InvestCard(m, c)
    PROVE  IssuedOK(m, cards \union others, holdings)
  <1>1. \A c \in others : c.sleeve # "swing"
    BY PresetsAre DEF InvestCard
  <1>2. {c \in cards \union others : c.sleeve = "swing" /\ c.action = "BUY"}
          = {c \in cards : c.sleeve = "swing" /\ c.action = "BUY"}
    BY <1>1
  <1> QED
    BY <1>2 DEF IssuedOK

LEMMA SwingEveningIs ==
    ASSUME EveningOK(context), NEW rank \in Rankings, NEW holdings, HoldingsOK(holdings)
    PROVE  LET e == SwingEvening(rank, holdings)
           IN  e.holdings = holdings /\ IssuedOK(context, e.cards, holdings)
  <1>1. PICK n \in Nat : n = Smaller(swing.max_positions, Len(rank)) /\ n <= Len(rank)
    <2>1. PICK l \in Nat : l = Len(rank)
      BY RankIs
    <2>2. PICK p \in Nat : p = swing.max_positions
      BY CardNumbers
    <2> QED
      BY <2>1, <2>2 DEF Smaller
  <1>2. PICK builds : builds = SwingBuys(rank)
    OBVIOUS
  <1>3. builds = [k \in 1..n |-> build_swing_card(rank[k], FALSE)]
    BY <1>1, <1>2 DEF SwingBuys
  <1>4. Len(builds) = n
    BY <1>3
  <1>5. \A k \in 1..Len(builds) : \A c \in builds[k] : BuyCard(context, c)
    <2> SUFFICES ASSUME NEW k \in 1..n, NEW c \in build_swing_card(rank[k], FALSE)
                 PROVE  BuyCard(context, c)
      BY <1>3, <1>4
    <2>1. rank[k] \in Names
      BY <1>1, RankIs
    <2> QED
      BY <2>1, SwingCardIs DEF BuyCard
  <1>6. PICK bought : bought = aggregate(builds, holdings)
    OBVIOUS
  <1>7. Fit(context, holdings, bought)
    BY <1>4, <1>5, <1>6, AggregateFits
  <1>8. PICK watched : watched = SwingWatched(rank)
    OBVIOUS
  <1>9. \A c \in watched : SwingCard(context, c) /\ c.action = "WATCH"
    <2>1. swing.max_positions + 4 \in Nat
      BY CardNumbers
    <2>2. Leaders(rank, swing.max_positions + 4) \subseteq Names
      BY <2>1, LeadersAre
    <2> SUFFICES ASSUME NEW a \in Names, NEW c \in build_swing_card(a, TRUE)
                 PROVE  SwingCard(context, c) /\ c.action = "WATCH"
      BY <1>8, <2>2 DEF SwingWatched
    <2> QED
      BY SwingCardIs
  <1>10. SwingEvening(rank, holdings) = [cards |-> bought \union watched, holdings |-> holdings]
    BY <1>2, <1>6, <1>8 DEF SwingEvening
  <1>11. \A c \in bought : SwingCard(context, c) /\ c.sleeve = "swing" /\ c.action = "BUY"
    BY <1>7 DEF Fit, BuyCard, SwingCard
  <1>12. {c \in bought \union watched : c.sleeve = "swing" /\ c.action = "BUY"} = bought
    BY <1>9, <1>11
  <1>13. IssuedOK(context, bought \union watched, holdings)
    BY <1>7, <1>9, <1>11, <1>12 DEF IssuedOK
  <1> QED
    BY <1>10, <1>13

LEMMA HeldIs ==
    ASSUME NEW holdings, DOMAIN holdings = Presets, NEW a,
           \A key \in Presets : AmountOf(holdings[key], a) \in Int
    PROVE  Held(holdings, a) \in Int
  <1>1. PICK f : f = [s \in DOMAIN holdings |-> AmountOf(holdings[s], a)]
    OBVIOUS
  <1>2. Amounts(f, Presets)
    BY <1>1 DEF Amounts
  <1>3. IsFiniteSet(Presets)
    <2>1. IsFiniteSet({"b1"}) /\ IsFiniteSet({"b2"})
      BY FS_Singleton
    <2>2. IsFiniteSet({"b1"} \union {"b2"})
      BY <2>1, FS_Union
    <2>3. Presets = {"b1"} \union {"b2"}
      BY PresetsAre
    <2> QED
      BY <2>2, <2>3
  <1>4. Held(holdings, a) = SumOver(f, Presets)
    BY <1>1 DEF Held
  <1> QED
    BY <1>2, <1>3, <1>4, SumType

LEMMA KeepsPlanInvest ==
    ASSUME CardsInv, NEW key \in Presets, PlanInvest(key)
    PROVE  CardsInv'
  <1>1. /\ phase = key /\ phase' = IF key = "b1" THEN "b2" ELSE "swing"
        /\ session' = session /\ style' = style /\ context' = context
    BY DEF PlanInvest
  <1>2. EveningOK(context)
    BY ContextIsOK
  <1>3. phase # "done" /\ phase' \in {"b1", "b2", "swing", "close", "done"}
    BY <1>1, PresetsAre
  <1>4. PICK rank \in Rankings :
        LET b == BookAfter(key, rank)
            Grows(a) == /\ a \in DOMAIN b.target
                        /\ b.cur[a] > AmountOf(b.prev, a)
                        /\ a \in Range(rank)
            cards == UNION {build_invest_card(a, key, b.cur[a], FALSE) :
                               a \in {x \in DOMAIN b.cur : b.cur[x] > 0 /\ Grows(x)}}
            watched == IF session \in presets[key].rebalances
                       THEN UNION {build_invest_card(a, key, budgets[key] \div top_k, TRUE) :
                               a \in Leaders(rank, top_k + watch_ranks) \ Leaders(rank, top_k)}
                       ELSE {}
        IN  IF Due(key)
            THEN /\ book' = [book EXCEPT ![key] = b]
                 /\ orders' = {to_signal_item(c, b.cur[c.name]) : c \in cards}
                              \union {[sleeve |-> key, name |-> a, weight |-> b.cur[a]] :
                                 a \in {x \in DOMAIN b.cur : ~(b.cur[x] > 0 /\ Grows(x))}}
                 /\ evening' = [cards |-> cards \union watched, holdings |-> <<>>]
            ELSE UNCHANGED <<book, orders, asked, evening>>
    BY DEF PlanInvest
  <1>5. CASE ~Due(key)
    <2>1. UNCHANGED <<book, orders, evening>>
      BY <1>4, <1>5
    <2> QED
      BY <1>1, <1>3, <2>1 DEF CardsInv, OrdersStateCards
  <1>6. CASE Due(key)
    <2> DEFINE b == BookAfter(key, rank)
               Grows(a) == /\ a \in DOMAIN b.target
                           /\ b.cur[a] > AmountOf(b.prev, a)
                           /\ a \in Range(rank)
               cards == UNION {build_invest_card(a, key, b.cur[a], FALSE) :
                                  a \in {x \in DOMAIN b.cur : b.cur[x] > 0 /\ Grows(x)}}
               watched == IF session \in presets[key].rebalances
                          THEN UNION {build_invest_card(a, key, budgets[key] \div top_k, TRUE) :
                                  a \in Leaders(rank, top_k + watch_ranks) \ Leaders(rank, top_k)}
                          ELSE {}
    <2>1. /\ book' = [book EXCEPT ![key] = b]
          /\ orders' = {to_signal_item(c, b.cur[c.name]) : c \in cards}
                       \union {[sleeve |-> key, name |-> a, weight |-> b.cur[a]] :
                          a \in {x \in DOMAIN b.cur : ~(b.cur[x] > 0 /\ Grows(x))}}
          /\ evening' = [cards |-> cards \union watched, holdings |-> <<>>]
      BY <1>4, <1>6
    <2>2. BookOK(b, budgets[key], session)
      <3>1. BookOK(book[key], budgets[key], session) /\ session \in Nat
        BY DEF CardsInv
      <3> QED
        BY <1>6, <3>1, BookAfterIs
    <2>3. \A a \in DOMAIN b.cur : a \in Names /\ b.cur[a] \in Nat
      BY <2>2 DEF BookOK, Weights
    <2>4. \A c \in cards : InvestCard(context, c) /\ c.action = "BUY"
      <3> SUFFICES ASSUME NEW a \in DOMAIN b.cur, NEW c \in build_invest_card(a, key, b.cur[a], FALSE)
                   PROVE  InvestCard(context, c) /\ c.action = "BUY"
        OBVIOUS
      <3>1. PICK w \in Nat : w = b.cur[a]
        BY <2>3
      <3>2. c \in build_invest_card(a, key, w, FALSE) /\ a \in Names
        BY <2>3, <3>1
      <3> QED
        BY <1>2, <3>2, InvestCardIs
    <2>5. \A c \in watched : InvestCard(context, c)
      <3>1. PICK w \in Nat : w = budgets[key] \div top_k
        BY PresetNumbers
      <3>2. Leaders(rank, top_k + watch_ranks) \subseteq Names
        <4>1. top_k + watch_ranks \in Nat
          BY CardNumbers
        <4> QED
          BY <4>1, LeadersAre
      <3>3. \A a \in Names : \A c \in build_invest_card(a, key, w, TRUE) : InvestCard(context, c)
        BY <1>2, InvestCardIs
      <3>4. \A c \in watched : \E a \in Names : c \in build_invest_card(a, key, w, TRUE)
        BY <3>1, <3>2
      <3> QED
        BY <3>3, <3>4
    <2> HIDE DEF cards, watched, b
    <2>6. IssuedOK(context, cards \union watched, <<>>)
      <3>1. \A c \in cards \union watched : InvestCard(context, c)
        BY <2>4, <2>5
      <3> QED
        BY <3>1, InvestOnly
    <2>7. evening'.cards = cards \union watched /\ evening'.holdings = <<>>
      BY <2>1
    <2>8. OrdersStateCards'
      <3> SUFFICES ASSUME NEW o \in orders', "levels" \in DOMAIN o
                   PROVE  \E c \in evening'.cards : c.name = o.name /\ c.levels = o.levels /\ c.action = "BUY"
        BY DEF OrdersStateCards
      <3>1. CASE \E c \in cards : o = to_signal_item(c, b.cur[c.name])
        <4>1. PICK c \in cards : o = to_signal_item(c, b.cur[c.name])
          BY <3>1
        <4>2. c.name = o.name /\ c.levels = o.levels
          BY <4>1 DEF to_signal_item
        <4> QED
          BY <2>4, <2>7, <4>2
      <3>2. CASE ~ \E c \in cards : o = to_signal_item(c, b.cur[c.name])
        <4>1. PICK a : o = [sleeve |-> key, name |-> a, weight |-> b.cur[a]]
          BY <2>1, <3>2
        <4>2. DOMAIN o = {"sleeve", "name", "weight"}
          BY <4>1
        <4> QED
          BY <4>2
      <3> QED
        BY <3>1, <3>2
    <2>9. DOMAIN book' = Presets /\ \A k \in Presets : BookOK(book'[k], budgets[k], session)
      BY <2>1, <2>2 DEF CardsInv
    <2> QED
      BY <1>1, <1>3, <2>6, <2>7, <2>8, <2>9 DEF CardsInv
  <1> QED
    BY <1>5, <1>6

LEMMA KeepsPlanSwing == ASSUME CardsInv, PlanSwing PROVE CardsInv'
  <1>1. PICK rank \in Rankings : evening' = SwingEvening(rank, [key \in Presets |-> book[key].cur])
    BY DEF PlanSwing
  <1>2. /\ orders' = {to_signal_item(c, Value(c)) : c \in {x \in evening'.cards : x.action = "BUY"}}
        /\ phase' = "close" /\ UNCHANGED <<session, style, context, book>>
    BY DEF PlanSwing
  <1>3. PICK holdings : holdings = [key \in Presets |-> book[key].cur]
    OBVIOUS
  <1>4. HoldingsOK(holdings)
    <2> SUFFICES ASSUME NEW a \in Names PROVE Held(holdings, a) \in Int
      BY DEF HoldingsOK
    <2>1. \A key \in Presets : Weights(holdings[key], budgets[key])
      BY <1>3 DEF CardsInv, BookOK
    <2>2. \A key \in Presets : AmountOf(holdings[key], a) \in Int
      BY <2>1, AmountIs
    <2> QED
      BY <1>3, <2>2, HeldIs
  <1>5. evening'.holdings = holdings /\ IssuedOK(context, evening'.cards, holdings)
    BY <1>1, <1>3, <1>4, ContextIsOK, SwingEveningIs
  <1>6. OrdersStateCards'
    <2> SUFFICES ASSUME NEW o \in orders', "levels" \in DOMAIN o
                 PROVE  \E c \in evening'.cards : c.name = o.name /\ c.levels = o.levels /\ c.action = "BUY"
      BY DEF OrdersStateCards
    <2>1. PICK c \in evening'.cards : c.action = "BUY" /\ o = to_signal_item(c, Value(c))
      BY <1>2
    <2>2. c.name = o.name /\ c.levels = o.levels
      BY <2>1 DEF to_signal_item
    <2> QED
      BY <2>1, <2>2
  <1> QED
    BY <1>2, <1>5, <1>6 DEF CardsInv

LEMMA KeepsGenerateLive == ASSUME CardsInv, GenerateLive PROVE CardsInv'
  <1>1. EveningOK(context)
    BY ContextIsOK
  <1>2. PICK rank \in Rankings, rank_invest \in [Presets -> Rankings] :
        LET final(key) == budgets[key] \div top_k
            CardsOf(key) ==
                (UNION {build_invest_card(a, key, final(key) \div presets[key].tranches, FALSE) :
                          a \in Leaders(rank_invest[key], top_k)})
                \union UNION {build_invest_card(a, key, final(key), TRUE) :
                          a \in Leaders(rank_invest[key], top_k + watch_ranks)
                                   \ Leaders(rank_invest[key], top_k)}
            held(key) == {c.name : c \in {x \in CardsOf(key) : x.action = "BUY"}}
            holdings == [key \in Presets |-> [a \in held(key) |-> final(key)]]
        IN  evening' = [SwingEvening(rank, holdings) EXCEPT
                            !.cards = @ \union UNION {CardsOf(key) : key \in Presets}]
    BY DEF GenerateLive
  <1> DEFINE final(key) == budgets[key] \div top_k
             CardsOf(key) ==
                (UNION {build_invest_card(a, key, final(key) \div presets[key].tranches, FALSE) :
                          a \in Leaders(rank_invest[key], top_k)})
                \union UNION {build_invest_card(a, key, final(key), TRUE) :
                          a \in Leaders(rank_invest[key], top_k + watch_ranks)
                                   \ Leaders(rank_invest[key], top_k)}
             held(key) == {c.name : c \in {x \in CardsOf(key) : x.action = "BUY"}}
             holdings == [key \in Presets |-> [a \in held(key) |-> final(key)]]
             invest == UNION {CardsOf(key) : key \in Presets}
  <1>3. evening' = [SwingEvening(rank, holdings) EXCEPT !.cards = @ \union invest]
    BY <1>2
  <1>4. \A key \in Presets : final(key) \in Nat /\ final(key) \div presets[key].tranches \in Nat
    BY PresetNumbers
  <1>5. \A key \in Presets : \A c \in CardsOf(key) : InvestCard(context, c)
    <2> SUFFICES ASSUME NEW key \in Presets, NEW c \in CardsOf(key) PROVE InvestCard(context, c)
      OBVIOUS
    <2>1. PICK w \in Nat : w = final(key)
      BY <1>4
    <2>2. PICK v \in Nat : v = final(key) \div presets[key].tranches
      BY <1>4
    <2>3. Leaders(rank_invest[key], top_k) \subseteq Names /\ Leaders(rank_invest[key], top_k + watch_ranks) \subseteq Names
      <3>1. top_k \in Nat /\ top_k + watch_ranks \in Nat /\ rank_invest[key] \in Rankings
        BY CardNumbers
      <3> QED
        BY <3>1, LeadersAre
    <2>4. \/ \E a \in Names : c \in build_invest_card(a, key, v, FALSE)
          \/ \E a \in Names : c \in build_invest_card(a, key, w, TRUE)
      <3>1. CASE \E a \in Leaders(rank_invest[key], top_k) :
                    c \in build_invest_card(a, key, final(key) \div presets[key].tranches, FALSE)
        BY <2>2, <2>3, <3>1
      <3>2. CASE \E a \in Leaders(rank_invest[key], top_k + watch_ranks) :
                    c \in build_invest_card(a, key, final(key), TRUE)
        BY <2>1, <2>3, <3>2
      <3>3. \/ \E a \in Leaders(rank_invest[key], top_k) :
                   c \in build_invest_card(a, key, final(key) \div presets[key].tranches, FALSE)
            \/ \E a \in Leaders(rank_invest[key], top_k + watch_ranks) :
                   c \in build_invest_card(a, key, final(key), TRUE)
        <4>1. CASE c \in UNION {build_invest_card(a, key, final(key) \div presets[key].tranches, FALSE) :
                                   a \in Leaders(rank_invest[key], top_k)}
          BY <4>1
        <4>2. CASE c \in UNION {build_invest_card(a, key, final(key), TRUE) :
                                   a \in Leaders(rank_invest[key], top_k + watch_ranks)
                                            \ Leaders(rank_invest[key], top_k)}
          BY <4>2
        <4> QED
          BY <4>1, <4>2, Zenon
      <3> QED
        BY <3>1, <3>2, <3>3
    <2> QED
      BY <1>1, <2>4, InvestCardIs
  <1>6. \A c \in invest : InvestCard(context, c)
    BY <1>5
  <1>7. HoldingsOK(holdings)
    <2> SUFFICES ASSUME NEW a \in Names PROVE Held(holdings, a) \in Int
      BY DEF HoldingsOK
    <2>1. \A key \in Presets : AmountOf(holdings[key], a) \in Int
      <3> SUFFICES ASSUME NEW key \in Presets PROVE AmountOf(holdings[key], a) \in Int
        OBVIOUS
      <3>1. PICK H, w : H = held(key) /\ w = final(key)
        OBVIOUS
      <3>2. holdings[key] = [x \in H |-> w]
        BY <3>1
      <3>3. w \in Int
        BY <1>4, <3>1
      <3> HIDE DEF holdings
      <3> QED
        BY <3>2, <3>3 DEF AmountOf
    <2>2. DOMAIN holdings = Presets
      OBVIOUS
    <2> HIDE DEF holdings
    <2> QED
      BY <2>1, <2>2, HeldIs
  <1> HIDE DEF holdings, invest
  <1>8. PICK e : e = SwingEvening(rank, holdings)
    OBVIOUS
  <1>9. e.holdings = holdings /\ IssuedOK(context, e.cards, holdings)
    BY <1>1, <1>7, <1>8, SwingEveningIs
  <1>10. e = [cards |-> e.cards, holdings |-> e.holdings]
    BY <1>8 DEF SwingEvening
  <1>11. evening' = [cards |-> e.cards \union invest, holdings |-> holdings]
    BY <1>3, <1>8, <1>9, <1>10
  <1>12. IssuedOK(context, e.cards \union invest, holdings)
    BY <1>6, <1>9, WithInvest
  <1>13. phase' = "done" /\ UNCHANGED <<session, style, context, book>>
    BY DEF GenerateLive
  <1> QED
    BY <1>11, <1>12, <1>13 DEF CardsInv

LEMMA KeepsNextSession == ASSUME CardsInv, NextSession PROVE CardsInv'
  <1>1. /\ session' = session + 1 /\ phase' = "b1" /\ context' \in Contexts
        /\ orders' = {} /\ evening' = [cards |-> {}, holdings |-> <<>>] /\ UNCHANGED <<style, book>>
    BY DEF NextSession
  <1>2. IssuedOK(context', {}, <<>>)
    BY InvestOnly
  <1>3. \A key \in Presets : BookOK(book[key], budgets[key], session + 1)
    BY DEF CardsInv, BookOK
  <1>4. OrdersStateCards'
    BY <1>1 DEF OrdersStateCards
  <1> QED
    BY <1>1, <1>2, <1>3, <1>4 DEF CardsInv

LEMMA CardsInvInit == ASSUME CardsInit PROVE CardsInv
  <1>1. /\ session = 1 /\ phase = "b1" /\ style \in Styles /\ context \in Contexts
        /\ book = [key \in Presets |-> NoBook] /\ orders = {}
        /\ evening = [cards |-> {}, holdings |-> <<>>]
    BY DEF CardsInit
  <1>2. IssuedOK(context, {}, <<>>)
    BY InvestOnly
  <1>3. ASSUME NEW total \in Nat PROVE BookOK(NoBook, total, 1)
    <2>1. DOMAIN <<>> = {}
      BY EmptySeq, LenProperties
    <2>2. Weights(<<>>, total)
      BY <2>1, SumOfNone, FS_EmptySet DEF Weights
    <2> QED
      BY <2>2 DEF NoBook, BookOK
  <1>4. \A key \in Presets : budgets[key] \in Nat
    BY PresetNumbers
  <1> QED
    BY <1>1, <1>2, <1>3, <1>4 DEF CardsInv, OrdersStateCards

\* The invariant of the plan.
LEMMA CardsInvAlways == CardsSpec => []CardsInv
  <1>1. CardsInit => CardsInv
    BY CardsInvInit
  <1>2. CardsInv /\ [CardsNext]_cardVars => CardsInv'
    <2> SUFFICES ASSUME CardsInv, [CardsNext]_cardVars PROVE CardsInv'
      OBVIOUS
    <2>1. ASSUME NEW key \in Presets, PlanInvest(key) PROVE CardsInv'
      BY <2>1, KeepsPlanInvest
    <2>2. ASSUME UNCHANGED cardVars PROVE CardsInv'
      BY <2>2 DEF CardsInv, OrdersStateCards, cardVars
    <2> QED
      BY <2>1, <2>2, KeepsPlanSwing, KeepsGenerateLive, KeepsNextSession DEF CardsNext
  <1> QED
    BY <1>1, <1>2, PTL DEF CardsSpec

\* Whatever the prices and levels of the evenings, the configured entry style
\* and the orders the models give, every card that is issued can be traded as
\* it stands (validate_card of reco/cards.py finds nothing, the zone is within
\* reach of the close, the reward is worth the risk, the size is whole lots)
\* and every order made of a card states the prices of a card of its evening.
THEOREM CardsCanBeTradedAlways == CardsSpec => []CardsCanBeTraded
  <1>1. CardsInv => CardsCanBeTraded
    <2> SUFFICES ASSUME CardsInv PROVE CardsCanBeTraded
      OBVIOUS
    <2>1. \A c \in evening.cards : Tradable(c)
      <3>1. \A c \in evening.cards : SwingCard(context, c) \/ InvestCard(context, c)
        BY DEF CardsInv, IssuedOK
      <3> QED
        BY <3>1, ContextIsOK, SwingIsTradable, InvestIsTradable
    <2>2. phase # "done" => OrdersStateCards
      BY DEF CardsInv
    <2> QED
      BY <2>1, <2>2, Zenon DEF CardsCanBeTraded, Tradable, OrdersStateCards
  <1> QED
    BY <1>1, CardsInvAlways, PTL

\* Whatever the evenings, the cards of one evening, all filled, keep the SWING
\* budget, the largest weight of a name over all the sleeves and the loss if
\* every stop is hit (reco/aggregate.py), and the targets of a rebalance half
\* way, or cut short by the next one, keep the budget of their sleeve
\* (reco/backtest.py).
THEOREM LimitsHoldAlways == CardsSpec => []LimitsHold
  <1>1. CardsInv => LimitsHold
    <2> SUFFICES ASSUME CardsInv PROVE LimitsHold
      OBVIOUS
    <2>1. PICK bought : bought = {c \in evening.cards : c.sleeve = "swing" /\ c.action = "BUY"}
      OBVIOUS
    <2>2. Fit(context, evening.holdings, bought)
      BY <2>1 DEF CardsInv, IssuedOK
    <2>3. /\ SumOver([c \in bought |-> Value(c)], bought) <= budgets["swing"]
          /\ SumOver([c \in bought |-> RiskIfStop(c)], bought) <= max_open_risk
          /\ \A c \in bought : Value(c) + Held(evening.holdings, c.name) <= max_weight_name
      BY <2>2 DEF Fit, Values, Risks
    <2>4. \A key \in Presets : SumOver(book[key].cur, DOMAIN book[key].cur) <= budgets[key]
      BY DEF CardsInv, BookOK, Weights
    <2> QED
      BY <2>1, <2>3, <2>4, Zenon DEF LimitsHold
  <1> QED
    BY <1>1, CardsInvAlways, PTL
=============================================================================
