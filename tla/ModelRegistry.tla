--------------------------- MODULE ModelRegistry ---------------------------
(***************************************************************************)
(* The model registry of predict_stock: the life of a model from           *)
(* registration to retirement, and the commands that move it               *)
(* (lifecycle/registry.py, compare.py, retrain.py, swing/registry.py).     *)
(*                                                                         *)
(* Every command runs in a session of its own: the operator's shell, the   *)
(* daily job.  Nothing but the database orders two sessions, so a command  *)
(* is cut where its code commits one transaction and opens the next, and   *)
(* inside a transaction where InnoDB (REPEATABLE READ) lets another commit *)
(* come between a plain read and the writes that rest on it.  set_status   *)
(* locks the row it changes and the champion rows it retires with SELECT   *)
(* ... FOR UPDATE, so it is one action, except that it counts champions    *)
(* without a lock for a first champion.  register_artifact locks nothing:  *)
(* what it reads and what it writes are two actions.  A session may be     *)
(* killed between any two actions.                                         *)
(***************************************************************************)
EXTENDS Naturals, Sequences, FiniteSets

CONSTANTS
    Models,        \* rows of table models that can come to exist
    Names,         \* model names, e.g. swing_lgbm_final
    Strategies,    \* sleeves a model can serve
    NameOf,        \* the name a model is registered under
    StrategyOf,    \* the strategy a name serves
    CardName,      \* the name init_champions looks for, per strategy
    Sessions,      \* concurrent operators: command lines, the daily job
    NoModel,       \* "no model" in a session's variables and log details
    MaxLog         \* bound of the checked instances: committed status changes

ASSUME NamesAssumption ==
    /\ NameOf \in [Models -> Names]
    /\ StrategyOf \in [Names -> Strategies]
    /\ CardName \in [Strategies -> Names]
    /\ Names # {} /\ Strategies # {}
    /\ NoModel \notin Models
    /\ MaxLog \in Nat

VARIABLES
    status,     \* models.status; "none" while there is no row
    version,    \* models.version, 0 while there is no row
    late,       \* models whose training data reaches the protected period
    log,        \* model_status_log: the rows each transaction committed
    exps,       \* experiments lifecycle:retrain:<strategy>, with their time
    consumed,   \* the experiment holdout:consumed exists
    job         \* what each session is in the middle of

db == <<status, version, late, log, exps, consumed>>
registryVars == <<db, job>>

-----------------------------------------------------------------------------
(* Types *)

Statuses == {"candidate", "shadow", "champion", "retired"}

\* Who writes a log row ("retrain", "promote" ... are its actor and reason), and,
\* as history, the length of the log when a promotion's comparison read the model.
Commands == {"registry", "retrain", "promote", "reject", "rollback", "init"}

Change == [model: Models, from: Statuses \union {"none"}, to: Statuses,
           by: Commands, read: Nat]

Experiment == [model: Models, champion: Models, at: Nat]

Steps == {"idle", "challenging", "training", "registering", "consuming",
          "entering", "shadowing", "comparing", "promoting", "rollingback",
          "recalling", "restoring", "picking", "crowning", "counted"}

Job == [at: Steps, strategy: Strategies, seen: Models \union {NoModel},
        target: Models \union {NoModel}, todo: SUBSET Names,
        fresh: SUBSET Models, late: BOOLEAN, name: Names, version: Nat,
        cands: SUBSET Models, read: Nat]

\* A step that changes one model has chosen it, a retrain knows its champion and
\* a version about to be written is not 0.
LegalJob == {j \in Job :
    /\ j.at \in {"shadowing", "comparing", "promoting", "restoring", "crowning", "counted"}
          => j.target \in Models
    /\ j.at \in {"challenging", "consuming", "entering", "shadowing"} => j.seen \in Models
    /\ j.at = "registering" => j.version # 0}

\* The rows a transaction under way has read and will write.
Touches(j) == j.cands \union (IF j.at = "counted" THEN {j.target} ELSE {})

Idle == [at |-> "idle", strategy |-> CHOOSE s \in Strategies : TRUE,
         seen |-> NoModel, target |-> NoModel, todo |-> {}, fresh |-> {},
         late |-> FALSE, name |-> CHOOSE n \in Names : TRUE, version |-> 0,
         cands |-> {}, read |-> 0]

-----------------------------------------------------------------------------
(* Reading the registry *)

Serves(m) == StrategyOf[NameOf[m]]
Registered == {m \in Models : status[m] # "none"}
WithStatus(s, st) == {m \in Models : Serves(m) = s /\ status[m] = st}
Champions(s) == WithStatus(s, "champion")

\* champion(): raises when there are two, None when there is none.
HasChampion(s) == \E m \in Models : Champions(s) = {m}
Champion(s) == CHOOSE m \in Models : Champions(s) = {m}

\* The versions registered under a name, and v is the latest: 0 for none.
Versions(n) == {version[m] : m \in {x \in Registered : NameOf[x] = n}}
Latest(n, v) == \A w \in Versions(n) : w <= v
NextVersion(v) == v + 1

\* Retirements from "champion" in the log, newest first: previous_champion.
Dethroned(i, s) == {c.model : c \in {x \in log[i] : /\ x.from = "champion"
                                                   /\ x.to = "retired"
                                                   /\ Serves(x.model) = s}}
IsPreviousChampion(m, s, cur) ==
    \E i \in 1..Len(log) : /\ m \in Dethroned(i, s) \ {cur}
                           /\ \A j \in (i+1)..Len(log) : Dethroned(j, s) \subseteq {cur}

\* _champion_since and attempts: retrain experiments since the last time any
\* model of the strategy became champion, and at least one.
Crownings(s) == {i \in 1..Len(log) :
                    \E c \in log[i] : c.to = "champion" /\ Serves(c.model) = s}
Attempts(s) ==
    LET counted == {e \in exps : /\ Serves(e.model) = s
                                 /\ \A i \in Crownings(s) : i <= e.at}
    IN  IF counted = {} THEN 1 ELSE Cardinality(counted)

-----------------------------------------------------------------------------
(* set_status: one transaction *)

ALLOWED == {<<"candidate", "shadow">>, <<"candidate", "retired">>,
            <<"shadow", "champion">>, <<"shadow", "retired">>,
            <<"champion", "retired">>, <<"retired", "champion">>}

CanMove(m, to) == <<status[m], to>> \in ALLOWED

\* A candidate becomes champion directly only where there is none.
IsFirst(m) == status[m] = "candidate" /\ Champions(Serves(m)) = {}

NoneReplaced(m, to) == {}                                           \* mutant
Replaced(m, to) == IF to = "champion" THEN Champions(Serves(m)) \ {m} ELSE {}

\* log_change: a row for the model and one for each champion it replaces.
Row(m, from, to, by, read) ==
    [model |-> m, from |-> from, to |-> to, by |-> by, read |-> read]
OwnRowOnly(m, to, by, read) == {Row(m, status[m], to, by, read)}      \* mutant
Rows(m, to, by, read) ==
    {Row(m, status[m], to, by, read)}
    \union {Row(x, "champion", "retired", by, 0) : x \in Replaced(m, to)}

Write(m, to, by, read) ==
    /\ status' = [x \in Models |-> IF x = m THEN to
                                   ELSE IF x \in Replaced(m, to) THEN "retired"
                                   ELSE status[x]]
    /\ log' = Append(log, Rows(m, to, by, read))
    /\ UNCHANGED <<version, late, exps, consumed>>

\* The lock a set_status holds on its model between counting and writing.
InStep(p, step) == job[p].at = step
RowFree(m, p) == \A q \in Sessions \ {p} : ~(InStep(q, "counted") /\ job[q].target = m)

SetStatus(p, m, to, by, read) ==
    /\ RowFree(m, p)
    /\ CanMove(m, to)
    /\ Write(m, to, by, read)

Room == Len(log) < MaxLog     \* bound of the checked instances

Go(p, j) == job' = [job EXCEPT ![p] = j]
EndCommand(p) == Go(p, Idle)

\* set_status raises LifecycleError: the command ends and nothing is written.
Refused(p, m, to) == RowFree(m, p) /\ ~CanMove(m, to) /\ EndCommand(p) /\ UNCHANGED db

-----------------------------------------------------------------------------
(* Training and registering *)

\* `swing run` and `invest run` train finals whatever the registry holds; the
\* models stay candidates.
Research(p, s, ns) ==
    /\ InStep(p, "idle") /\ Room
    /\ ns # {} /\ \A n \in ns : StrategyOf[n] = s
    /\ Go(p, [Idle EXCEPT !.at = "training", !.strategy = s, !.todo = ns])
    /\ UNCHANGED db

\* retrain: refused without a champion; then with a challenger in shadow, and
\* on protected data unless that was confirmed or already used.
Retrain(p, s) ==
    /\ InStep(p, "idle") /\ Room
    /\ HasChampion(s)
    /\ Go(p, [Idle EXCEPT !.at = "challenging", !.strategy = s, !.seen = Champion(s)])
    /\ UNCHANGED db

RetrainTrain(p, ns, reaches, consume) ==
    LET s == job[p].strategy IN
    /\ InStep(p, "challenging")
    /\ ns # {} /\ \A n \in ns : StrategyOf[n] = s
    /\ WithStatus(s, "shadow") = {}
    /\ reaches => consume \/ consumed
    /\ Go(p, [job[p] EXCEPT !.at = "training", !.todo = ns, !.late = reaches])
    /\ UNCHANGED db

RetrainRefused(p) ==
    /\ InStep(p, "challenging")
    /\ WithStatus(job[p].strategy, "shadow") # {}
    /\ EndCommand(p) /\ UNCHANGED db

\* register_artifact finds the artifact of the latest version: reused.
RegisterReused(p, n, m) ==
    /\ InStep(p, "training") /\ n \in job[p].todo
    /\ m \in Registered /\ NameOf[m] = n /\ Latest(n, version[m])
    /\ Go(p, [job[p] EXCEPT !.todo = @ \ {n}])
    /\ UNCHANGED db

\* register_artifact, the reads: the latest version and the candidates that
\* the new version will supersede.
RegisterRead(p, n) ==
    /\ InStep(p, "training") /\ n \in job[p].todo
    /\ \E v \in Versions(n) \union {0} :
          /\ Latest(n, v)
          /\ Go(p, [job[p] EXCEPT !.at = "registering", !.name = n,
                                  !.version = NextVersion(v),
                                  !.cands = {m \in Registered : NameOf[m] = n /\ status[m] = "candidate"}])
    /\ UNCHANGED db

\* register_artifact, the writes: UPDATE ... WHERE id, whatever the status is
\* by now; the unique key (name, version) refuses a version taken meanwhile.
VersionFree(p) == job[p].version \notin Versions(job[p].name)

RegisterWrite(p, m) ==
    /\ InStep(p, "registering") /\ Room
    /\ m \notin Registered /\ NameOf[m] = job[p].name
    /\ VersionFree(p) /\ \A x \in job[p].cands : RowFree(x, p)
    /\ status' = [x \in Models |-> IF x = m THEN "candidate"
                                   ELSE IF x \in job[p].cands THEN "retired" ELSE status[x]]
    /\ version' = [version EXCEPT ![m] = job[p].version]
    /\ late' = IF job[p].late THEN late \union {m} ELSE late
    /\ log' = Append(log,
                 {Row(m, "none", "candidate", "registry", 0)}
                 \union {Row(x, "candidate", "retired", "registry", 0) : x \in job[p].cands})
    /\ Go(p, [job[p] EXCEPT !.at = "training", !.todo = @ \ {job[p].name},
                            !.fresh = @ \union {m}, !.cands = {}, !.version = 0])
    /\ UNCHANGED <<exps, consumed>>

VersionTaken(p) ==
    /\ InStep(p, "registering")
    /\ ~VersionFree(p)
    /\ EndCommand(p) /\ UNCHANGED db

\* Every name is registered: research ends here, a retrain goes on.
Trained(p) ==
    /\ InStep(p, "training") /\ job[p].todo = {}
    /\ \/ job[p].seen = NoModel /\ EndCommand(p)
       \/ job[p].seen # NoModel /\ Go(p, [job[p] EXCEPT !.at = "consuming"])
    /\ UNCHANGED db

\* retrain records the use of the held-out period before any shadow starts.
UseUnrecorded(p) == FALSE                                           \* mutant
UsesHeldOut(p) == job[p].late

Consume(p) ==
    /\ InStep(p, "consuming")
    /\ consumed' = (consumed \/ UsesHeldOut(p))
    /\ Go(p, [job[p] EXCEPT !.at = "entering"])
    /\ UNCHANGED <<status, version, late, log, exps>>

\* One challenger: its experiment row, then its move to shadow.
LogAttempt(p, m) ==
    /\ InStep(p, "entering") /\ m \in job[p].fresh
    /\ exps' = exps \union {[model |-> m, champion |-> job[p].seen, at |-> Len(log)]}
    /\ Go(p, [job[p] EXCEPT !.at = "shadowing", !.target = m])
    /\ UNCHANGED <<status, version, late, log, consumed>>

StartShadow(p) ==
    LET m == job[p].target IN
    /\ InStep(p, "shadowing") /\ Room
    /\ \/ /\ SetStatus(p, m, "shadow", "retrain", 0)
          /\ Go(p, [job[p] EXCEPT !.at = "entering", !.target = NoModel,
                                  !.fresh = @ \ {m}])
       \/ Refused(p, m, "shadow")

Retrained(p) == InStep(p, "entering") /\ job[p].fresh = {} /\ EndCommand(p) /\ UNCHANGED db

-----------------------------------------------------------------------------
(* Promotion, rejection, rollback, first champions *)

\* promote, the comparison: a shadow model, then the champion of that moment.
\* Only a challenger that passes goes on; the others change nothing.
EvenRetired(m) == status[m] \in {"shadow", "retired"}               \* mutant
OnlyShadow(m) == status[m] = "shadow"

Compare(p, m) ==
    /\ InStep(p, "idle") /\ Room
    /\ OnlyShadow(m)
    /\ Go(p, [Idle EXCEPT !.at = "comparing", !.target = m, !.read = Len(log)])
    /\ UNCHANGED db

CompareChampion(p) ==
    LET s == Serves(job[p].target) IN
    /\ InStep(p, "comparing")
    /\ \/ HasChampion(s) /\ Go(p, [job[p] EXCEPT !.at = "promoting"])
       \/ ~HasChampion(s) /\ EndCommand(p)
    /\ UNCHANGED db

Promote(p) ==
    LET m == job[p].target IN
    /\ InStep(p, "promoting") /\ Room
    /\ \/ SetStatus(p, m, "champion", "promote", job[p].read) /\ EndCommand(p)
       \/ Refused(p, m, "champion")

\* reject: any model the moves allow to retire.
Reject(p, m) ==
    /\ InStep(p, "idle") /\ Room
    /\ SetStatus(p, m, "retired", "reject", 0)
    /\ UNCHANGED job

\* rollback reads the champion; previous_champion reads it again and goes back
\* through the log; then the status moves.
RollbackChampion(p, s) ==
    /\ InStep(p, "idle") /\ Room
    /\ HasChampion(s)
    /\ Go(p, [Idle EXCEPT !.at = "rollingback", !.strategy = s, !.seen = Champion(s)])
    /\ UNCHANGED db

Current(s) == IF HasChampion(s) THEN Champion(s) ELSE NoModel

RollbackRecall(p) ==
    /\ InStep(p, "rollingback")
    /\ Go(p, [job[p] EXCEPT !.at = "recalling", !.target = Current(job[p].strategy)])
    /\ UNCHANGED db

RollbackLog(p) ==
    LET s == job[p].strategy
        cur == job[p].target IN
    /\ InStep(p, "recalling")
    /\ \/ \E m \in Models : /\ IsPreviousChampion(m, s, cur)
                            /\ Go(p, [job[p] EXCEPT !.at = "restoring", !.target = m])
       \/ ~(\E m \in Models : IsPreviousChampion(m, s, cur)) /\ EndCommand(p)
    /\ UNCHANGED db

Rollback(p) ==
    LET m == job[p].target IN
    /\ InStep(p, "restoring") /\ Room
    /\ \/ SetStatus(p, m, "champion", "rollback", 0) /\ EndCommand(p)
       \/ Refused(p, m, "champion")

\* init_champions, per strategy: no champion; the latest candidate of the name
\* the cards are built from; set_status.
InitCheck(p, s) ==
    /\ InStep(p, "idle") /\ Room
    /\ Champions(s) = {}
    /\ Go(p, [Idle EXCEPT !.at = "picking", !.strategy = s])
    /\ UNCHANGED db

CardCandidates(s) == {m \in WithStatus(s, "candidate") : NameOf[m] = CardName[s]}

InitPick(p) ==
    LET cs == CardCandidates(job[p].strategy) IN
    /\ InStep(p, "picking")
    /\ \/ \E m \in cs : /\ \A x \in cs : version[x] <= version[m]
                        /\ Go(p, [job[p] EXCEPT !.at = "crowning", !.target = m])
       \/ cs = {} /\ EndCommand(p)
    /\ UNCHANGED db

\* set_status for a first champion: it locks the candidate and counts the
\* champions with a plain read; a model no longer a candidate has only the moves
\* of the others.
InitCount(p) ==
    LET m == job[p].target IN
    /\ InStep(p, "crowning") /\ Room /\ RowFree(m, p)
    /\ \/ IsFirst(m) /\ Go(p, [job[p] EXCEPT !.at = "counted"]) /\ UNCHANGED db
       \/ ~IsFirst(m) /\ SetStatus(p, m, "champion", "init", 0) /\ EndCommand(p)
       \/ ~IsFirst(m) /\ Refused(p, m, "champion")

InitCrown(p) ==
    /\ InStep(p, "counted") /\ Room
    /\ Write(job[p].target, "champion", "init", 0)
    /\ EndCommand(p)

\* The process is killed: what it had not committed never happened.
KillSession(p) == ~InStep(p, "idle") /\ EndCommand(p) /\ UNCHANGED db

-----------------------------------------------------------------------------
RegistryInit ==
    /\ status = [m \in Models |-> "none"]
    /\ version = [m \in Models |-> 0]
    /\ late = {}
    /\ log = <<>>
    /\ exps = {}
    /\ consumed = FALSE
    /\ job = [p \in Sessions |-> Idle]

RegistryNext == \E p \in Sessions :
    \/ \E s \in Strategies, ns \in SUBSET Names : Research(p, s, ns)
    \/ \E s \in Strategies : Retrain(p, s)
    \/ \E ns \in SUBSET Names, reaches, consume \in BOOLEAN : RetrainTrain(p, ns, reaches, consume)
    \/ RetrainRefused(p)
    \/ \E n \in Names, m \in Models : RegisterReused(p, n, m)
    \/ \E n \in Names : RegisterRead(p, n)
    \/ \E m \in Models : RegisterWrite(p, m)
    \/ VersionTaken(p)
    \/ Trained(p)
    \/ Consume(p)
    \/ \E m \in Models : LogAttempt(p, m)
    \/ StartShadow(p)
    \/ Retrained(p)
    \/ \E m \in Models : Compare(p, m)
    \/ CompareChampion(p)
    \/ Promote(p)
    \/ \E m \in Models : Reject(p, m)
    \/ \E s \in Strategies : RollbackChampion(p, s)
    \/ RollbackRecall(p)
    \/ RollbackLog(p)
    \/ Rollback(p)
    \/ \E s \in Strategies : InitCheck(p, s)
    \/ InitPick(p)
    \/ InitCount(p)
    \/ InitCrown(p)
    \/ KillSession(p)

RegistrySpec == RegistryInit /\ [][RegistryNext]_registryVars

-----------------------------------------------------------------------------
(* Properties that hold *)

\* Every variable has its type, a row has a version exactly when it exists, and
\* a registration retires only rows that exist.
RegistryTypeOK ==
    /\ status \in [Models -> Statuses \union {"none"}]
    /\ version \in [Models -> Nat]
    /\ late \in SUBSET Models
    /\ log \in Seq(SUBSET Change)
    /\ exps \in SUBSET Experiment
    /\ consumed \in BOOLEAN
    /\ job \in [Sessions -> LegalJob]
    /\ \A m \in Models : status[m] = "none" <=> version[m] = 0
    /\ \A p \in Sessions : Touches(job[p]) \subseteq Registered

\* registry.py:1 "one champion per strategy": whatever two sessions interleave,
\* promotions, rollbacks and first champions included.
OneChampion ==
    \A m, x \in Models :
        /\ Serves(m) = Serves(x)
        /\ status[m] = "champion" /\ status[x] = "champion"
        => m = x

\* The audit log tells the truth: the last transaction that logged a model
\* logged the status the model has now, and an unlogged model does not exist.
LogTellsStatus ==
    \A m \in Models :
        \/ /\ status[m] = "none"
           /\ \A i \in 1..Len(log) : \A c \in log[i] : c.model # m
        \/ \E i \in 1..Len(log) :
              /\ \E c \in log[i] : c.model = m
              /\ \A c \in log[i] : c.model = m => c.to = status[m]
              /\ \A j \in (i+1)..Len(log) : \A c \in log[j] : c.model # m

\* The unique key holds: two sessions that train the same name at once never
\* leave two models with the same name and version.
VersionsAreUnique ==
    \A m, x \in Registered :
        NameOf[m] = NameOf[x] /\ version[m] = version[x] => m = x

\* The first k transactions of the log leave m in a status.
LoggedAs(m, k, st) ==
    \E j \in 1..k : /\ \E d \in log[j] : d.model = m
                    /\ \A d \in log[j] : d.model = m => d.to = st
                    /\ \A n \in (j+1)..k : \A d \in log[n] : d.model # m

\* A challenger that was promoted was in shadow when the comparison it passed
\* read it, whatever the log says of the time since: registry.py:6, the first half.
PromotedFromShadow ==
    \A i \in 1..Len(log) : \A c \in log[i] :
        c.by = "promote" /\ c.to = "champion" =>
            c.read < i /\ LoggedAs(c.model, c.read, "shadow")

\* A rollback gives the strategy a model that has been its champion before.
RollbackRestoresAChampion ==
    \A i \in 1..Len(log) : \A c \in log[i] :
        c.by = "rollback" /\ c.to = "champion" =>
            \E j \in 1..(i-1) : \E d \in log[j] : d.model = c.model /\ d.to = "champion"

\* retrain.py:7-8: no challenger trained on the protected period is in shadow
\* before the use of that period is recorded, sessions killed half-way included.
HeldOutUseIsRecorded ==
    \A m \in late : status[m] = "shadow" => consumed

\* The registry at rest and between any two transactions: rows of their type,
\* one champion of each strategy, no version of a name twice.
RegistryIsConsistent == RegistryTypeOK /\ OneChampion /\ VersionsAreUnique

\* Nobody becomes champion unearned: a promoted model was in shadow when it was
\* compared, and a rollback takes a model that was champion before.
ChampionsAreEarned == PromotedFromShadow /\ RollbackRestoresAChampion

-----------------------------------------------------------------------------
(* A property the documentation states and the code breaks *)

\* registry.py:6, the second half: "the only way back from `retired` to `champion`
\* is a rollback", hence never a promotion.  promote writes on a comparison made
\* before its transaction, and set_status takes the move from whoever asks.
NoPromotionFromRetired ==
    \A i \in 1..Len(log) : \A c \in log[i] :
        c.by = "promote" /\ c.to = "champion" => c.from # "retired"
=============================================================================
