------------------------ MODULE ModelRegistryProofs ------------------------
(***************************************************************************)
(* Theorems about the model registry, for any number of models, names,     *)
(* strategies and concurrent sessions.                                     *)
(***************************************************************************)
EXTENDS ModelRegistry, TLAPS

LEMMA IdleType == Idle \in LegalJob
  <1>1. (CHOOSE s \in Strategies : TRUE) \in Strategies
    BY NamesAssumption
  <1>2. (CHOOSE n \in Names : TRUE) \in Names
    BY NamesAssumption
  <1> QED BY <1>1, <1>2 DEF Idle, LegalJob, Job, Steps

(* The types of the database part of the state. *)
DbType ==
    /\ status \in [Models -> Statuses \union {"none"}]
    /\ version \in [Models -> Nat]
    /\ late \in SUBSET Models
    /\ log \in Seq(SUBSET Change)
    /\ exps \in SUBSET Experiment
    /\ consumed \in BOOLEAN
    /\ \A m \in Models : status[m] = "none" <=> version[m] = 0

JobType ==
    /\ job \in [Sessions -> LegalJob]
    /\ \A p \in Sessions : Touches(job[p]) \subseteq Registered

LEMMA TypeParts == RegistryTypeOK <=> DbType /\ JobType
  BY DEF RegistryTypeOK, DbType, JobType

LEMMA DbQuiet == ASSUME DbType, UNCHANGED db PROVE DbType' /\ Registered' = Registered
  BY DEF DbType, db, Registered

(* A session's move from one step of its command to the next: rows are never  *)
(* deleted, so what the other sessions have read is still there.              *)
LEMMA GoType ==
    ASSUME JobType, NEW p \in Sessions, NEW j \in LegalJob, Touches(j) \subseteq Registered,
           Registered \subseteq Registered', Go(p, j)
    PROVE  JobType'
  <1>1. job' \in [Sessions -> LegalJob]
    BY DEF JobType, Go
  <1>2. ASSUME NEW q \in Sessions PROVE Touches(job'[q]) \subseteq Registered'
    BY DEF JobType, Go
  <1> QED BY <1>1, <1>2 DEF JobType

(* The writes of a set_status keep the types of what they touch. *)
LEMMA WriteType ==
    ASSUME NEW m \in Models, NEW to \in Statuses, NEW by \in Commands,
           NEW read \in Nat,
           DbType, status[m] \in Statuses, Write(m, to, by, read)
    PROVE  DbType' /\ Registered' = Registered
  <1>1. status[m] # "none"
    BY DEF Statuses
  <1>2. \A x \in Replaced(m, to) : x \in Models /\ status[x] = "champion"
    BY DEF Replaced, Champions, WithStatus
  <1>3. status' \in [Models -> Statuses \union {"none"}]
    BY <1>1 DEF Write, DbType, Statuses
  <1>4. Rows(m, to, by, read) \in SUBSET Change
    BY <1>1, <1>2 DEF Rows, Row, Change, Statuses
  <1>5. log' \in Seq(SUBSET Change)
    BY <1>4 DEF Write, DbType
  <1>6. \A x \in Models : status'[x] = "none" <=> status[x] = "none"
    BY <1>1, <1>2 DEF Write, Statuses, DbType
  <1> QED BY <1>3, <1>5, <1>6 DEF Write, DbType, Registered

(* What set_status and the first champion do, seen from the tables: a model   *)
(* that has a row is written with a status.                                   *)
SomeWrite ==
    \E m \in Models, to \in Statuses, by \in Commands, read \in Nat :
        status[m] \in Statuses /\ Write(m, to, by, read)

LEMMA SetStatusWrites ==
    ASSUME NEW p, NEW m \in Models, NEW to \in Statuses, NEW by, NEW read, SetStatus(p, m, to, by, read)
    PROVE  status[m] \in Statuses /\ Write(m, to, by, read)
  BY DEF SetStatus, CanMove, ALLOWED, Statuses

(* A step that only moves its session. *)
LEMMA QuietStep ==
    ASSUME DbType, JobType, NEW p \in Sessions, NEW j \in LegalJob, Touches(j) \subseteq Registered,
           Go(p, j), UNCHANGED db
    PROVE  DbType' /\ JobType'
  BY DbQuiet, GoType

LEMMA EndType ==
    ASSUME JobType, NEW p \in Sessions, Registered \subseteq Registered', EndCommand(p)
    PROVE  JobType'
  <1>1. Touches(Idle) = {}
    BY DEF Idle, Touches
  <1> QED BY <1>1, IdleType, GoType DEF EndCommand

LEMMA ChampionType ==
    ASSUME NEW s \in Strategies, HasChampion(s)
    PROVE  Champion(s) \in Models /\ Champions(s) = {Champion(s)}
  BY DEF HasChampion, Champion

(* Every step keeps the types, whatever the sessions interleave. *)
LEMMA TypeStep == RegistryTypeOK /\ [RegistryNext]_registryVars => RegistryTypeOK'
  <1> SUFFICES ASSUME DbType, JobType, [RegistryNext]_registryVars PROVE DbType' /\ JobType'
    BY DEF RegistryTypeOK, DbType, JobType
  <1> USE DEF InStep
  <1>a. \A p \in Sessions : job[p] \in LegalJob /\ job[p].cands \subseteq Registered
    BY DEF JobType, Touches
  <1>e. \A p \in Sessions : job[p].at = "counted" => status[job[p].target] \in Statuses
    BY DEF JobType, Touches, Registered, LegalJob, DbType
  <1>b. Idle.cands = {} /\ Idle \in LegalJob
    BY IdleType DEF Idle
  <1>c. ASSUME NEW p \in Sessions, UNCHANGED db, EndCommand(p)
        PROVE  DbType' /\ JobType'
    BY <1>c, DbQuiet, EndType
  <1>d. ASSUME NEW p \in Sessions, NEW m \in Models, NEW to \in Statuses, NEW by \in Commands,
               NEW read \in Nat,
               (SetStatus(p, m, to, by, read) /\ EndCommand(p)) \/ Refused(p, m, to)
        PROVE  DbType' /\ JobType'
    BY <1>c, <1>d, SetStatusWrites, WriteType, EndType DEF Refused
  <1>1. CASE UNCHANGED registryVars
    <2>1. UNCHANGED db /\ job' = job
      BY <1>1 DEF registryVars
    <2>2. DbType' /\ Registered' = Registered
      BY <2>1, DbQuiet
    <2> QED BY <2>1, <2>2 DEF JobType
  <1>2. ASSUME NEW p \in Sessions, NEW s \in Strategies, NEW ns \in SUBSET Names, Research(p, s, ns)
        PROVE  DbType' /\ JobType'
    <2> DEFINE j == [Idle EXCEPT !.at = "training", !.strategy = s, !.todo = ns]
    <2>1. j \in LegalJob /\ Touches(j) = {}
      BY <1>b DEF Touches, LegalJob, Job, Steps
    <2> QED BY <1>2, <2>1, QuietStep DEF Research
  <1>3. ASSUME NEW p \in Sessions, NEW s \in Strategies, Retrain(p, s)
        PROVE  DbType' /\ JobType'
    <2> DEFINE j == [Idle EXCEPT !.at = "challenging", !.strategy = s, !.seen = Champion(s)]
    <2>1. Champion(s) \in Models
      BY <1>3, ChampionType DEF Retrain
    <2>2. j \in LegalJob /\ Touches(j) = {}
      BY <1>b, <2>1 DEF Touches, LegalJob, Job, Steps
    <2> QED BY <1>3, <2>2, QuietStep DEF Retrain
  <1>3a. ASSUME NEW p \in Sessions, NEW ns \in SUBSET Names, NEW reaches \in BOOLEAN, NEW consume \in BOOLEAN,
                RetrainTrain(p, ns, reaches, consume)
        PROVE  DbType' /\ JobType'
    <2> DEFINE j == [job[p] EXCEPT !.at = "training", !.todo = ns, !.late = reaches]
    <2>1. j \in LegalJob /\ Touches(j) = job[p].cands
      BY <1>a DEF Touches, LegalJob, Job, Steps
    <2> QED BY <1>a, <1>3a, <2>1, QuietStep DEF RetrainTrain
  <1>4. ASSUME NEW p \in Sessions, NEW n \in Names, NEW m \in Models, RegisterReused(p, n, m)
        PROVE  DbType' /\ JobType'
    <2> DEFINE j == [job[p] EXCEPT !.todo = @ \ {n}]
    <2>1. j \in LegalJob /\ Touches(j) = job[p].cands
      BY <1>a, <1>4 DEF Touches, LegalJob, Job, Steps, RegisterReused
    <2> QED BY <1>a, <1>4, <2>1, QuietStep DEF RegisterReused
  <1>5. ASSUME NEW p \in Sessions, NEW n \in Names, RegisterRead(p, n)
        PROVE  DbType' /\ JobType'
    <2> DEFINE cs == {m \in Registered : NameOf[m] = n /\ status[m] = "candidate"}
               j(v) == [job[p] EXCEPT !.at = "registering", !.name = n, !.version = NextVersion(v),
                                      !.cands = cs]
    <2>1. PICK v \in Versions(n) \union {0} : Go(p, j(v))
      BY <1>5 DEF RegisterRead
    <2>2. v + 1 \in Nat \ {0}
      BY <2>1 DEF Versions, Registered, DbType
    <2>3. cs \in SUBSET Models /\ cs \subseteq Registered
      BY DEF Registered
    <2>4. j(v) \in LegalJob /\ Touches(j(v)) = cs
      <3> HIDE DEF cs
      <3> QED BY <1>a, <2>2, <2>3 DEF Touches, LegalJob, Job, Steps, NextVersion
    <2> QED BY <1>5, <2>1, <2>3, <2>4, QuietStep DEF RegisterRead
  <1>6. ASSUME NEW p \in Sessions, NEW m \in Models, RegisterWrite(p, m)
        PROVE  DbType' /\ JobType'
    <2> DEFINE j == [job[p] EXCEPT !.at = "training", !.todo = @ \ {job[p].name}, !.fresh = @ \union {m},
                                   !.cands = {}, !.version = 0]
    <2>1. /\ job[p].cands \in SUBSET Models /\ job[p].version \in Nat \ {0}
          /\ \A x \in job[p].cands : status[x] # "none"
      BY <1>a, <1>6 DEF RegisterWrite, LegalJob, Job, Registered
    <2>2. j \in LegalJob /\ Touches(j) = {}
      BY <1>a, <1>6, ZenonT(40) DEF Touches, LegalJob, Job, Steps, RegisterWrite
    <2>3. status' \in [Models -> Statuses \union {"none"}] /\ Registered \subseteq Registered'
      BY <1>6, <2>1 DEF RegisterWrite, DbType, Statuses, Registered
    <2>4. JobType'
      BY <1>6, <2>2, <2>3, GoType DEF RegisterWrite
    <2>5. {Row(m, "none", "candidate", "registry", 0)}
            \union {Row(x, "candidate", "retired", "registry", 0) : x \in job[p].cands} \in SUBSET Change
      BY <2>1 DEF Row, Change, Statuses, Commands
    <2>6. log' \in Seq(SUBSET Change)
      BY <1>6, <2>5 DEF RegisterWrite, DbType
    <2>7. /\ version' \in [Models -> Nat] /\ late' \in SUBSET Models
          /\ \A x \in Models : status'[x] = "none" <=> version'[x] = 0
      BY <1>6, <2>1 DEF RegisterWrite, DbType, Statuses
    <2> QED BY <1>6, <2>3, <2>4, <2>6, <2>7 DEF RegisterWrite, DbType
  <1>7. ASSUME NEW p \in Sessions, RetrainRefused(p) \/ VersionTaken(p) \/ Retrained(p) \/ KillSession(p)
        PROVE  DbType' /\ JobType'
    BY <1>7, <1>c DEF RetrainRefused, VersionTaken, Retrained, KillSession
  <1>8. ASSUME NEW p \in Sessions, Trained(p)
        PROVE  DbType' /\ JobType'
    <2> DEFINE j == [job[p] EXCEPT !.at = "consuming"]
    <2>1. ASSUME job[p].seen # NoModel PROVE j \in LegalJob /\ Touches(j) = job[p].cands
      BY <1>a, <2>1 DEF Touches, LegalJob, Job, Steps
    <2> QED BY <1>a, <1>c, <1>8, <2>1, QuietStep DEF Trained
  <1>9. ASSUME NEW p \in Sessions, Consume(p)
        PROVE  DbType' /\ JobType'
    <2> DEFINE j == [job[p] EXCEPT !.at = "entering"]
    <2>1. j \in LegalJob /\ Touches(j) = job[p].cands /\ job[p].late \in BOOLEAN
      BY <1>a, <1>9 DEF Touches, LegalJob, Job, Steps, Consume
    <2>2. DbType' /\ Registered' = Registered
      BY <1>9, <2>1 DEF Consume, DbType, Registered, UsesHeldOut
    <2> QED BY <1>a, <1>9, <2>1, <2>2, GoType DEF Consume
  <1>10. ASSUME NEW p \in Sessions, NEW m \in Models, LogAttempt(p, m)
        PROVE  DbType' /\ JobType'
    <2> DEFINE j == [job[p] EXCEPT !.at = "shadowing", !.target = m]
    <2>1. j \in LegalJob /\ Touches(j) = job[p].cands /\ job[p].seen \in Models
      BY <1>a, <1>10, ZenonT(40) DEF Touches, LegalJob, Job, Steps, LogAttempt
    <2>2. Len(log) \in Nat
      BY DEF DbType
    <2>3. DbType' /\ Registered' = Registered
      BY <1>10, <2>1, <2>2 DEF LogAttempt, DbType, Registered, Experiment
    <2> QED BY <1>a, <1>10, <2>1, <2>3, GoType DEF LogAttempt
  <1>11. ASSUME NEW p \in Sessions, StartShadow(p)
        PROVE  DbType' /\ JobType'
    <2> DEFINE m == job[p].target
               j == [job[p] EXCEPT !.at = "entering", !.target = NoModel, !.fresh = @ \ {m}]
    <2>1. m \in Models /\ j \in LegalJob /\ Touches(j) = job[p].cands
      BY <1>a, <1>11, ZenonT(40) DEF Touches, LegalJob, Job, Steps, StartShadow
    <2>2. "shadow" \in Statuses /\ "retrain" \in Commands
      BY DEF Statuses, Commands
    <2>3. ASSUME SetStatus(p, m, "shadow", "retrain", 0), Go(p, j)
          PROVE  DbType' /\ JobType'
      BY <1>a, <2>1, <2>2, <2>3, SetStatusWrites, WriteType, GoType
    <2> QED BY <1>11, <1>c, <2>3 DEF StartShadow, Refused
  <1>12. ASSUME NEW p \in Sessions, NEW m \in Models, Compare(p, m)
        PROVE  DbType' /\ JobType'
    <2> DEFINE j == [Idle EXCEPT !.at = "comparing", !.target = m, !.read = Len(log)]
    <2>0. Len(log) \in Nat
      BY DEF DbType
    <2>1. j \in LegalJob /\ Touches(j) = {}
      BY <1>b, <2>0 DEF Touches, LegalJob, Job, Steps
    <2> QED BY <1>12, <2>1, QuietStep DEF Compare
  <1>12a. ASSUME NEW p \in Sessions, CompareChampion(p)
        PROVE  DbType' /\ JobType'
    <2> DEFINE j == [job[p] EXCEPT !.at = "promoting"]
    <2>1. j \in LegalJob /\ Touches(j) = job[p].cands
      BY <1>a, <1>12a DEF Touches, LegalJob, Job, Steps, CompareChampion
    <2> QED BY <1>a, <1>c, <1>12a, <2>1, QuietStep DEF CompareChampion
  <1>13. ASSUME NEW p \in Sessions, Promote(p) \/ Rollback(p) \/ InitCount(p)
        PROVE  DbType' /\ JobType'
    <2> DEFINE j == [job[p] EXCEPT !.at = "counted"]
    <2>1. job[p].target \in Models /\ job[p].read \in Nat
      BY <1>a, <1>13 DEF LegalJob, Job, Promote, Rollback, InitCount
    <2>2. "champion" \in Statuses /\ {"promote", "rollback", "init"} \subseteq Commands
      BY DEF Statuses, Commands
    <2>3. j \in LegalJob /\ Touches(j) = job[p].cands \union {job[p].target}
      BY <1>a, <2>1 DEF Touches, LegalJob, Job, Steps
    <2>4. CASE IsFirst(job[p].target) /\ Go(p, j) /\ UNCHANGED db
      <3>1. job[p].target \in Registered
        BY <2>1, <2>4 DEF IsFirst, Registered
      <3> QED BY <1>a, <2>3, <2>4, <3>1, QuietStep
    <2> QED BY <1>13, <1>d, <2>1, <2>2, <2>4 DEF Promote, Rollback, InitCount
  <1>13a. ASSUME NEW p \in Sessions, InitCrown(p)
        PROVE  DbType' /\ JobType'
    <2>1. job[p].target \in Models /\ status[job[p].target] \in Statuses
      BY <1>a, <1>13a, <1>e DEF LegalJob, InitCrown
    <2>2. DbType' /\ Registered' = Registered
      BY <1>13a, <2>1, WriteType DEF InitCrown, Statuses, Commands
    <2> QED BY <1>13a, <2>2, EndType DEF InitCrown
  <1>14. ASSUME NEW p \in Sessions, NEW m \in Models, Reject(p, m)
        PROVE  DbType' /\ JobType'
    <2>1. DbType' /\ Registered' = Registered
      BY <1>14, SetStatusWrites, WriteType DEF Reject, Statuses, Commands
    <2> QED BY <1>14, <2>1 DEF Reject, JobType
  <1>15. ASSUME NEW p \in Sessions, NEW s \in Strategies, RollbackChampion(p, s)
        PROVE  DbType' /\ JobType'
    <2> DEFINE j == [Idle EXCEPT !.at = "rollingback", !.strategy = s, !.seen = Champion(s)]
    <2>1. Champion(s) \in Models
      BY <1>15, ChampionType DEF RollbackChampion
    <2>2. j \in LegalJob /\ Touches(j) = {}
      BY <1>b, <2>1 DEF Touches, LegalJob, Job, Steps
    <2> QED BY <1>15, <2>2, QuietStep DEF RollbackChampion
  <1>16. ASSUME NEW p \in Sessions, RollbackLog(p) \/ RollbackRecall(p)
        PROVE  DbType' /\ JobType'
    <2> DEFINE r(m) == [job[p] EXCEPT !.at = "restoring", !.target = m]
               c == Current(job[p].strategy)
               k == [job[p] EXCEPT !.at = "recalling", !.target = c]
    <2>1. \A m \in Models : r(m) \in LegalJob /\ Touches(r(m)) = job[p].cands
      BY <1>a DEF Touches, LegalJob, Job, Steps
    <2>2. c \in Models \union {NoModel}
      BY <1>a, ChampionType DEF Current, LegalJob, Job
    <2>3. k \in LegalJob /\ Touches(k) = job[p].cands
      <3> HIDE DEF c
      <3> QED BY <1>a, <2>2 DEF Touches, LegalJob, Job, Steps
    <2>4. CASE RollbackRecall(p)
      BY <1>a, <2>3, <2>4, QuietStep DEF RollbackRecall
    <2>5. CASE RollbackLog(p)
      BY <1>a, <1>c, <2>1, <2>5, QuietStep DEF RollbackLog
    <2> QED BY <1>16, <2>4, <2>5
  <1>17. ASSUME NEW p \in Sessions, NEW s \in Strategies, InitCheck(p, s)
        PROVE  DbType' /\ JobType'
    <2> DEFINE j == [Idle EXCEPT !.at = "picking", !.strategy = s]
    <2>1. j \in LegalJob /\ Touches(j) = {}
      BY <1>b DEF Touches, LegalJob, Job, Steps
    <2> QED BY <1>17, <2>1, QuietStep DEF InitCheck
  <1>18. ASSUME NEW p \in Sessions, InitPick(p)
        PROVE  DbType' /\ JobType'
    <2> DEFINE j(m) == [job[p] EXCEPT !.at = "crowning", !.target = m]
    <2>1. \A m \in Models : j(m) \in LegalJob /\ Touches(j(m)) = job[p].cands
      BY <1>a DEF Touches, LegalJob, Job, Steps
    <2>2. CardCandidates(job[p].strategy) \subseteq Models
      BY DEF CardCandidates, WithStatus
    <2> QED BY <1>a, <1>c, <1>18, <2>1, <2>2, QuietStep DEF InitPick
  <1> QED BY <1>1, <1>2, <1>3, <1>3a, <1>4, <1>5, <1>6, <1>7, <1>8, <1>9, <1>10, <1>11, <1>12,
             <1>12a, <1>13, <1>13a, <1>14, <1>15, <1>16, <1>17, <1>18 DEF RegistryNext

(* Every state of every run has the types, and no registration retires a row  *)
(* that does not exist.                                                       *)
THEOREM TypeCorrect == RegistrySpec => []RegistryTypeOK
  <1>1. RegistryInit => RegistryTypeOK
    <2> SUFFICES ASSUME RegistryInit PROVE RegistryTypeOK
      OBVIOUS
    <2>1. DbType
      <3>1. <<>> \in Seq(SUBSET Change)
        OBVIOUS
      <3>2. late \in SUBSET Models /\ exps \in SUBSET Experiment /\ consumed \in BOOLEAN
        BY DEF RegistryInit
      <3>3. /\ status \in [Models -> Statuses \union {"none"}] /\ version \in [Models -> Nat]
            /\ \A m \in Models : status[m] = "none" <=> version[m] = 0
        BY DEF RegistryInit
      <3> QED BY <3>1, <3>2, <3>3 DEF RegistryInit, DbType
    <2>2. JobType
      BY IdleType DEF RegistryInit, JobType, Idle, Touches
    <2> QED BY <2>1, <2>2, TypeParts
  <1>2. RegistryTypeOK /\ [RegistryNext]_registryVars => RegistryTypeOK'
    BY TypeStep
  <1> QED BY <1>1, <1>2, PTL DEF RegistrySpec

-----------------------------------------------------------------------------
(* What a step does to the registry: nothing, one set_status, or the write of *)
(* a registration.  The invariants below are proved for these three.          *)

Quiet == UNCHANGED <<status, version, log>>

LEMMA StepShape ==
    ASSUME RegistryTypeOK, [RegistryNext]_registryVars
    PROVE  \/ Quiet
           \/ SomeWrite
           \/ \E p \in Sessions, m \in Models : RegisterWrite(p, m)
  <1>a. \A p \in Sessions : job[p] \in LegalJob
    BY DEF RegistryTypeOK
  <1>b. UNCHANGED db => Quiet
    BY DEF db, Quiet
  <1>c. /\ {"shadow", "champion", "retired"} \subseteq Statuses
        /\ {"retrain", "promote", "reject", "rollback", "init"} \subseteq Commands
    BY DEF Statuses, Commands
  <1>1. CASE UNCHANGED registryVars
    BY <1>1 DEF registryVars, db, Quiet
  <1>2. ASSUME NEW p \in Sessions, StartShadow(p) \/ Promote(p) \/ Rollback(p) \/ InitCount(p)
        PROVE  Quiet \/ SomeWrite
    <2>1. job[p].target \in Models /\ job[p].read \in Nat
      BY <1>a, <1>2 DEF LegalJob, Job, StartShadow, Promote, Rollback, InitCount, InStep
    <2> QED BY <1>b, <1>c, <1>2, <2>1, SetStatusWrites
            DEF StartShadow, Promote, Rollback, InitCount, Refused, SomeWrite
  <1>3. ASSUME NEW p \in Sessions, InitCrown(p) \/ \E m \in Models : Reject(p, m)
        PROVE  SomeWrite
    <2>1. CASE InitCrown(p)
      <3>1. job[p].target \in Models /\ status[job[p].target] \in Statuses
        BY <1>a, <2>1 DEF RegistryTypeOK, Touches, Registered, LegalJob, InitCrown, InStep
      <3> QED BY <1>c, <2>1, <3>1 DEF InitCrown, SomeWrite
    <2>2. CASE \E m \in Models : Reject(p, m)
      BY <1>c, <2>2, SetStatusWrites DEF Reject, SomeWrite
    <2> QED BY <1>3, <2>1, <2>2
  <1>4. ASSUME NEW p \in Sessions,
               \/ \E s \in Strategies, ns \in SUBSET Names : Research(p, s, ns)
               \/ \E s \in Strategies : Retrain(p, s)
               \/ \E ns \in SUBSET Names, reaches, consume \in BOOLEAN : RetrainTrain(p, ns, reaches, consume)
               \/ \E n \in Names, m \in Models : RegisterReused(p, n, m)
               \/ \E n \in Names : RegisterRead(p, n)
               \/ RetrainRefused(p) \/ VersionTaken(p) \/ Trained(p) \/ Retrained(p)
        PROVE  Quiet
    BY <1>b, <1>4 DEF Research, Retrain, RetrainTrain, RetrainRefused, RegisterReused, RegisterRead,
                      VersionTaken, Trained, Retrained
  <1>5. ASSUME NEW p \in Sessions,
               \/ \E m \in Models : Compare(p, m)
               \/ \E s \in Strategies : RollbackChampion(p, s) \/ InitCheck(p, s)
               \/ CompareChampion(p) \/ RollbackRecall(p) \/ RollbackLog(p) \/ InitPick(p) \/ KillSession(p)
        PROVE  Quiet
    BY <1>b, <1>5 DEF Compare, CompareChampion, RollbackChampion, InitCheck, RollbackRecall, RollbackLog,
                      InitPick, KillSession
  <1>6. ASSUME NEW p \in Sessions, Consume(p) \/ \E m \in Models : LogAttempt(p, m)
        PROVE  Quiet
    BY <1>6 DEF Consume, LogAttempt, Quiet
  <1> QED BY <1>1, <1>2, <1>3, <1>4, <1>5, <1>6 DEF RegistryNext

(* The write of a registration adds one row and loses none.                   *)
LEMMA RegisterRows ==
    ASSUME RegistryTypeOK, NEW p \in Sessions, NEW m \in Models, RegisterWrite(p, m)
    PROVE  /\ job[p].cands \subseteq Registered /\ m \notin Registered
           /\ Registered' = Registered \union {m}
  <1>1. job[p].cands \subseteq Registered
    BY DEF RegistryTypeOK, Touches
  <1>2. m \notin Registered
    BY DEF RegisterWrite
  <1>3. \A x \in Models : status'[x] = IF x = m THEN "candidate"
                                       ELSE IF x \in job[p].cands THEN "retired" ELSE status[x]
    BY DEF RegisterWrite
  <1> QED BY <1>1, <1>2, <1>3 DEF Registered

(* One champion per strategy survives one set_status ...                      *)
LEMMA SetStatusOneChampion ==
    ASSUME RegistryTypeOK, OneChampion, SomeWrite
    PROVE  OneChampion'
  <1>1. PICK m \in Models, to \in Statuses, by \in Commands, read \in Nat :
            status[m] \in Statuses /\ Write(m, to, by, read)
    BY DEF SomeWrite
  <1>2. \A x \in Models : status'[x] = IF x = m THEN to
                                       ELSE IF x \in Replaced(m, to) THEN "retired" ELSE status[x]
    BY <1>1 DEF Write
  <1>3. CASE to = "champion"
    <2>1. \A x \in Models : x # m /\ Serves(x) = Serves(m) => status'[x] # "champion"
      BY <1>2, <1>3 DEF Replaced, Champions, WithStatus
    <2>2. \A x \in Models : x # m /\ status'[x] = "champion" => status[x] = "champion"
      BY <1>2
    <2> QED BY <2>1, <2>2 DEF OneChampion, Serves
  <1>4. CASE to # "champion"
    <2>1. \A x \in Models : status'[x] = "champion" => status[x] = "champion"
      BY <1>2, <1>4
    <2> QED BY <2>1 DEF OneChampion, Serves
  <1> QED BY <1>3, <1>4

(* ... and the write of a registration, which makes no champion.              *)
LEMMA RegisterOneChampion ==
    ASSUME RegistryTypeOK, OneChampion, NEW p \in Sessions, NEW m \in Models, RegisterWrite(p, m)
    PROVE  OneChampion'
  <1>1. \A x \in Models : status'[x] = "champion" => status[x] = "champion"
    BY DEF RegisterWrite, RegistryTypeOK
  <1> QED BY <1>1 DEF OneChampion, Serves

(* registry.py:1: a strategy never has two champions, however many sessions   *)
(* promote, roll back, train and start strategies at the same time.           *)
THEOREM OneChampionAlways == RegistrySpec => []OneChampion
  <1>1. RegistryInit => OneChampion
    BY DEF RegistryInit, OneChampion
  <1>2. RegistryTypeOK /\ OneChampion /\ [RegistryNext]_registryVars => OneChampion'
    <2> SUFFICES ASSUME RegistryTypeOK, OneChampion, [RegistryNext]_registryVars PROVE OneChampion'
      OBVIOUS
    <2>1. CASE Quiet
      BY <2>1 DEF Quiet, OneChampion, Serves
    <2> QED BY <2>1, StepShape, SetStatusOneChampion, RegisterOneChampion
  <1> QED BY <1>1, <1>2, TypeCorrect, PTL DEF RegistrySpec

(* The unique key of the table: two sessions that register one name at the    *)
(* same time never leave two models with the same name and version.           *)
THEOREM VersionsAreUniqueAlways == RegistrySpec => []VersionsAreUnique
  <1>1. RegistryInit => VersionsAreUnique
    BY DEF RegistryInit, VersionsAreUnique, Registered
  <1>2. RegistryTypeOK /\ VersionsAreUnique /\ [RegistryNext]_registryVars => VersionsAreUnique'
    <2> SUFFICES ASSUME RegistryTypeOK, VersionsAreUnique, [RegistryNext]_registryVars PROVE VersionsAreUnique'
      OBVIOUS
    <2>1. CASE Quiet
      BY <2>1 DEF Quiet, VersionsAreUnique, Registered
    <2>2. CASE SomeWrite
      <3>1. Registered' = Registered /\ version' = version
        BY <2>2, TypeParts, WriteType DEF SomeWrite, Write
      <3> QED BY <3>1 DEF VersionsAreUnique
    <2>3. ASSUME NEW p \in Sessions, NEW m \in Models, RegisterWrite(p, m)
          PROVE  VersionsAreUnique'
      <3>1. Registered' = Registered \union {m} /\ m \notin Registered
        BY <2>3, RegisterRows
      <3>2. \A x \in Registered : version'[x] = version[x]
        BY <2>3, <3>1 DEF RegisterWrite, RegistryTypeOK, Registered
      <3>3. version'[m] = job[p].version /\ NameOf[m] = job[p].name
        BY <2>3 DEF RegisterWrite, RegistryTypeOK
      <3>4. \A x \in Registered : NameOf[x] = job[p].name => version[x] # job[p].version
        BY <2>3 DEF RegisterWrite, VersionFree, Versions
      <3> QED BY <3>1, <3>2, <3>3, <3>4 DEF VersionsAreUnique
    <2> QED BY <2>1, <2>2, <2>3, StepShape
  <1> QED BY <1>1, <1>2, TypeCorrect, PTL DEF RegistrySpec

-----------------------------------------------------------------------------
(* The audit log: a transaction that appends the rows R and moves exactly the *)
(* models R is about, to the status R says, keeps the log true.               *)

LEMMA LogStep ==
    ASSUME RegistryTypeOK, LogTellsStatus, NEW R \in SUBSET Change, log' = Append(log, R),
           \A x \in Models : \/ \E c \in R : c.model = x
                             \/ status'[x] = status[x],
           \A c \in R : c.to = status'[c.model] /\ c.to # "none"
    PROVE  LogTellsStatus'
  <1>1. /\ log \in Seq(SUBSET Change)
        /\ Len(log) \in Nat /\ Len(log') = Len(log) + 1
        /\ \A i \in 1..Len(log) : log'[i] = log[i]
        /\ log'[Len(log) + 1] = R
    BY DEF RegistryTypeOK
  <1> SUFFICES ASSUME NEW m \in Models
               PROVE  \/ /\ status'[m] = "none"
                         /\ \A i \in 1..Len(log') : \A c \in log'[i] : c.model # m
                      \/ \E i \in 1..Len(log') :
                            /\ \E c \in log'[i] : c.model = m
                            /\ \A c \in log'[i] : c.model = m => c.to = status'[m]
                            /\ \A j \in (i+1)..Len(log') : \A c \in log'[j] : c.model # m
    BY DEF LogTellsStatus
  <1>2. CASE \E c \in R : c.model = m
    <2>1. Len(log) + 1 \in 1..Len(log')
      BY <1>1
    <2>2. \A j \in ((Len(log) + 1) + 1)..Len(log') : FALSE
      BY <1>1
    <2>3. \A c \in R : c.model = m => c.to = status'[m]
      OBVIOUS
    <2> QED BY <1>1, <1>2, <2>1, <2>2, <2>3
  <1>3. CASE ~ \E c \in R : c.model = m
    <2>1. status'[m] = status[m]
      BY <1>3
    <2>2. CASE status[m] = "none" /\ \A i \in 1..Len(log) : \A c \in log[i] : c.model # m
      <3>1. \A i \in 1..Len(log') : i \in 1..Len(log) \/ i = Len(log) + 1
        BY <1>1
      <3> QED BY <1>1, <1>3, <2>1, <2>2, <3>1
    <2>3. CASE \E i \in 1..Len(log) :
                  /\ \E c \in log[i] : c.model = m
                  /\ \A c \in log[i] : c.model = m => c.to = status[m]
                  /\ \A j \in (i+1)..Len(log) : \A c \in log[j] : c.model # m
      <3>1. PICK i \in 1..Len(log) :
                  /\ \E c \in log[i] : c.model = m
                  /\ \A c \in log[i] : c.model = m => c.to = status[m]
                  /\ \A j \in (i+1)..Len(log) : \A c \in log[j] : c.model # m
        BY <2>3
      <3>2. i \in 1..Len(log') /\ log'[i] = log[i]
        BY <1>1
      <3>3. ASSUME NEW j \in (i+1)..Len(log') PROVE \A c \in log'[j] : c.model # m
        <4>1. (j \in (i+1)..Len(log) /\ j \in 1..Len(log)) \/ j = Len(log) + 1
          BY <1>1
        <4> QED BY <1>1, <1>3, <3>1, <4>1
      <3> QED BY <2>1, <3>1, <3>2, <3>3
    <2> QED BY <2>2, <2>3 DEF LogTellsStatus
  <1> QED BY <1>2, <1>3

(* model_status_log tells the truth: the last transaction that logged a model *)
(* logged the status it has now.                                              *)
THEOREM LogTellsStatusAlways == RegistrySpec => []LogTellsStatus
  <1>1. RegistryInit => LogTellsStatus
    <2>1. Len(<<>>) = 0 /\ 1..0 = {}
      OBVIOUS
    <2> QED BY <2>1 DEF RegistryInit, LogTellsStatus
  <1>2. RegistryTypeOK /\ LogTellsStatus /\ [RegistryNext]_registryVars => LogTellsStatus'
    <2> SUFFICES ASSUME RegistryTypeOK, LogTellsStatus, [RegistryNext]_registryVars PROVE LogTellsStatus'
      OBVIOUS
    <2>1. CASE Quiet
      BY <2>1 DEF Quiet, LogTellsStatus
    <2>2. CASE SomeWrite
      <3>1. PICK m \in Models, to \in Statuses, by \in Commands, read \in Nat :
                status[m] \in Statuses /\ Write(m, to, by, read)
        BY <2>2 DEF SomeWrite
      <3> DEFINE R == Rows(m, to, by, read)
      <3>2. /\ status[m] \in Statuses
            /\ \A x \in Replaced(m, to) : x \in Models /\ x # m /\ status[x] = "champion"
        BY <3>1 DEF Replaced, Champions, WithStatus
      <3>3. R \in SUBSET Change
        BY <3>2 DEF Rows, Row, Change, Statuses
      <3>4. \A x \in Models : (\E c \in R : c.model = x) \/ status'[x] = status[x]
        <4>1. Row(m, status[m], to, by, read) \in R /\ Row(m, status[m], to, by, read).model = m
          BY DEF Rows, Row
        <4>2. \A x \in Replaced(m, to) : LET r == Row(x, "champion", "retired", by, 0)
                                         IN  r \in R /\ r.model = x
          BY DEF Rows, Row
        <4> HIDE DEF R
        <4> QED BY <3>1, <4>1, <4>2 DEF Write
      <3>5. \A c \in R : c.to = status'[c.model] /\ c.to # "none"
        <4>1. \A x \in Models : status'[x] = IF x = m THEN to
                                  ELSE IF x \in Replaced(m, to) THEN "retired" ELSE status[x]
          BY <3>1 DEF Write
        <4> QED BY <3>2, <4>1 DEF Rows, Row, Statuses
      <3>6. log' = Append(log, R)
        BY <3>1 DEF Write
      <3> HIDE DEF R
      <3> QED BY <3>3, <3>4, <3>5, <3>6, LogStep
    <2>3. ASSUME NEW p \in Sessions, NEW m \in Models, RegisterWrite(p, m)
          PROVE  LogTellsStatus'
      <3> DEFINE R == {Row(m, "none", "candidate", "registry", 0)}
                        \union {Row(x, "candidate", "retired", "registry", 0) : x \in job[p].cands}
      <3>1. job[p].cands \subseteq Registered /\ m \notin job[p].cands /\ job[p].cands \subseteq Models
        BY <2>3, RegisterRows DEF Registered
      <3>2. R \in SUBSET Change
        BY <3>1 DEF Row, Change, Statuses, Commands
      <3>3. \A x \in Models : (\E c \in R : c.model = x) \/ status'[x] = status[x]
        <4>1. LET r == Row(m, "none", "candidate", "registry", 0) IN r \in R /\ r.model = m
          BY DEF Row
        <4>2. \A x \in job[p].cands : LET r == Row(x, "candidate", "retired", "registry", 0)
                                      IN  r \in R /\ r.model = x
          BY DEF Row
        <4> HIDE DEF R
        <4> QED BY <2>3, <4>1, <4>2 DEF RegisterWrite
      <3>4. \A c \in R : c.to = status'[c.model] /\ c.to # "none"
        <4>1. \A x \in Models : status'[x] = IF x = m THEN "candidate"
                                  ELSE IF x \in job[p].cands THEN "retired" ELSE status[x]
          BY <2>3 DEF RegisterWrite
        <4> QED BY <3>1, <4>1 DEF Row
      <3>5. log' = Append(log, R)
        BY <2>3 DEF RegisterWrite
      <3> HIDE DEF R
      <3> QED BY <3>2, <3>3, <3>4, <3>5, LogStep
    <2> QED BY <2>1, <2>2, <2>3, StepShape
  <1> QED BY <1>1, <1>2, TypeCorrect, PTL DEF RegistrySpec

-----------------------------------------------------------------------------
(* The protected period.  The promise is not inductive: it also depends on    *)
(* the retrains under way.  A session that may start shadows has recorded the *)
(* use if its data reach the period, and a session knows whether the models   *)
(* it trained reach it.                                                       *)

HeldOutInv ==
    /\ HeldOutUseIsRecorded
    /\ late \subseteq Registered
    /\ \A p \in Sessions :
          /\ job[p].at \in {"entering", "shadowing"} /\ job[p].late => consumed
          /\ job[p].fresh \subseteq Registered
          /\ \A m \in job[p].fresh : m \in late => job[p].late
          /\ InStep(p, "shadowing") => job[p].target \in job[p].fresh
          /\ InStep(p, "challenging") => job[p].fresh = {}

(* A session's promise survives the steps of the others and of the registry.  *)
SessionInv(j) ==
    /\ j.at \in {"entering", "shadowing"} /\ j.late => consumed
    /\ j.fresh \subseteq Registered
    /\ \A m \in j.fresh : m \in late => j.late
    /\ j.at = "shadowing" => j.target \in j.fresh
    /\ j.at = "challenging" => j.fresh = {}

Only(p) == \A q \in Sessions \ {p} : job'[q] = job[q]

LEMMA GoOnly ==
    ASSUME RegistryTypeOK, NEW p \in Sessions, NEW j, Go(p, j)
    PROVE  job'[p] = j /\ Only(p)
  BY DEF RegistryTypeOK, Go, Only

LEMMA OthersKept ==
    ASSUME HeldOutInv, NEW p \in Sessions, Only(p),
           consumed => consumed', Registered \subseteq Registered',
           \A m \in Registered : m \in late' => m \in late,
           SessionInv(job[p])'
    PROVE  \A q \in Sessions : SessionInv(job[q])'
  BY DEF Only, HeldOutInv, SessionInv, InStep

LEMMA HeldOutParts ==
    HeldOutInv <=> /\ HeldOutUseIsRecorded
                   /\ late \subseteq Registered
                   /\ \A p \in Sessions : SessionInv(job[p])
  BY DEF HeldOutInv, SessionInv, InStep

(* The steps that leave the registry's rows and the protected period alone.   *)
LEMMA HeldOutQuiet ==
    ASSUME HeldOutInv, NEW p \in Sessions, Only(p), UNCHANGED db,
           \/ job'[p].fresh = {} /\ job'[p].at \notin {"entering", "shadowing"}
           \/ /\ job'[p].fresh = job[p].fresh /\ job'[p].late = job[p].late
              /\ job'[p].at \notin {"entering", "shadowing", "challenging"}
    PROVE  HeldOutInv'
  <1>1. /\ status' = status /\ late' = late /\ consumed' = consumed /\ Registered' = Registered
    BY DEF db, Registered
  <1>2. SessionInv(job[p])'
    BY <1>1 DEF SessionInv, HeldOutInv
  <1>3. \A q \in Sessions : SessionInv(job[q])'
    BY <1>1, <1>2, OthersKept
  <1>4. HeldOutUseIsRecorded' /\ (late \subseteq Registered)'
    BY <1>1 DEF HeldOutInv, HeldOutUseIsRecorded
  <1> QED BY <1>3, <1>4 DEF HeldOutInv, SessionInv, InStep

LEMMA HeldOutEnd ==
    ASSUME RegistryTypeOK, HeldOutInv, NEW p \in Sessions, EndCommand(p), UNCHANGED db
    PROVE  HeldOutInv'
  <1>1. Idle.at = "idle" /\ Idle.fresh = {}
    BY DEF Idle
  <1> QED BY <1>1, GoOnly, HeldOutQuiet DEF EndCommand

(* A set_status that starts no shadow, by a command that ends with it.        *)
LEMMA HeldOutWrite ==
    ASSUME RegistryTypeOK, HeldOutInv, NEW m \in Models, NEW to \in Statuses \ {"shadow"}, NEW by, NEW read,
           status[m] \in Statuses, Write(m, to, by, read), job' = job \/ \E p \in Sessions : EndCommand(p)
    PROVE  HeldOutInv'
  <1>1. /\ late' = late /\ consumed' = consumed
        /\ \A x \in Models : status'[x] = "shadow" => status[x] = "shadow"
    BY DEF Write
  <1>2. Registered \subseteq Registered'
    BY DEF Write, Registered, Statuses, RegistryTypeOK
  <1>3. \A q \in Sessions : SessionInv(job[q])'
    <2>1. CASE job' = job
      BY <1>1, <1>2, <2>1 DEF HeldOutInv, SessionInv, InStep
    <2>2. ASSUME NEW p \in Sessions, EndCommand(p) PROVE \A q \in Sessions : SessionInv(job[q])'
      <3>1. Idle.at = "idle" /\ Idle.fresh = {}
        BY DEF Idle
      <3>2. job'[p] = Idle /\ Only(p)
        BY <2>2, GoOnly DEF EndCommand
      <3>3. SessionInv(job[p])'
        BY <3>1, <3>2 DEF SessionInv
      <3> QED BY <1>1, <1>2, <3>2, <3>3, OthersKept
    <2> QED BY <2>1, <2>2
  <1>4. HeldOutUseIsRecorded' /\ (late \subseteq Registered)'
    BY <1>1, <1>2 DEF HeldOutInv, HeldOutUseIsRecorded, RegistryTypeOK
  <1> QED BY <1>3, <1>4 DEF HeldOutInv, SessionInv, InStep

LEMMA HeldOutStep == RegistryTypeOK /\ HeldOutInv /\ [RegistryNext]_registryVars => HeldOutInv'
  <1> SUFFICES ASSUME RegistryTypeOK, HeldOutInv, [RegistryNext]_registryVars PROVE HeldOutInv'
    OBVIOUS
  <1>a. \A p \in Sessions : job[p] \in LegalJob /\ SessionInv(job[p])
    BY DEF RegistryTypeOK, HeldOutInv, SessionInv, InStep
  <1>c. job \in [Sessions -> Job]
    BY DEF RegistryTypeOK, LegalJob
  <1>b. Idle.at = "idle" /\ Idle.fresh = {} /\ Idle \in LegalJob
    BY IdleType DEF Idle
  <1>d. Idle \in Job
    BY IdleType DEF LegalJob
  <1>1. CASE UNCHANGED registryVars
    <2>1. status' = status /\ late' = late /\ consumed' = consumed /\ job' = job
      BY <1>1 DEF registryVars, db
    <2> QED BY <2>1 DEF HeldOutInv, HeldOutUseIsRecorded, Registered, InStep
  <1>2. ASSUME NEW p \in Sessions, NEW s \in Strategies,
               Retrain(p, s) \/ \E ns \in SUBSET Names : Research(p, s, ns)
        PROVE  HeldOutInv'
    <2>1. Only(p) /\ job'[p].at \in {"training", "challenging"} /\ job'[p].fresh = {}
      <3>1. CASE \E ns \in SUBSET Names : Research(p, s, ns)
        BY <1>b, <1>c, <1>d, <3>1 DEF Research, Go, Only, Job
      <3>2. CASE Retrain(p, s)
        BY <1>b, <1>c, <1>d, <3>2 DEF Retrain, Go, Only, Job
      <3> QED BY <1>2, <3>1, <3>2
    <2> QED BY <1>2, <2>1, HeldOutQuiet DEF Research, Retrain
  <1>2a. ASSUME NEW p \in Sessions, NEW ns \in SUBSET Names, NEW reaches \in BOOLEAN, NEW consume \in BOOLEAN,
                RetrainTrain(p, ns, reaches, consume)
        PROVE  HeldOutInv'
    <2>1. Only(p) /\ job'[p].at = "training" /\ job'[p].fresh = job[p].fresh
      BY <1>c, <1>2a DEF RetrainTrain, Go, Only, Job
    <2>2. job[p].fresh = {}
      BY <1>2a, <1>a DEF RetrainTrain, InStep, SessionInv
    <2> QED BY <1>2a, <2>1, <2>2, HeldOutQuiet DEF RetrainTrain
  <1>3. ASSUME NEW p \in Sessions, NEW n \in Names,
               RegisterRead(p, n) \/ \E m \in Models : RegisterReused(p, n, m)
        PROVE  HeldOutInv'
    <2>1. /\ Only(p) /\ job'[p].at \in {"training", "registering"}
          /\ job'[p].fresh = job[p].fresh /\ job'[p].late = job[p].late
      <3>1. CASE RegisterRead(p, n)
        BY <1>c, <3>1 DEF RegisterRead, Go, Only, Job, InStep
      <3>2. CASE \E m \in Models : RegisterReused(p, n, m)
        BY <1>c, <3>2 DEF RegisterReused, Go, Only, Job, InStep
      <3> QED BY <1>3, <3>1, <3>2
    <2> QED BY <1>3, <2>1, HeldOutQuiet DEF RegisterRead, RegisterReused
  <1>4. ASSUME NEW p \in Sessions, NEW m \in Models, RegisterWrite(p, m)
        PROVE  HeldOutInv'
    <2>1. /\ Only(p) /\ job'[p].at = "training" /\ job'[p].fresh = job[p].fresh \union {m}
          /\ job'[p].late = job[p].late
      BY <1>4, <1>c DEF RegisterWrite, Go, Only, LegalJob, Job
    <2>2. /\ Registered' = Registered \union {m} /\ m \notin Registered /\ consumed' = consumed
          /\ late' = IF job[p].late THEN late \union {m} ELSE late
      BY <1>4, RegisterRows DEF RegisterWrite
    <2>3. \A x \in Models : status'[x] = "shadow" => status[x] = "shadow" /\ x # m
      BY <1>4 DEF RegisterWrite, RegistryTypeOK, Registered
    <2>4. SessionInv(job[p])'
      BY <1>a, <2>1, <2>2 DEF SessionInv, HeldOutInv
    <2>5. \A q \in Sessions : SessionInv(job[q])'
      BY <2>1, <2>2, <2>4, OthersKept
    <2>6. HeldOutUseIsRecorded' /\ (late \subseteq Registered)'
      BY <2>2, <2>3 DEF HeldOutInv, HeldOutUseIsRecorded, RegistryTypeOK
    <2> QED BY <2>5, <2>6 DEF HeldOutInv, SessionInv, InStep
  <1>5. ASSUME NEW p \in Sessions, RetrainRefused(p) \/ VersionTaken(p) \/ Trained(p) \/ Retrained(p) \/ KillSession(p)
        PROVE  HeldOutInv'
    <2>1. CASE EndCommand(p)
      BY <1>5, <2>1, HeldOutEnd DEF RetrainRefused, VersionTaken, Trained, Retrained, KillSession
    <2>2. CASE Go(p, [job[p] EXCEPT !.at = "consuming"])
      <3>1. /\ Only(p) /\ job'[p].at = "consuming" /\ job'[p].fresh = job[p].fresh
            /\ job'[p].late = job[p].late
        BY <1>c, <2>2 DEF Go, Only, LegalJob, Job
      <3> QED BY <1>5, <3>1, HeldOutQuiet DEF RetrainRefused, VersionTaken, Trained, Retrained, KillSession
    <2> QED BY <1>5, <2>1, <2>2 DEF RetrainRefused, VersionTaken, Trained, Retrained, KillSession
  <1>6. ASSUME NEW p \in Sessions, Consume(p)
        PROVE  HeldOutInv'
    <2>1. /\ Only(p) /\ job'[p].at = "entering" /\ job'[p].fresh = job[p].fresh
          /\ job'[p].late = job[p].late
      BY <1>c, <1>6 DEF Consume, Go, Only, LegalJob, Job
    <2>2. /\ status' = status /\ late' = late /\ Registered' = Registered
          /\ (consumed => consumed') /\ (job[p].late => consumed')
      BY <1>6 DEF Consume, Registered, UsesHeldOut
    <2>3. SessionInv(job[p])'
      BY <1>a, <2>1, <2>2 DEF SessionInv
    <2>4. \A q \in Sessions : SessionInv(job[q])'
      BY <2>1, <2>2, <2>3, OthersKept
    <2> QED BY <2>2, <2>4 DEF HeldOutInv, HeldOutUseIsRecorded, SessionInv, InStep
  <1>7. ASSUME NEW p \in Sessions, NEW m \in Models, LogAttempt(p, m)
        PROVE  HeldOutInv'
    <2>1. /\ Only(p) /\ job'[p].at = "shadowing" /\ job'[p].fresh = job[p].fresh
          /\ job'[p].late = job[p].late /\ job'[p].target = m
      BY <1>c, <1>7 DEF LogAttempt, Go, Only, LegalJob, Job
    <2>2. status' = status /\ late' = late /\ consumed' = consumed /\ Registered' = Registered
      BY <1>7 DEF LogAttempt, Registered
    <2>3. SessionInv(job[p])'
      BY <1>a, <1>7, <2>1, <2>2 DEF SessionInv, LogAttempt, InStep
    <2>4. \A q \in Sessions : SessionInv(job[q])'
      BY <2>1, <2>2, <2>3, OthersKept
    <2> QED BY <2>2, <2>4 DEF HeldOutInv, HeldOutUseIsRecorded, SessionInv, InStep
  <1>8. ASSUME NEW p \in Sessions, StartShadow(p)
        PROVE  HeldOutInv'
    <2> DEFINE m == job[p].target
    <2>1. CASE Refused(p, m, "shadow")
      BY <2>1, HeldOutEnd DEF Refused
    <2>2. ASSUME SetStatus(p, m, "shadow", "retrain", 0),
                 Go(p, [job[p] EXCEPT !.at = "entering", !.target = NoModel, !.fresh = @ \ {m}])
          PROVE  HeldOutInv'
      <3>1. /\ Only(p) /\ job'[p].at = "entering" /\ job'[p].fresh = job[p].fresh \ {m}
            /\ job'[p].late = job[p].late
        BY <1>c, <2>2 DEF Go, Only, LegalJob, Job
      <3>2. m \in job[p].fresh /\ (job[p].late => consumed) /\ (m \in late => consumed)
        BY <1>a, <1>8 DEF SessionInv, StartShadow, InStep
      <3>3. /\ late' = late /\ consumed' = consumed
            /\ \A x \in Models : status'[x] = "shadow" => status[x] = "shadow" \/ x = m
        BY <2>2 DEF SetStatus, Write
      <3>4. Registered' = Registered
        <4>1. m \in Models /\ "shadow" \in Statuses /\ "retrain" \in Commands
          BY <1>a, <1>8 DEF Statuses, Commands, LegalJob, StartShadow, InStep
        <4> QED BY <2>2, <4>1, TypeParts, SetStatusWrites, WriteType
      <3>5. SessionInv(job[p])'
        BY <1>a, <3>1, <3>2, <3>3, <3>4 DEF SessionInv
      <3>6. \A q \in Sessions : SessionInv(job[q])'
        BY <3>1, <3>3, <3>4, <3>5, OthersKept
      <3>7. HeldOutUseIsRecorded' /\ (late \subseteq Registered)'
        BY <3>2, <3>3, <3>4 DEF HeldOutInv, HeldOutUseIsRecorded, RegistryTypeOK
      <3> QED BY <3>6, <3>7 DEF HeldOutInv, SessionInv, InStep
    <2> QED BY <1>8, <2>1, <2>2 DEF StartShadow
  <1>9. ASSUME NEW p \in Sessions, Promote(p) \/ Rollback(p) \/ InitCount(p)
        PROVE  HeldOutInv'
    <2>1. job[p].target \in Models /\ "champion" \in Statuses \ {"shadow"}
      BY <1>a, <1>9 DEF LegalJob, Job, Promote, Rollback, InitCount, InStep, Statuses
    <2>2. CASE Go(p, [job[p] EXCEPT !.at = "counted"]) /\ UNCHANGED db
      <3>1. /\ Only(p) /\ job'[p].at = "counted" /\ job'[p].fresh = job[p].fresh
            /\ job'[p].late = job[p].late
        BY <1>c, <2>2 DEF Go, Only, Job
      <3> QED BY <2>2, <3>1, HeldOutQuiet
    <2> QED BY <1>9, <2>1, <2>2, HeldOutEnd, HeldOutWrite, SetStatusWrites
            DEF Promote, Rollback, InitCount, Refused
  <1>10. ASSUME NEW p \in Sessions, InitCrown(p) \/ \E m \in Models : Reject(p, m)
        PROVE  HeldOutInv'
    <2>1. CASE InitCrown(p)
      <3>1. job[p].target \in Models /\ status[job[p].target] \in Statuses
        BY <1>a, <2>1 DEF RegistryTypeOK, Touches, Registered, LegalJob, InitCrown, InStep
      <3> QED BY <2>1, <3>1, HeldOutWrite DEF InitCrown, Statuses
    <2>2. CASE \E m \in Models : Reject(p, m)
      BY <2>2, HeldOutWrite, SetStatusWrites DEF Reject, Statuses
    <2> QED BY <1>10, <2>1, <2>2
  <1>11. ASSUME NEW p \in Sessions,
                \/ \E m \in Models : Compare(p, m)
                \/ \E s \in Strategies : RollbackChampion(p, s) \/ InitCheck(p, s)
        PROVE  HeldOutInv'
    <2>1. Only(p) /\ job'[p].at \in {"comparing", "rollingback", "picking"} /\ job'[p].fresh = {}
      <3>1. CASE \E m \in Models : Compare(p, m)
        BY <1>b, <1>c, <1>d, <3>1 DEF Compare, Go, Only, Job
      <3>2. CASE \E s \in Strategies : RollbackChampion(p, s)
        BY <1>b, <1>c, <1>d, <3>2 DEF RollbackChampion, Go, Only, Job
      <3>3. CASE \E s \in Strategies : InitCheck(p, s)
        BY <1>b, <1>c, <1>d, <3>3 DEF InitCheck, Go, Only, Job
      <3> QED BY <1>11, <3>1, <3>2, <3>3
    <2> QED BY <1>11, <2>1, HeldOutQuiet DEF Compare, RollbackChampion, InitCheck
  <1>12. ASSUME NEW p \in Sessions, CompareChampion(p) \/ RollbackRecall(p) \/ RollbackLog(p) \/ InitPick(p)
        PROVE  HeldOutInv'
    <2>1. CASE EndCommand(p)
      BY <1>12, <2>1, HeldOutEnd DEF CompareChampion, RollbackLog, InitPick, RollbackRecall
    <2>2. CASE ~EndCommand(p)
      <3>1. /\ Only(p) /\ job'[p].at \in {"promoting", "recalling", "restoring", "crowning"}
            /\ job'[p].fresh = job[p].fresh /\ job'[p].late = job[p].late
        <4>1. CASE CompareChampion(p)
          BY <1>c, <2>2, <4>1 DEF CompareChampion, Go, Only, Job
        <4>2. CASE RollbackRecall(p)
          BY <1>c, <2>2, <4>2 DEF RollbackRecall, Go, Only, Job
        <4>3. CASE RollbackLog(p)
          BY <1>c, <2>2, <4>3 DEF RollbackLog, Go, Only, Job
        <4>4. CASE InitPick(p)
          BY <1>c, <2>2, <4>4 DEF InitPick, Go, Only, Job
        <4> QED BY <1>12, <4>1, <4>2, <4>3, <4>4
      <3> QED BY <1>12, <3>1, HeldOutQuiet DEF CompareChampion, RollbackRecall, RollbackLog, InitPick
    <2> QED BY <2>1, <2>2
  <1> QED BY <1>1, <1>2, <1>2a, <1>3, <1>4, <1>5, <1>6, <1>7, <1>8, <1>9, <1>10, <1>11, <1>12 DEF RegistryNext

(* retrain.py:7-8: no challenger trained on the protected period is in shadow *)
(* before the use of the period is recorded, whatever is killed half-way.     *)
THEOREM HeldOutUseIsRecordedAlways == RegistrySpec => []HeldOutUseIsRecorded
  <1>1. RegistryInit => HeldOutInv
    BY DEF RegistryInit, HeldOutInv, HeldOutUseIsRecorded, Registered, InStep, Idle
  <1>2. RegistryTypeOK /\ HeldOutInv /\ [RegistryNext]_registryVars => HeldOutInv'
    BY HeldOutStep
  <1>3. HeldOutInv => HeldOutUseIsRecorded
    BY DEF HeldOutInv
  <1> QED BY <1>1, <1>2, <1>3, TypeCorrect, PTL DEF RegistrySpec

(* The rows of the registry stay consistent between any two transactions.     *)
THEOREM RegistryIsConsistentAlways == RegistrySpec => []RegistryIsConsistent
  BY TypeCorrect, OneChampionAlways, VersionsAreUniqueAlways, PTL DEF RegistryIsConsistent

-----------------------------------------------------------------------------
(* Championships are earned.  That a promoted model was in shadow when it was *)
(* compared, and that a rollback takes a former champion, rests on what the   *)
(* session read some steps before it writes: the promise is carried by the    *)
(* sessions under way, and by the log, where a model loses only a title it    *)
(* was given.                                                                 *)

Logged(m, st) == \E i \in 1..Len(log) : \E c \in log[i] : c.model = m /\ c.to = st

\* m was in shadow when the log had k transactions, and the log tells so.
SawShadow(m, k) == k \in 0..Len(log) /\ LoggedAs(m, k, "shadow")

\* What the log told before a step it tells after it.
LogKept ==
    /\ \A m, st : Logged(m, st) => Logged(m, st)'
    /\ \A m, k : SawShadow(m, k) => SawShadow(m, k)'

TitlesAreLogged ==
    \A i \in 1..Len(log) : \A c \in log[i] :
        c.from = "champion" =>
            \E j \in 1..(i-1) : \E d \in log[j] : d.model = c.model /\ d.to = "champion"

Earning(j) ==
    /\ j.at \in {"comparing", "promoting"} => SawShadow(j.target, j.read)
    /\ j.at = "restoring" => Logged(j.target, "champion")

EarnedInv == ChampionsAreEarned /\ TitlesAreLogged /\ \A p \in Sessions : Earning(job[p])

(* A row that is about to be written rests on rows already in the log.        *)
Founded(c) ==
    /\ c.by = "promote" /\ c.to = "champion" => SawShadow(c.model, c.read)
    /\ c.by = "rollback" /\ c.to = "champion" => Logged(c.model, "champion")
    /\ c.from = "champion" => Logged(c.model, "champion")

(* A model that has a status other than none has had it logged.               *)
LEMMA StatusIsLogged ==
    ASSUME LogTellsStatus, NEW m \in Models, status[m] # "none"
    PROVE  Logged(m, status[m])
  BY DEF LogTellsStatus, Logged

LEMMA ShadowIsSeen ==
    ASSUME RegistryTypeOK, LogTellsStatus, NEW m \in Models, status[m] = "shadow"
    PROVE  SawShadow(m, Len(log))
  <1>1. Len(log) \in Nat
    BY DEF RegistryTypeOK
  <1> QED BY <1>1 DEF LogTellsStatus, SawShadow, LoggedAs

LEMMA EarnedAppend ==
    ASSUME RegistryTypeOK, ChampionsAreEarned, TitlesAreLogged, NEW R, log' = Append(log, R),
           \A c \in R : Founded(c)
    PROVE  ChampionsAreEarned' /\ TitlesAreLogged' /\ LogKept
  <1>1. /\ Len(log) \in Nat /\ Len(log') = Len(log) + 1
        /\ \A i \in 1..Len(log) : log'[i] = log[i]
        /\ log'[Len(log) + 1] = R
    BY DEF RegistryTypeOK
  <1>2. \A i \in 1..Len(log') : i \in 1..Len(log) \/ i = Len(log) + 1
    BY <1>1
  <1>3. \A i \in 1..Len(log') : \A j \in 1..(i-1) : j \in 1..Len(log)
    BY <1>1
  <1>4. \A i \in 1..Len(log) : i \in 1..Len(log')
    BY <1>1
  <1>5. 1..((Len(log) + 1) - 1) = 1..Len(log)
    BY <1>1
  <1>6. ASSUME NEW m, NEW k \in 0..Len(log), LoggedAs(m, k, "shadow") PROVE LoggedAs(m, k, "shadow")'
    <2>1. \A n \in 1..k : log'[n] = log[n]
      BY <1>1
    <2>2. \A j \in 1..k : \A n \in (j+1)..k : log'[n] = log[n]
      BY <1>1
    <2> QED BY <1>6, <2>1, <2>2 DEF LoggedAs
  <1>7. ASSUME NEW i \in 1..Len(log'), NEW c \in log'[i]
        PROVE  /\ c.by = "promote" /\ c.to = "champion" =>
                     c.read < i /\ LoggedAs(c.model, c.read, "shadow")'
               /\ c.by = "rollback" /\ c.to = "champion" =>
                     \E j \in 1..(i-1) : \E d \in log'[j] : d.model = c.model /\ d.to = "champion"
               /\ c.from = "champion" =>
                     \E j \in 1..(i-1) : \E d \in log'[j] : d.model = c.model /\ d.to = "champion"
    <2>1. CASE i = Len(log) + 1
      <3>1. Founded(c)
        BY <1>1, <1>7, <2>1
      <3>2. c.by = "promote" /\ c.to = "champion" =>
                c.read < i /\ LoggedAs(c.model, c.read, "shadow")'
        BY <1>1, <1>6, <2>1, <3>1 DEF Founded, SawShadow
      <3> QED BY <1>1, <1>5, <2>1, <3>1, <3>2 DEF Founded, Logged
    <2>2. CASE i \in 1..Len(log)
      <3>1. c \in log[i] /\ \A j \in 1..(i-1) : log'[j] = log[j]
        BY <1>1, <1>3, <1>4, <1>7, <2>2
      <3>2. c.read \in Nat
        BY <2>2, <3>1 DEF RegistryTypeOK, Change
      <3>3. c.by = "promote" /\ c.to = "champion" =>
                c.read < i /\ LoggedAs(c.model, c.read, "shadow")
        BY <2>2, <3>1 DEF ChampionsAreEarned, PromotedFromShadow
      <3>4. c.read < i => c.read \in 0..Len(log)
        BY <1>1, <2>2, <3>2
      <3>5. c.by = "promote" /\ c.to = "champion" =>
                c.read < i /\ LoggedAs(c.model, c.read, "shadow")'
        BY <1>6, <3>3, <3>4
      <3> QED BY <2>2, <3>1, <3>5 DEF ChampionsAreEarned, RollbackRestoresAChampion, TitlesAreLogged
    <2> QED BY <1>2, <2>1, <2>2
  <1>8. ChampionsAreEarned' /\ TitlesAreLogged'
    <2>1. PromotedFromShadow'
      BY <1>7 DEF PromotedFromShadow
    <2> QED BY <1>7, <2>1 DEF ChampionsAreEarned, RollbackRestoresAChampion, TitlesAreLogged
  <1>9. \A m, st : Logged(m, st) => Logged(m, st)'
    BY <1>1, <1>4 DEF Logged
  <1>10. ASSUME NEW m, NEW k, SawShadow(m, k) PROVE SawShadow(m, k)'
    BY <1>1, <1>6, <1>10 DEF SawShadow
  <1> QED BY <1>8, <1>9, <1>10 DEF LogKept

(* set_status: its rows take a title only from a model that is champion.      *)
LEMMA EarnedWrite ==
    ASSUME RegistryTypeOK, LogTellsStatus, EarnedInv,
           NEW m \in Models, NEW to \in Statuses, NEW by, NEW read,
           status[m] \in Statuses, Write(m, to, by, read),
           by = "promote" /\ to = "champion" => SawShadow(m, read),
           by = "rollback" /\ to = "champion" => Logged(m, "champion")
    PROVE  ChampionsAreEarned' /\ TitlesAreLogged' /\ LogKept
  <1> DEFINE R == Rows(m, to, by, read)
  <1>1. log' = Append(log, R)
    BY DEF Write
  <1>2. \A x \in Replaced(m, to) : x \in Models /\ status[x] = "champion"
    BY DEF Replaced, Champions, WithStatus
  <1>3. Logged(m, status[m])
    BY StatusIsLogged DEF Statuses
  <1>4. \A x \in Replaced(m, to) : Logged(x, "champion")
    BY <1>2, StatusIsLogged
  <1>5. ASSUME NEW c \in R PROVE Founded(c)
    <2>1. CASE c = Row(m, status[m], to, by, read)
      BY <1>3, <2>1 DEF Row, Founded
    <2>2. CASE \E x \in Replaced(m, to) : c = Row(x, "champion", "retired", by, 0)
      BY <1>4, <2>2 DEF Row, Founded
    <2> QED BY <2>1, <2>2 DEF Rows
  <1> HIDE DEF R
  <1> QED BY <1>1, <1>5, EarnedAppend DEF EarnedInv

LEMMA LogUnchanged ==
    ASSUME EarnedInv, log' = log
    PROVE  ChampionsAreEarned' /\ TitlesAreLogged' /\ LogKept
  BY DEF EarnedInv, ChampionsAreEarned, PromotedFromShadow, RollbackRestoresAChampion, TitlesAreLogged,
         Logged, LogKept, SawShadow, LoggedAs

(* A session goes on; the others keep what they have read.                    *)
LEMMA EarnedGo ==
    ASSUME RegistryTypeOK, EarnedInv, NEW p \in Sessions, NEW j, Go(p, j), LogKept,
           ChampionsAreEarned', TitlesAreLogged', Earning(j)'
    PROVE  EarnedInv'
  <1>1. job'[p] = j /\ Only(p)
    BY GoOnly
  <1>2. ASSUME NEW q \in Sessions PROVE Earning(job[q])'
    <2>1. CASE q = p
      <3>1. Earning(j)' <=> Earning(job[p])'
        BY <1>1 DEF Earning
      <3> QED BY <2>1, <3>1
    <2>2. CASE q # p
      BY <1>1, <2>2 DEF Only, EarnedInv, Earning, LogKept
    <2> QED BY <2>1, <2>2
  <1> QED BY <1>2 DEF EarnedInv

(* A step that leaves the registry alone.                                     *)
LEMMA EarnedQuiet ==
    ASSUME RegistryTypeOK, EarnedInv, NEW p \in Sessions, NEW j, Go(p, j), log' = log, Earning(j)
    PROVE  EarnedInv'
  <1>1. ChampionsAreEarned' /\ TitlesAreLogged' /\ LogKept
    BY LogUnchanged
  <1>2. Earning(j)'
    BY <1>1 DEF Earning, LogKept
  <1> QED BY <1>1, <1>2, EarnedGo

LEMMA EarnedAway ==
    ASSUME EarnedInv, NEW p \in Sessions, Only(p), log' = log,
           job'[p].at \notin {"comparing", "promoting", "restoring"}
    PROVE  EarnedInv'
  <1>1. ChampionsAreEarned' /\ TitlesAreLogged' /\ LogKept
    BY LogUnchanged
  <1> QED BY <1>1 DEF EarnedInv, Earning, Only, LogKept

LEMMA IdleEarnsNothing == Earning(Idle) /\ Earning(Idle)'
  BY DEF Earning, Idle

LEMMA EarnedSetStatus ==
    ASSUME RegistryTypeOK, LogTellsStatus, EarnedInv, NEW p \in Sessions, NEW j, Go(p, j), Earning(j)' \/ j.at = "entering",
           NEW m \in Models, NEW to \in Statuses, NEW by, NEW read, SetStatus(p, m, to, by, read),
           by = "promote" /\ to = "champion" => SawShadow(m, read),
           by = "rollback" /\ to = "champion" => Logged(m, "champion")
    PROVE  EarnedInv'
  <1>1. status[m] \in Statuses /\ Write(m, to, by, read)
    BY SetStatusWrites
  <1>2. Earning(j)'
    BY DEF Earning
  <1> QED BY <1>1, <1>2, EarnedWrite, EarnedGo

LEMMA EarnedStep == RegistryTypeOK /\ LogTellsStatus /\ EarnedInv /\ [RegistryNext]_registryVars => EarnedInv'
  <1> SUFFICES ASSUME RegistryTypeOK, LogTellsStatus, EarnedInv, [RegistryNext]_registryVars PROVE EarnedInv'
    OBVIOUS
  <1>a. \A p \in Sessions : job[p] \in LegalJob /\ job[p] \in Job /\ Earning(job[p])
    BY DEF RegistryTypeOK, LegalJob, EarnedInv
  <1>b. /\ {"shadow", "champion", "retired"} \subseteq Statuses
        /\ Idle \in Job
    BY IdleType DEF Statuses, LegalJob
  <1>c. UNCHANGED db => log' = log
    BY DEF db
  <1>d. job \in [Sessions -> Job]
    BY DEF RegistryTypeOK, LegalJob
  <1>1. CASE UNCHANGED registryVars
    <2>1. log' = log /\ job' = job
      BY <1>1 DEF registryVars, db
    <2>2. ChampionsAreEarned' /\ TitlesAreLogged' /\ LogKept
      BY <2>1, LogUnchanged
    <2> QED BY <2>1, <2>2 DEF EarnedInv, Earning, LogKept
  <1>2. ASSUME NEW p \in Sessions, EndCommand(p), log' = log
        PROVE  EarnedInv'
    BY <1>2, IdleEarnsNothing, EarnedQuiet DEF EndCommand
  <1>3. ASSUME NEW p \in Sessions, NEW s \in Strategies,
               \/ \E ns \in SUBSET Names : Research(p, s, ns)
               \/ Retrain(p, s) \/ RollbackChampion(p, s) \/ InitCheck(p, s)
        PROVE  EarnedInv'
    <2>1. Only(p) /\ job'[p].at \in {"training", "challenging", "rollingback", "picking"}
      <3>1. CASE \E ns \in SUBSET Names : Research(p, s, ns)
        BY <1>b, <1>d, <3>1 DEF Research, Go, Only, Job
      <3>2. CASE Retrain(p, s)
        BY <1>b, <1>d, <3>2 DEF Retrain, Go, Only, Job
      <3>3. CASE RollbackChampion(p, s)
        BY <1>b, <1>d, <3>3 DEF RollbackChampion, Go, Only, Job
      <3>4. CASE InitCheck(p, s)
        BY <1>b, <1>d, <3>4 DEF InitCheck, Go, Only, Job
      <3> QED BY <1>3, <3>1, <3>2, <3>3, <3>4
    <2> QED BY <1>3, <1>c, <2>1, EarnedAway DEF Research, Retrain, RollbackChampion, InitCheck
  <1>4. ASSUME NEW p \in Sessions,
               \/ \E ns \in SUBSET Names, reaches, consume \in BOOLEAN : RetrainTrain(p, ns, reaches, consume)
               \/ \E n \in Names, m \in Models : RegisterReused(p, n, m)
               \/ \E n \in Names : RegisterRead(p, n)
               \/ Consume(p) \/ \E m \in Models : LogAttempt(p, m)
               \/ RollbackRecall(p)
        PROVE  EarnedInv'
    <2>1. /\ Only(p)
          /\ job'[p].at \in {"training", "registering", "entering", "shadowing", "recalling"}
      <3>1. CASE \E ns \in SUBSET Names, reaches, consume \in BOOLEAN : RetrainTrain(p, ns, reaches, consume)
        BY <1>d, <3>1 DEF RetrainTrain, Go, Only, Job
      <3>2. CASE \E n \in Names, m \in Models : RegisterReused(p, n, m)
        BY <1>d, <3>2 DEF RegisterReused, Go, Only, Job, InStep
      <3>3. CASE \E n \in Names : RegisterRead(p, n)
        BY <1>d, <3>3 DEF RegisterRead, Go, Only, Job
      <3>4. CASE Consume(p)
        BY <1>d, <3>4 DEF Consume, Go, Only, Job
      <3>5. CASE \E m \in Models : LogAttempt(p, m)
        BY <1>d, <3>5 DEF LogAttempt, Go, Only, Job
      <3>6. CASE RollbackRecall(p)
        BY <1>d, <3>6 DEF RollbackRecall, Go, Only, Job
      <3> QED BY <1>4, <3>1, <3>2, <3>3, <3>4, <3>5, <3>6
    <2> QED BY <1>4, <1>c, <2>1, EarnedAway
            DEF RetrainTrain, RegisterReused, RegisterRead, Consume, LogAttempt, RollbackRecall
  <1>5. ASSUME NEW p \in Sessions, RetrainRefused(p) \/ VersionTaken(p) \/ Retrained(p) \/ KillSession(p)
        PROVE  EarnedInv'
    BY <1>2, <1>5, <1>c DEF RetrainRefused, VersionTaken, Retrained, KillSession
  <1>6. ASSUME NEW p \in Sessions, Trained(p)
        PROVE  EarnedInv'
    <2>1. CASE Go(p, [job[p] EXCEPT !.at = "consuming"])
      <3>1. Earning([job[p] EXCEPT !.at = "consuming"])
        BY <1>a DEF Earning, Job
      <3> QED BY <1>6, <1>c, <2>1, <3>1, EarnedQuiet DEF Trained
    <2> QED BY <1>2, <1>6, <1>c, <2>1 DEF Trained
  <1>7. ASSUME NEW p \in Sessions, NEW m \in Models, Compare(p, m)
        PROVE  EarnedInv'
    <2> DEFINE j == [Idle EXCEPT !.at = "comparing", !.target = m, !.read = Len(log)]
    <2>1. SawShadow(m, Len(log))
      BY <1>7, ShadowIsSeen DEF Compare, OnlyShadow
    <2>2. Earning(j)
      <3>1. j.at = "comparing" /\ j.target = m /\ j.read = Len(log)
        BY <1>b DEF Job
      <3> HIDE DEF j
      <3> QED BY <2>1, <3>1 DEF Earning
    <2>3. Go(p, j)
      BY <1>7 DEF Compare
    <2> QED BY <1>7, <1>c, <2>2, <2>3, EarnedQuiet DEF Compare
  <1>8. ASSUME NEW p \in Sessions, CompareChampion(p)
        PROVE  EarnedInv'
    <2> DEFINE j == [job[p] EXCEPT !.at = "promoting"]
    <2>1. CASE Go(p, j)
      <3>1. Earning(j)
        BY <1>8, <1>a DEF Earning, Job, CompareChampion, InStep
      <3> QED BY <1>8, <1>c, <2>1, <3>1, EarnedQuiet DEF CompareChampion
    <2> QED BY <1>2, <1>8, <1>c, <2>1 DEF CompareChampion
  <1>9. ASSUME NEW p \in Sessions, RollbackLog(p)
        PROVE  EarnedInv'
    <2> DEFINE s == job[p].strategy
               cur == job[p].target
    <2>1. ASSUME NEW m \in Models, IsPreviousChampion(m, s, cur),
                 Go(p, [job[p] EXCEPT !.at = "restoring", !.target = m])
          PROVE  EarnedInv'
      <3>1. PICK i \in 1..Len(log) : \E c \in log[i] : c.from = "champion" /\ c.model = m
        BY <2>1 DEF IsPreviousChampion, Dethroned
      <3>2. \A k \in 1..(i-1) : k \in 1..Len(log)
        BY DEF RegistryTypeOK
      <3>3. Logged(m, "champion")
        BY <3>1, <3>2 DEF EarnedInv, TitlesAreLogged, Logged
      <3>4. Earning([job[p] EXCEPT !.at = "restoring", !.target = m])
        BY <1>a, <3>3 DEF Earning, Job
      <3> QED BY <1>9, <1>c, <2>1, <3>4, EarnedQuiet DEF RollbackLog
    <2> QED BY <1>2, <1>9, <1>c, <2>1 DEF RollbackLog
  <1>10. ASSUME NEW p \in Sessions, InitPick(p)
        PROVE  EarnedInv'
    <2>1. ASSUME NEW m \in Models, Go(p, [job[p] EXCEPT !.at = "crowning", !.target = m])
          PROVE  EarnedInv'
      <3>1. Earning([job[p] EXCEPT !.at = "crowning", !.target = m])
        BY <1>a DEF Earning, Job
      <3> QED BY <1>10, <1>c, <2>1, <3>1, EarnedQuiet DEF InitPick
    <2> QED BY <1>2, <1>10, <1>c, <2>1 DEF InitPick, CardCandidates, WithStatus
  <1>11. ASSUME NEW p \in Sessions, NEW m \in Models, RegisterWrite(p, m)
         PROVE  EarnedInv'
    <2> DEFINE R == {Row(m, "none", "candidate", "registry", 0)}
                      \union {Row(x, "candidate", "retired", "registry", 0) : x \in job[p].cands}
    <2>1. log' = Append(log, R) /\ Only(p) /\ job'[p].at = "training"
      BY <1>11, <1>d DEF RegisterWrite, Go, Only, Job
    <2>2. \A c \in R : Founded(c)
      BY DEF Founded, Row
    <2> HIDE DEF R
    <2>3. ChampionsAreEarned' /\ TitlesAreLogged' /\ LogKept
      BY <2>1, <2>2, EarnedAppend DEF EarnedInv
    <2> QED BY <2>1, <2>3 DEF EarnedInv, Earning, Only, LogKept
  <1>12. ASSUME NEW p \in Sessions, StartShadow(p)
         PROVE  EarnedInv'
    <2> DEFINE m == job[p].target
               j == [job[p] EXCEPT !.at = "entering", !.target = NoModel, !.fresh = @ \ {m}]
    <2>1. CASE Refused(p, m, "shadow")
      BY <1>2, <1>c, <2>1 DEF Refused
    <2>2. CASE SetStatus(p, m, "shadow", "retrain", 0) /\ Go(p, j)
      <3>1. m \in Models /\ j.at = "entering"
        BY <1>12, <1>a DEF StartShadow, InStep, LegalJob, Job
      <3> HIDE DEF m, j
      <3> QED BY <1>b, <2>2, <3>1, EarnedSetStatus
    <2> QED BY <1>12, <2>1, <2>2 DEF StartShadow
  <1>13. ASSUME NEW p \in Sessions, Promote(p)
         PROVE  EarnedInv'
    <2>1. CASE Refused(p, job[p].target, "champion")
      BY <1>2, <1>c, <2>1 DEF Refused
    <2>2. CASE SetStatus(p, job[p].target, "champion", "promote", job[p].read) /\ EndCommand(p)
      <3>1. job[p].target \in Models /\ SawShadow(job[p].target, job[p].read)
        BY <1>13, <1>a DEF Promote, InStep, LegalJob, Earning
      <3> QED BY <1>b, <2>2, <3>1, IdleEarnsNothing, EarnedSetStatus DEF EndCommand
    <2> QED BY <1>13, <2>1, <2>2 DEF Promote
  <1>14. ASSUME NEW p \in Sessions, Rollback(p)
         PROVE  EarnedInv'
    <2>1. CASE Refused(p, job[p].target, "champion")
      BY <1>2, <1>c, <2>1 DEF Refused
    <2>2. CASE SetStatus(p, job[p].target, "champion", "rollback", 0) /\ EndCommand(p)
      <3>1. job[p].target \in Models /\ Logged(job[p].target, "champion")
        BY <1>14, <1>a DEF Rollback, InStep, LegalJob, Earning
      <3> QED BY <1>b, <2>2, <3>1, IdleEarnsNothing, EarnedSetStatus DEF EndCommand
    <2> QED BY <1>14, <2>1, <2>2 DEF Rollback
  <1>15. ASSUME NEW p \in Sessions, NEW m \in Models, Reject(p, m)
         PROVE  EarnedInv'
    <2>1. status[m] \in Statuses /\ Write(m, "retired", "reject", 0) /\ job' = job
      BY <1>15, <1>b, SetStatusWrites DEF Reject
    <2>2. ChampionsAreEarned' /\ TitlesAreLogged' /\ LogKept
      BY <1>b, <2>1, EarnedWrite
    <2> QED BY <2>1, <2>2 DEF EarnedInv, Earning, LogKept
  <1>16. ASSUME NEW p \in Sessions, InitCount(p)
         PROVE  EarnedInv'
    <2>1. CASE Refused(p, job[p].target, "champion")
      BY <1>2, <1>c, <2>1 DEF Refused
    <2>2. CASE SetStatus(p, job[p].target, "champion", "init", 0) /\ EndCommand(p)
      <3>1. job[p].target \in Models
        BY <1>16, <1>a DEF InitCount, InStep, LegalJob
      <3> QED BY <1>b, <2>2, <3>1, IdleEarnsNothing, EarnedSetStatus DEF EndCommand
    <2>3. CASE Go(p, [job[p] EXCEPT !.at = "counted"]) /\ UNCHANGED db
      <3>1. Earning([job[p] EXCEPT !.at = "counted"])
        BY <1>a DEF Earning, Job
      <3> QED BY <1>c, <2>3, <3>1, EarnedQuiet
    <2> QED BY <1>16, <2>1, <2>2, <2>3 DEF InitCount
  <1>17. ASSUME NEW p \in Sessions, InitCrown(p)
         PROVE  EarnedInv'
    <2>1. /\ job[p].target \in Models /\ status[job[p].target] \in Statuses
          /\ Write(job[p].target, "champion", "init", 0) /\ EndCommand(p)
      BY <1>17, <1>a DEF RegistryTypeOK, Touches, Registered, LegalJob, InitCrown, InStep
    <2>2. ChampionsAreEarned' /\ TitlesAreLogged' /\ LogKept
      BY <1>b, <2>1, EarnedWrite
    <2> QED BY <2>1, <2>2, IdleEarnsNothing, EarnedGo DEF EndCommand
  <1> QED BY <1>1, <1>3, <1>4, <1>5, <1>6, <1>7, <1>8, <1>9, <1>10, <1>11, <1>12, <1>13, <1>14, <1>15,
             <1>16, <1>17 DEF RegistryNext

(* registry.py:6: a promoted challenger was in shadow when it was compared,   *)
(* and a rollback takes a model that was champion before, whatever sessions   *)
(* interleave.                                                                *)
THEOREM ChampionsAreEarnedAlways == RegistrySpec => []ChampionsAreEarned
  <1>1. RegistryInit => EarnedInv
    <2>1. Len(<<>>) = 0 /\ 1..0 = {}
      OBVIOUS
    <2> QED BY <2>1, IdleEarnsNothing DEF RegistryInit, EarnedInv, ChampionsAreEarned, PromotedFromShadow,
                                          RollbackRestoresAChampion, TitlesAreLogged
  <1>2. RegistryTypeOK /\ LogTellsStatus /\ EarnedInv /\ [RegistryNext]_registryVars => EarnedInv'
    BY EarnedStep
  <1>3. EarnedInv => ChampionsAreEarned
    BY DEF EarnedInv
  <1> QED BY <1>1, <1>2, <1>3, TypeCorrect, LogTellsStatusAlways, PTL DEF RegistrySpec
=============================================================================
