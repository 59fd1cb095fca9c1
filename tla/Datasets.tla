------------------------------ MODULE Datasets ------------------------------
(***************************************************************************)
(* The training sets of one name (features/dataset.py, backtest/runner.py) *)
(* and the prune of their files (paper/backup.py).  A version is a row of  *)
(* the table datasets and a Parquet file.  The commands that build and     *)
(* train hold no common lock: a build is cut where it has read the rows,   *)
(* where it has put the file in place and where it inserts its row; a      *)
(* training keeps the frame in memory until it registers its model; the    *)
(* prune deletes files inside its transaction.  A process may be killed at *)
(* every cut.                                                              *)
(*                                                                         *)
(* What a frame holds is a pair: the configuration that was hashed and the *)
(* data it was computed from.  The bytes of a file depend on the Parquet   *)
(* library too.                                                            *)
(***************************************************************************)
EXTENDS Integers, Sequences, FiniteSets

CONSTANTS
    Trainers,               \* processes that build, read and train
    Configs,                \* bodies the feature set of one name and version can have
    keep,                   \* prune_datasets: the newest versions kept
    Data,                   \* contents the vendor's bars can have
    MaxRows, MaxMishaps     \* bounds: versions; kills, damages, upgrades

\* No row of the definition tables yet.
Undefined == [body |-> "none"]

ASSUME DatasetsConstants ==
    /\ {keep, MaxRows, MaxMishaps} \subseteq Nat /\ Data # {} /\ Configs # {}
    /\ Undefined \notin Configs

VARIABLES
    data,       \* what the bars in the database are now
    written,    \* the body features.yaml has for the name and version
    defined,    \* the body in the tables feature_sets and label_specs, if any
    library,    \* version of the Parquet library
    rows,       \* table datasets: one row per version, in order
    files,      \* the file of every version ever written
    models,     \* rows of models: the version they name and what they saw
    trainer,    \* what every trainer is doing
    pruner,     \* the prune under way
    mishaps     \* aux: kills, damages and library changes so far

datasetVars == <<data, written, defined, library, rows, files, models, trainer, pruner, mishaps>>

specs == <<written, defined>>

Content == [cfg : Configs, data : Data]
NoFile == [gone |-> TRUE]
Sha(c) == [gone |-> FALSE, content |-> c, lib |-> library]
Damage == [gone |-> FALSE]

AtRest == [step |-> "idle"]
Resting == [step |-> "idle", todo |-> {}, removed |-> {}]

DatasetsInit ==
    /\ data \in Data /\ library = 1
    /\ written \in Configs /\ defined = Undefined
    /\ rows = <<>> /\ files = <<>> /\ models = {}
    /\ trainer = [t \in Trainers |-> AtRest] /\ pruner = Resting
    /\ mishaps = 0

Versions == DOMAIN rows
FileOf(v) == IF v \in DOMAIN files THEN files[v] ELSE NoFile
Put(v, f) == files' = [w \in DOMAIN files \union {v} |-> IF w = v THEN f ELSE files[w]]

Is(t, step) == trainer[t].step = step
Becomes(t, r) == trainer' = [trainer EXCEPT ![t] = r]

-----------------------------------------------------------------------------
(* The world.                                                              *)

BarsChange ==
    /\ data' \in Data \ {data}
    /\ UNCHANGED <<specs, library, rows, files, models, trainer, pruner, mishaps>>

\* Somebody edits a definition and leaves its version as it is.
SpecIsEdited ==
    /\ mishaps < MaxMishaps
    /\ written' \in Configs \ {written} /\ mishaps' = mishaps + 1
    /\ UNCHANGED <<data, defined, library, rows, files, models, trainer, pruner>>

LibraryChanges ==
    /\ library = 1 /\ mishaps < MaxMishaps
    /\ library' = 2 /\ mishaps' = mishaps + 1
    /\ UNCHANGED <<data, specs, rows, files, models, trainer, pruner>>

FileIsDamaged(v) ==
    /\ mishaps < MaxMishaps /\ FileOf(v) # NoFile
    /\ \E f \in {NoFile, Damage} : Put(v, f)
    /\ mishaps' = mishaps + 1
    /\ UNCHANGED <<data, specs, library, rows, models, trainer, pruner>>

-----------------------------------------------------------------------------
(* build_dataset.                                                          *)

\* sync_definitions: a stored body that is not the written one is an error.
SyncDefinitions ==
    /\ defined \in {Undefined, written}
    /\ defined' = written /\ UNCHANGED written

\* The definitions are stored and committed; then the frame is assembled from
\* the bars of one session and audited.
BuildAssembles(t) ==
    /\ Is(t, "idle")
    /\ SyncDefinitions
    /\ Becomes(t, [step |-> "assembled", content |-> [cfg |-> written, data |-> data]])
    /\ UNCHANGED <<data, library, rows, files, models, pruner, mishaps>>

\* Every member is blocked, the audit fails or the frame has no rows: the build
\* writes nothing, and the definitions stay.
BuildComesToNothing(t) ==
    /\ Is(t, "idle")
    /\ SyncDefinitions
    /\ UNCHANGED <<data, library, rows, files, models, trainer, pruner, mishaps>>

\* The rows of the same configuration that hold the same content.
SameFrame(c) == {v \in Versions : rows[v].content = c}

First(vs) == CHOOSE v \in vs : \A w \in vs : v <= w

\* The row is there and its file is whole: nothing is written.
BuildReuses(t) ==
    LET found == SameFrame(trainer[t].content) IN
    /\ Is(t, "assembled") /\ found # {}
    /\ FileOf(First(found)) = rows[First(found)].sha
    /\ Becomes(t, [step |-> "built", version |-> First(found)])
    /\ UNCHANGED <<data, specs, library, rows, files, models, pruner, mishaps>>

\* The file is lost or damaged: it is written again, and the build fails after
\* that when the new bytes are not the recorded ones.
BuildRestores(t) ==
    LET found == SameFrame(trainer[t].content)
        v == First(found)
        f == Sha(trainer[t].content)
    IN  /\ Is(t, "assembled") /\ found # {} /\ FileOf(v) # rows[v].sha
        /\ Put(v, f)
        /\ Becomes(t, IF f = rows[v].sha THEN [step |-> "built", version |-> v] ELSE AtRest)
        /\ UNCHANGED <<data, specs, library, rows, models, pruner, mishaps>>

\* No such row: the next version, by the rows this transaction read.
BuildNumbers(t) ==
    /\ Is(t, "assembled") /\ SameFrame(trainer[t].content) = {} /\ Len(rows) < MaxRows
    /\ Becomes(t, [step |-> "numbered", content |-> trainer[t].content, version |-> Len(rows) + 1])
    /\ UNCHANGED <<data, specs, library, rows, files, models, pruner, mishaps>>

\* _write_parquet: a temporary file takes the name of the version at once, and
\* whatever file had that name is gone.
BuildWrites(t) ==
    /\ Is(t, "numbered")
    /\ Put(trainer[t].version, Sha(trainer[t].content))
    /\ Becomes(t, [step |-> "written", content |-> trainer[t].content,
                   version |-> trainer[t].version, sha |-> Sha(trainer[t].content)])
    /\ UNCHANGED <<data, specs, library, rows, models, pruner, mishaps>>

\* mutant: no unique key on (name, version)
AnyVersion(t) == TRUE

\* uq_dataset
VersionIsFree(t) == trainer[t].version \notin Versions

BuildInserts(t) ==
    /\ Is(t, "written") /\ VersionIsFree(t)
    /\ rows' = Append(rows, [content |-> trainer[t].content, sha |-> trainer[t].sha, file_pruned |-> FALSE])
    /\ Becomes(t, [step |-> "built", version |-> Len(rows) + 1])
    /\ UNCHANGED <<data, specs, library, files, models, pruner, mishaps>>

\* The version was taken meanwhile: the row is refused, the file stays.
BuildIsRefused(t) ==
    /\ Is(t, "written") /\ ~ VersionIsFree(t)
    /\ Becomes(t, AtRest)
    /\ UNCHANGED <<data, specs, library, rows, files, models, pruner, mishaps>>

-----------------------------------------------------------------------------
(* read_dataset and training.                                              *)

Verified(v) == FileOf(v) = rows[v].sha

Reads(t) ==
    LET v == trainer[t].version IN
    /\ Is(t, "built") /\ Verified(v)
    /\ Becomes(t, [step |-> "training", version |-> v, saw |-> FileOf(v).content])
    /\ UNCHANGED <<data, specs, library, rows, files, models, pruner, mishaps>>

ReadIsRefused(t) ==
    /\ Is(t, "built") /\ ~ Verified(trainer[t].version)
    /\ Becomes(t, AtRest)
    /\ UNCHANGED <<data, specs, library, rows, files, models, pruner, mishaps>>

\* The model, or the daily job's scores: only a training leaves a row.
Trains(t) ==
    /\ Is(t, "training")
    /\ models' = models \union {[version |-> trainer[t].version, saw |-> trainer[t].saw]}
    /\ Becomes(t, AtRest)
    /\ UNCHANGED <<data, specs, library, rows, files, pruner, mishaps>>

GivesUp(t) ==
    /\ Is(t, "training")
    /\ Becomes(t, AtRest)
    /\ UNCHANGED <<data, specs, library, rows, files, models, pruner, mishaps>>

TrainerIsKilled(t) ==
    /\ trainer[t] # AtRest /\ mishaps < MaxMishaps
    /\ Becomes(t, AtRest) /\ mishaps' = mishaps + 1
    /\ UNCHANGED <<data, specs, library, rows, files, models, pruner>>

-----------------------------------------------------------------------------
(* prune_datasets.                                                         *)

Used == {m.version : m \in models}

\* rows[keep:], newest first, of the versions no model names.
Prunable == {v \in Versions : v <= Len(rows) - keep} \ Used

PruneReads ==
    /\ pruner.step = "idle" /\ Prunable # {}
    /\ pruner' = [step |-> "deleting", todo |-> Prunable, removed |-> {}]
    /\ UNCHANGED <<data, specs, library, rows, files, models, trainer, mishaps>>

\* One row: its file is deleted if it is there.
PruneDeletes ==
    /\ pruner.todo # {}
    /\ \E v \in pruner.todo :
        /\ \A w \in pruner.todo : w <= v
        /\ pruner' = [pruner EXCEPT !.todo = @ \ {v},
                                    !.removed = IF FileOf(v) = NoFile THEN @ ELSE @ \union {v}]
        /\ Put(v, NoFile)
    /\ UNCHANGED <<data, specs, library, rows, models, trainer, mishaps>>

\* The marks are written with the commit.
PruneCommits ==
    /\ pruner.step = "deleting" /\ pruner.todo = {}
    /\ rows' = [v \in Versions |-> [rows[v] EXCEPT !.file_pruned = @ \/ v \in pruner.removed]]
    /\ pruner' = Resting
    /\ UNCHANGED <<data, specs, library, files, models, trainer, mishaps>>

PruneIsKilled ==
    /\ pruner.step = "deleting" /\ mishaps < MaxMishaps
    /\ pruner' = Resting /\ mishaps' = mishaps + 1
    /\ UNCHANGED <<data, specs, library, rows, files, models, trainer>>

-----------------------------------------------------------------------------

DatasetsNext ==
    \/ BarsChange \/ LibraryChanges \/ SpecIsEdited
    \/ \E v \in DOMAIN files : FileIsDamaged(v)
    \/ \E t \in Trainers :
        \/ BuildAssembles(t) \/ BuildComesToNothing(t)
        \/ BuildReuses(t) \/ BuildRestores(t) \/ BuildNumbers(t) \/ BuildWrites(t)
        \/ BuildInserts(t) \/ BuildIsRefused(t)
        \/ Reads(t) \/ ReadIsRefused(t) \/ Trains(t) \/ GivesUp(t) \/ TrainerIsKilled(t)
    \/ PruneReads \/ PruneDeletes \/ PruneCommits \/ PruneIsKilled

DatasetsSpec == DatasetsInit /\ [][DatasetsNext]_datasetVars

DatasetsTypeOK ==
    /\ data \in Data /\ written \in Configs /\ defined \in Configs \union {Undefined}
    /\ library \in 1 .. 2 /\ mishaps \in 0 .. MaxMishaps
    /\ \A v \in Versions : rows[v].content \in Content /\ rows[v].file_pruned \in BOOLEAN
    /\ \A m \in models : m.version \in Versions /\ m.saw \in Content

-----------------------------------------------------------------------------
(* Properties.                                                             *)

\* The row a model names tells what the model was trained on, whatever builds
\* overlapped, files were lost or written again, or libraries changed.
TrainedOnWhatIsRecorded == \A m \in models : m.saw = rows[m.version].content

\* One version per configuration and content, although nothing locks the table
\* between the reads of a build and its insert.
OneVersionPerFrame ==
    \A v, w \in Versions : rows[v].content = rows[w].content => v = w

\* Every version was computed under the definition stored for its name, however
\* often the file of definitions was edited in between.
BuiltAsDefined == \A v \in Versions : rows[v].content.cfg = defined

\* A version stands for one frame computed as the stored definition says, and a
\* model for what it was trained on.
VersionsAreTrue == TrainedOnWhatIsRecorded /\ OneVersionPerFrame /\ BuiltAsDefined
=============================================================================
