---------------------------- MODULE MCOperations ----------------------------
(***************************************************************************)
(* The components behind the daily work, checked side by side: the data    *)
(* job, the price adjustments and the quality checks, the backups, the     *)
(* dataset versions and the lifecycle of the models.  A behaviour steps    *)
(* one of them, named by focus; the others stay as they begin.             *)
(***************************************************************************)
EXTENDS DataPipeline, DataQuality, Backup, Datasets, Lifecycle, TLC

CONSTANTS Foci, s1, s2, t1, t2, c1, c2, d1, d2

MCStocks == {s1, s2}
MCTrainers == {t1, t2}
MCConfigs == {c1, c2}
MCData == {d1, d2}

Row(t, d, r, c, f) == [type |-> t, ex |-> d, ratio |-> r, cash |-> c, factor |-> f]

Bonus == Row("bonus", 1, 1, 0, 0)
Wrong == Row("bonus", 1, 2, 0, 0)             \* the same event, another ratio
Dividend == Row("cash_dividend", 1, 0, 1, 0)  \* its factor moves with the close
Large == Row("cash_dividend", 2, 0, 3, 0)     \* as large as the close, at first
Rights == Row("rights", 1, 0, 0, 6)           \* the factor of the bonus
One == Row("rights", 2, 0, 0, 12)             \* a factor of 1

MCFiles == {<<Bonus>>, <<Wrong>>, <<Dividend>>, <<Bonus, One>>, <<Rights, Large>>}

MCIssues == {[key |-> 1, covers |-> {"price_unit", "big_move"}], [key |-> 1, covers |-> {"big_move"}]}

\* The first content is d1 and the first body c1 without loss: the contents are
\* alike, and the bodies.
MCSymmetry == Permutations(MCStocks) \union Permutations(MCTrainers)

VARIABLE focus

MCInit ==
    /\ focus \in Foci
    /\ DataInit /\ QualityInit /\ BackupInit /\ DatasetsInit /\ LifecycleInit /\ data = d1 /\ written = c1

MCNext ==
    \/ focus = "data" /\ DataNext
       /\ UNCHANGED <<focus, qualityVars, backupVars, datasetVars, lifecycleVars>>
    \/ focus = "quality" /\ QualityNext
       /\ UNCHANGED <<focus, dataVars, backupVars, datasetVars, lifecycleVars>>
    \/ focus = "backup" /\ BackupNext
       /\ UNCHANGED <<focus, dataVars, qualityVars, datasetVars, lifecycleVars>>
    \/ focus = "datasets" /\ DatasetsNext
       /\ UNCHANGED <<focus, dataVars, qualityVars, backupVars, lifecycleVars>>
    \/ focus = "lifecycle" /\ LifecycleNext
       /\ UNCHANGED <<focus, dataVars, qualityVars, backupVars, datasetVars>>

MCSpec == MCInit /\ [][MCNext]_<<focus, dataVars, qualityVars, backupVars, datasetVars, lifecycleVars>>
=============================================================================
