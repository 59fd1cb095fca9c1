------------------------------- MODULE MCCore -------------------------------
(***************************************************************************)
(* The three components that stand alone, checked side by side: the model  *)
(* registry, the scheduler of one container and the execution engine.  A   *)
(* behaviour steps one of them, named by focus; the others stay as they    *)
(* begin.                                                                  *)
(***************************************************************************)
EXTENDS MCModelRegistry, MCScheduler, MCEngine

CONSTANT Foci

VARIABLE focus

MCInit ==
    /\ focus \in Foci
    /\ RegistryInit /\ SchedulerInit /\ Init
    /\ focus # "engine" => bar = CHOOSE d \in Days : TRUE

\* Without loss: the models of the name are alike, and r1's row is the first.
InOrder == \A m \in {<<r1, r2>>, <<r2, r3>>} : status'[m[2]] # "none" => status'[m[1]] # "none"

MCNext ==
    \/ focus = "registry" /\ RegistryNext /\ InOrder /\ UNCHANGED <<focus, schedulerVars, vars>>
    \/ focus = "scheduler" /\ SchedulerNext /\ UNCHANGED <<focus, registryVars, vars>>
    \/ focus = "engine" /\ Next /\ UNCHANGED <<focus, registryVars, schedulerVars>>

SessionSymmetry == Permutations(Sessions)

MCSpec == MCInit /\ [][MCNext]_<<focus, registryVars, schedulerVars, vars>>
=============================================================================
