-------------------------- MODULE MCModelRegistry --------------------------
(***************************************************************************)
(* Small registries for TLC: models r1, r2, r3 of the name the cards use,  *)
(* l1 of a second fitted candidate, all of one INVEST sleeve.              *)
(***************************************************************************)
EXTENDS ModelRegistry, TLC

CONSTANTS r1, r2, r3, l1, ridge, lgbm, b1, p1, p2

MCNameOf == [m \in Models |-> IF m = l1 THEN lgbm ELSE ridge]
MCStrategyOf == [n \in Names |-> b1]
MCCardName == [s \in {b1} |-> ridge]
MCSymmetry == Permutations(Models \ {l1}) \union Permutations(Sessions)
=============================================================================
