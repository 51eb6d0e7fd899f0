-------------------------- MODULE MCConsolidation --------------------------
(***************************************************************************)
(* Small instances of Consolidation for TLC: three directions, of which    *)
(* the first two are within both thresholds of each other.                 *)
(***************************************************************************)
EXTENDS Consolidation, TLC

Directions == {<<3, 1>>, <<2, 1>>, <<1, 3>>}
TwoNear    == {<<3, 1>>, <<2, 1>>}
Join       == <<9, 10>>
Close      == <<19, 20>>
Variance   == <<4, 1>>
Symmetry   == Permutations(Sups)
=============================================================================
