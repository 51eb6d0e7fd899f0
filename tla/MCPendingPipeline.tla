------------------------- MODULE MCPendingPipeline -------------------------
(***************************************************************************)
(* Small instances of PendingPipeline for TLC.                             *)
(***************************************************************************)
EXTENDS PendingPipeline, TLC

(* Files and contents are interchangeable: no definition orders them.      *)
Symmetry == Permutations(Inodes) \union Permutations(Hashes)
============================================================================
