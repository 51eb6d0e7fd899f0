------------------------- MODULE MCPipelineRecover -------------------------
(***************************************************************************)
(* Small instances of PipelineRecover for TLC.                             *)
(***************************************************************************)
EXTENDS PipelineRecover, TLC

(* Files and contents are interchangeable: no definition orders them.      *)
Symmetry == Permutations(Inodes) \union Permutations(Hashes)
============================================================================
