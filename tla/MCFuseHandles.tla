--------------------------- MODULE MCFuseHandles ---------------------------
(***************************************************************************)
(* Small instances of FuseHandles for TLC.                                 *)
(***************************************************************************)
EXTENDS FuseHandles, TLC

(* The identities of files are interchangeable.                            *)
Symmetry == Permutations(Inodes)
============================================================================
