-------------------------- MODULE MCBlobLifecycle --------------------------
(***************************************************************************)
(* Small instances of BlobLifecycle for TLC.                               *)
(***************************************************************************)
EXTENDS BlobLifecycle, TLC

(* Contents are interchangeable, and so are the files of one dedup policy. *)
Symmetry == Permutations(Hashes)
            \union (Permutations(PrivateInodes) \cup Permutations(Inodes \ PrivateInodes))
============================================================================
