-------------------------- MODULE MCEmbeddingQueue --------------------------
(***************************************************************************)
(* Small instances of EmbeddingQueue for TLC.                              *)
(***************************************************************************)
EXTENDS EmbeddingQueue
=============================================================================
