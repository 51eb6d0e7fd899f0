---------------------------- MODULE MCNamespace ----------------------------
(***************************************************************************)
(* A small instance of Namespace for TLC.                                  *)
(***************************************************************************)
EXTENDS Namespace

Path == <<"a", "b">>
============================================================================
