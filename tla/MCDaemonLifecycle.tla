------------------------- MODULE MCDaemonLifecycle -------------------------
(***************************************************************************)
(* A small instance of DaemonLifecycle for TLC: two processes, one after   *)
(* the other or side by side.                                              *)
(***************************************************************************)
EXTENDS DaemonLifecycle
=============================================================================
