----------------------------- MODULE MCMcpTools -----------------------------
(***************************************************************************)
(* A small instance of McpTools for TLC.                                   *)
(***************************************************************************)
EXTENDS McpTools

Path == <<"a">>

PathsUsed == {<<"a">>, <<"a", "b">>}
=============================================================================
