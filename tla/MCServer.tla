------------------------------ MODULE MCServer ------------------------------
(***************************************************************************)
(* An instance of Server for TLC: three requests and the dispatcher        *)
(* share two connections; the program comes in two builds.                 *)
(***************************************************************************)
EXTENDS Server
=============================================================================
