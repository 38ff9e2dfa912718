------------------------------ MODULE MCStartup ------------------------------
(***************************************************************************)
(* Constants of the TLC runs of Startup.                                   *)
(***************************************************************************)
EXTENDS Startup
=============================================================================
