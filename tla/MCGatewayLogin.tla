--------------------------- MODULE MCGatewayLogin ---------------------------
(***************************************************************************)
(* Constants of the TLC runs of GatewayLogin.                              *)
(***************************************************************************)
EXTENDS GatewayLogin, TLC

AllFaults == {"kill", "op", "lost", "lapse", "login"}

SessionSymmetry == Permutations(Session)
=============================================================================
