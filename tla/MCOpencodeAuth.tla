--------------------------- MODULE MCOpencodeAuth ---------------------------
(***************************************************************************)
(* Constants of the TLC run of OpencodeAuth.                               *)
(***************************************************************************)
EXTENDS OpencodeAuth, TLC
=============================================================================
