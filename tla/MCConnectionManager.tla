------------------------ MODULE MCConnectionManager -------------------------
(***************************************************************************)
(* An instance of ConnectionManager for TLC.                               *)
(***************************************************************************)
EXTENDS ConnectionManager

CONSTANTS r1, r2
=============================================================================
