-------------------------------- MODULE MCServer --------------------------------
(***************************************************************************)
(* Instances of Server for TLC.                                            *)
(***************************************************************************)
EXTENDS Server

CONSTANTS r1, r2, r3

MCRequests == {r1, r2, r3}
=============================================================================
