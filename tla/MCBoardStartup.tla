---------------------------- MODULE MCBoardStartup ----------------------------
(* The start of the boards with resets, a lost packet and an input         *)
(* (BoardStartup_reset.cfg).                                               *)
EXTENDS BoardStartup
=============================================================================
