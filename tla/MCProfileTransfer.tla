------------------------- MODULE MCProfileTransfer -------------------------
(* Two profiles: one with two packets, of three bursts and of one, and one *)
(* with a single packet of two bursts.  What is in memory is nothing valid *)
(* or amounts to one burst, or to three.                                   *)
EXTENDS ProfileTransfer, TLC

CONSTANTS f1, f2

MCProfile == {f1, f2}
MCLayout == f1 :> <<3, 1>> @@ f2 :> <<2>>
MCContents == {0, 1, 3}
=============================================================================
