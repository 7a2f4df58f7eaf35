---------------------------- MODULE MCFlashMemory ----------------------------
(* FlashMemory for TLC: five sectors of two cells, where four frames of two *)
(* cells fit above one reserved cell.  Every frame lies in two sectors, and *)
(* the last one needs the fifth sector.                                     *)
EXTENDS FlashMemory
MCFrame == {"f", "g"}
=============================================================================
