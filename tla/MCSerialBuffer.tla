--------------------------- MODULE MCSerialBuffer ---------------------------
(* Both rings of a port with five bytes each, the numbers in               *)
(* SerialBuffer_rings.cfg.                                                 *)
EXTENDS SerialBuffer
=============================================================================
