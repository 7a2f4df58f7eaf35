----------------------------- MODULE MCSpiLink -----------------------------
(* SpiLink for TLC: packets of a size, a header and one or two data         *)
(* characters.                                                              *)
EXTENDS SpiLink

\* Distinct characters for the two size bytes, the header and the data.
MCPacket == <<"z0", "z1", "h", "d">>
\* A packet that looks like the answers of a receiver to the handshake.
MCPacketSync == <<"?", "S", "N", "C", "R">>
============================================================================
