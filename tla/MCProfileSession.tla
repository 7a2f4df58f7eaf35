--------------------------- MODULE MCProfileSession ---------------------------
(* ProfileSession for TLC.                                                  *)
EXTENDS ProfileSession
MCSpectrometers == {"port", "starboard"}
=============================================================================
