---------------------------- MODULE MCAcquisition ----------------------------
(* Two points of measurement at 2 and 1, the surface at 0.  A reading of 1 *)
(* meets the last point exactly, and 3 is deeper than all.  Instruments    *)
(* with two spectrometers make profiles, others mix them with a stream or  *)
(* with dark characterizations.                                            *)
EXTENDS Acquisition

MCSetups ==
  {[installed |-> Side, modes |-> {}, runLengths |-> {1}],
   [installed |-> {"starboard"}, modes |-> {"StreamLandD"}, runLengths |-> {2}],
   [installed |-> {"port"}, modes |-> {"DarkCharacterize"}, runLengths |-> {2}]}
MCPoints == <<2, 1>>
MCPressures == {0, 1, 3}
=============================================================================
