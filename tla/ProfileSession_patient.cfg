CONSTANTS
  Spectrometers <- MCSpectrometers
  MaxProfiles = 2
  MaxCommands = 6
  MaxFrames = 2
  Patient = TRUE
  Faults = TRUE
SPECIFICATION FairSpec
INVARIANTS OwnFrames PromptMeansIdle TransferComplete
PROPERTIES FillsOrEmpties TransferAnswered AcquisitionEnds
\* NAVIS has sent all its commands
CHECK_DEADLOCK FALSE
