CONSTANTS
  CtlTask <- MCCtlTask
  SpecTask <- MCSpecTask
  Package <- MCPackagesBoth
  Home <- MCHomeBoth
  Source <- MCSourceBoth
  QLen <- MCQLen
  Asks <- MCAsks
  MaxFrames = 2
  MaxAsks = 1
  LinkFaults = TRUE
  StackReuse = TRUE
  Producer = "DAQ"
  Consumer = "PMG"
SPECIFICATION FairSpec
INVARIANTS MutexProtects
PROPERTIES FullIsStable ExchangeGoesOn
\* the system is at rest when all frames and asks are used up
CHECK_DEADLOCK FALSE
