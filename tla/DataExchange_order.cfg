CONSTANTS
  CtlTask <- MCCtlTask
  SpecTask <- MCSpecTask
  Package <- MCPackages
  Home <- MCHome
  Source <- MCSource
  QLen <- MCQLenCode
  Asks <- MCTalk
  MaxFrames = 3
  MaxAsks = 1
  LinkFaults = TRUE
  StackReuse = TRUE
  Producer = "DAQ"
  Consumer = "PMG"
SPECIFICATION Spec
INVARIANTS OnePointer
PROPERTIES ChannelImplemented
\* the system is at rest when all frames and asks are used up
CHECK_DEADLOCK FALSE
