CONSTANTS
  Packet <- MCPacket
  HeaderSize = 1
  DataRoom = 2
  Timely = FALSE
  Prompt = TRUE
SPECIFICATION Spec
INVARIANTS BuffersHold
\* a missed pause leaves both boards in their loops for good
CHECK_DEADLOCK FALSE
