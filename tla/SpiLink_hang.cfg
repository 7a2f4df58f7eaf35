CONSTANTS
  Packet <- MCPacket
  HeaderSize = 1
  DataRoom = 2
  Timely = TRUE
  Prompt = FALSE
SPECIFICATION FairSpec
PROPERTIES CallsReturn
\* a missed pause leaves both boards in their loops for good
CHECK_DEADLOCK FALSE
