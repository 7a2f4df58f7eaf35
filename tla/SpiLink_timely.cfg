CONSTANTS
  Packet <- MCPacketSync
  HeaderSize = 1
  DataRoom = 3
  Timely = TRUE
  Prompt = FALSE
SPECIFICATION FairSpec
INVARIANTS DeliveredIntact IntentionsAgree
PROPERTIES SuccessMeansDelivered PromptCallsReturn OnlyAMissHangs
\* a missed pause leaves both boards in their loops for good
CHECK_DEADLOCK FALSE
