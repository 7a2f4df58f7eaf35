CONSTANTS
  Frame <- MCFrame
  FrameSize = 2
  SectorSize = 2
  Reserved = 1
  MemorySize = 10
  Capacity = 4
  Interleaved = FALSE
SPECIFICATION Spec
INVARIANTS RoomIsErased
PROPERTIES StackImplemented
