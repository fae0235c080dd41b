CONSTANTS
  Null = Null
  MaxParams = 1
  Alphabets = {{"ESC", "[", "?", "CAN"}, {"ESC", "]", "BEL", "%"}, {"ESC", "c"}, {"w1", "w2"}, {"ESC", "(", "_"}, {"ESC", "/"}}
  BatchSize = 1
  MaxFrameSkip = 1
  MaxInFlight = 2
  MaxRequests = 1
  MaxChunks = 2
SPECIFICATION FairSpec
CHECK_DEADLOCK FALSE
INVARIANTS
  TypeOK
  ChunksInvisible
  NothingWaitsAlone
  NoOrphanShell
PROPERTIES
  ScreenIsDrawn
