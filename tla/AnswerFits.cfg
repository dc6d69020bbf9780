SPECIFICATION Spec
CONSTANTS
  Modes <- Libevent
  Sizes <- AllSizes
  HeaderSize = 2
  TailSize = 1
  MaxBody = 4
  DefaultSize = 2
  BufferCap = 10
  IntMax = 7
  MinRead = 4
  Added = 1
  MaxFrames = 3
INVARIANT AnswerFits
CHECK_DEADLOCK FALSE
