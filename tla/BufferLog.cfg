SPECIFICATION FairSpec
CONSTANTS
  Size = 8
  Word = 16
  HeaderLen = 2
  MaxLen = 4
  Lengths <- SmallLengths
  MaxMsgs = 5
INVARIANTS TypeOK PushFits NoOverwrite
PROPERTY ImplementsLogQueue
CHECK_DEADLOCK FALSE
