SPECIFICATION FairSpec
CONSTANTS
  u1 = u1
  Users <- OneUser
  MaxSocket = 2
  PipeCap = 1
  MaxEvent = 1
  PktLen = 2
  MaxId = 2
  MaxOpens = 1
  MaxListens = 1
  MaxConnects = 1
  MaxUdps = 1
  MaxBinds = 1
  MaxSends = 3
  MaxCloses = 1
INVARIANTS TypeOK WriteArmed PacketsWhole PriorityOrder BufferOnce LowComplete
PROPERTY HalfCloseEnds
CHECK_DEADLOCK FALSE
