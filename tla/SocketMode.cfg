SPECIFICATION ModeSpec
CONSTANTS
  u1 = u1
  Users <- OneUser
  MaxSocket = 2
  PipeCap = 2
  MaxEvent = 3
  PktLen = 2
  MaxId = 5
  MaxOpens = 1
  MaxListens = 1
  MaxConnects = 0
  MaxUdps = 0
  MaxBinds = 0
  MaxSends = 1
  MaxCloses = 1
  MaxPackets = 1
INVARIANTS SlotsOwnFds EventsFresh PoolMatchesSlots
CHECK_DEADLOCK FALSE
