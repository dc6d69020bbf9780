SPECIFICATION FairSpec
CONSTANTS
  MaxTries = 2
  MaxBeats = 2
  MaxRecvs = 2
INVARIANTS TypeOK AliveComplete SendNotStuck
PROPERTIES DeadRetired SendQueueDrains
CHECK_DEADLOCK FALSE
