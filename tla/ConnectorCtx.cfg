SPECIFICATION Spec
CONSTANTS
  MaxTries = 2
  MaxBeats = 1
  MaxRecvs = 1
INVARIANT CtxFound
CHECK_DEADLOCK FALSE
