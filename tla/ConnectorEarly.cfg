SPECIFICATION Spec
CONSTANTS
  Callers <- MCCallers
  SeqMod = 2
  TsMod = 2
  MaxClock = 3
  MaxTries = 2
  MaxAccepts = 1
INVARIANT
  ConnectorAfterServers
CHECK_DEADLOCK FALSE
