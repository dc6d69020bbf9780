SPECIFICATION FairSpec
CONSTANTS
  Callers <- MCCallers
  SeqMod = 2
  TsMod = 2
  MaxClock = 3
  MaxTries = 2
  MaxAccepts = 1
INVARIANTS
  SeqDistinct
  ServerReady
PROPERTY
  AllStarted
CHECK_DEADLOCK FALSE
