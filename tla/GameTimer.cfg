SPECIFICATION FairSpec
CONSTANTS
  k1 = k1
  k2 = k2
  Keys <- TwoKeys
  Times <- FewTimes
  Near = 2
  Level = 2
  HandleMax = 4
  MaxAdds = 2
INVARIANTS TypeOK MapsAgree ContextAlive FireOnTime
PROPERTIES ImplementsTimer CallbacksRun
CHECK_DEADLOCK FALSE
