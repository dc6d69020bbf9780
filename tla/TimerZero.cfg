SPECIFICATION FairSpec
CONSTANTS
  k1 = k1
  k2 = k2
  Keys <- OneKey
  Times <- ZeroTime
  Near = 2
  Level = 2
  HandleMax = 4
  MaxAdds = 1
PROPERTY ZeroTimeoutDispatched
CHECK_DEADLOCK FALSE
