SPECIFICATION Spec
CONSTANTS
  Keys = {k1}
  MaxId = 1
  MaxHandles = 2
  Sizes = {1, 2}
  DefaultWindow = 2
  InitWindows = {1, 3}
  Targets = {2, 4}
  GoAwayIds = {}
  MaxRecvStreams = 1
  MaxResetStreams = 1
INVARIANTS TypeOK ConnAccounting MemoryBound StreamAccounting InFlightIsOwned
PROPERTIES ResetTakesNoData
CHECK_DEADLOCK FALSE
