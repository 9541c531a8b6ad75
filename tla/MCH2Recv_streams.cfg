SPECIFICATION Spec
CONSTANTS
  Keys = {k1, k2}
  MaxId = 2
  MaxHandles = 2
  Sizes = {0}
  DefaultWindow = 2
  InitWindows = {1}
  Targets = {}
  GoAwayIds = {0, 1}
  MaxRecvStreams = 1
  MaxResetStreams = 1
INVARIANTS CountersExact LiveIsFindable NothingLeft AssertsHold
PROPERTIES StreamSteps
SYMMETRY Symmetry
CHECK_DEADLOCK FALSE
