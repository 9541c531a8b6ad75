SPECIFICATION FairSpec
CONSTANTS
  Keys = {k1}
  MaxId = 1
  MaxHandles = 2
  Sizes = {1}
  DefaultWindow = 1
  InitWindows = {1}
  Targets = {}
  GoAwayIds = {}
  MaxRecvStreams = 1
  MaxResetStreams = 0
PROPERTIES ConnectionWindowReopens GracefulEnds
CHECK_DEADLOCK FALSE
