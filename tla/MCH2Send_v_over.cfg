SPECIFICATION Spec
CONSTANTS
  MaxId = 2
  Increments = {2}
  MaxWindow = 2
  MaxFrameSize = 1
  Scopes <- Reserving
INVARIANTS ConnectionCovers
CHECK_DEADLOCK FALSE
