SPECIFICATION Spec
CONSTANTS
  MaxId = 2
  Increments = {2}
  MaxWindow = 2
  MaxFrameSize = 1
  Scopes <- All
INVARIANTS CapacityInStep NobodyOverlooked 
PROPERTIES  SlabInStep
CHECK_DEADLOCK FALSE
