SPECIFICATION FairSpec
CONSTANTS
  MaxId = 1
  Default = 2
  First <- Same
  Scopes <- Undisturbed
  None = None
PROPERTIES ShutdownEnds PingAnswered
CHECK_DEADLOCK FALSE
