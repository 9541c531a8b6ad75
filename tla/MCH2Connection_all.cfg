SPECIFICATION Spec
CONSTANTS
  MaxId = 2
  Default = 2
  First <- Same
  Scopes <- Disturbed
  None = None
INVARIANTS AnsweredInStep NoFalseAlarm RequestsAccounted
PROPERTIES GoAwayOrderly
CHECK_DEADLOCK FALSE
