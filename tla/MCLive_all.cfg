SPECIFICATION FairAll
CONSTANTS
  Value = {a, b}
  Task = {t1, t2}
  None = None
  MaxSent = 3
  a = a
  b = b
  err = err
  key = key
INVARIANTS NothingLost
PROPERTIES AreChannels CallsAnswered RequestsComplete
CHECK_DEADLOCK FALSE
