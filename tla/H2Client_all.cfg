SPECIFICATION FairSpec
CONSTANTS
  MaxPush = 1
  MaxData = 1
  Scopes = {{"data"}, {"pushes"}, {"pushes", "unread"}, {"data", "unread", "early", "mismatch"}}
INVARIANTS StreamsDeliver
PROPERTIES Answered
CHECK_DEADLOCK FALSE
