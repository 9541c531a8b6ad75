SPECIFICATION SpecAll
CONSTANTS
  Request = {r1, r2, r3}
  MaxConn = 3
  MaxCuts = 2
  Dur = 2
  Scopes <- AllPools
  Exchanges <- AllExchanges
  None = None
  k = k
  l = l
SYMMETRY Symmetry
INVARIANTS  PoolKept MessagesInOrder ReadersTold
CHECK_DEADLOCK FALSE
