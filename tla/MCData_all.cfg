SPECIFICATION SpecAll
CONSTANTS
  Index = {1, 2, 3}
  Slot = {1, 2, 3}
  StreamId = {1, 2, 3}
  QueueName = {"pending_send", "pending_capacity"}
  Frame = {"headers", "data"}
  None = None
  Bytes <- AllBytes
  CR = CR
  LF = LF
  x = x
  y = y
INVARIANTS StoreKeeps HpackReadsWrites ChunksReadWrites CodecFollows
CHECK_DEADLOCK FALSE
