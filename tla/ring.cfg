CONSTANTS
  Producers = {"p1", "p2"}
  Consumers = {"c1", "c2"}
  RingBytes = 8
  CursorMod = 16
  Bytes = {7}
  Laps = 1
  MaxPush = 3
  MaxRetries = 2
SPECIFICATION RingSpec
CHECK_DEADLOCK FALSE
INVARIANTS
  FramesDelivered
