SPECIFICATION Spec
CONSTANTS
  BufferSize = 3
  FlushChunkBytes = 2
  ByteRetryLimit = 2
  WriteRetryLimit = 2
  AliveLength = 2
  LineLengths = {1, 2, 4}
  LogLimit = 5
  Departures = 2
INVARIANTS
  RingHoldsLatest
  DumpComplete
  StreamInOrder
PROPERTIES
  LogDelivered
  HeartbeatHeard
