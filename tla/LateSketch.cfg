SPECIFICATION FairSpec
CONSTANTS
  ClockSize = 12
  Streams = {"imu"}
  Intervals = {2}
  Heartbeats = {0, 5}
  RequestTimeout = 3
  Latency = 1
  ReplyDelay = 1
  LoopPeriod = 4
INVARIANTS
  ClockExact
PROPERTIES
  LossNoticed
