SPECIFICATION Spec
CONSTANTS
  ClockSize = 12
  Streams = {"imu"}
  Intervals = {2}
  Heartbeats = {6}
  RequestTimeout = 3
  Latency = 1
  ReplyDelay = 1
  LoopPeriod = 2
INVARIANTS
  LastErrorOfLastOperation
