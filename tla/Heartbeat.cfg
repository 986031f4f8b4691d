SPECIFICATION FairSpec
CONSTANTS
  ClockSize = 12
  Streams = {"imu", "current"}
  Intervals = {2, 6}
  Heartbeats = {0, 6}
  RequestTimeout = 3
  Latency = 1
  ReplyDelay = 1
  LoopPeriod = 2
INVARIANTS
  TypeOK
  SessionKept
  ClockExact
  ServedInTime
PROPERTIES
  TimesOutOnTime
  CallsReturn
