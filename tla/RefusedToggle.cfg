SPECIFICATION SketchSpec
CONSTANTS
  ClockSize = 16
  Streams = {"stream"}
  Intervals = {1}
  Heartbeats = {5}
  RequestTimeout = 7
  Latency = 1
  ReplyDelay = 1
  LoopPeriod = 1
  Sketches = {"blink"}
  Monitoring = 5
  Tenth = 1
  Second = 8
  RunTime = 10
INVARIANTS
  RefusalKeepsSession
