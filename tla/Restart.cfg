SPECIFICATION RestartSpec
CONSTANTS
  CommandBuffer = 1
  ReplyBuffer = 5
  WireBufferSize = 32
  MaxSubscriptions = 2
  MaxId = 9
  MaxCalls = 6
  Requests <- RestartRequests
  EarlierRequests <- EarlierLives
  Firmwares <- OneBoard
  Refusals = {}
  Timeouts = {500}
  CanRestart = TRUE
INVARIANTS
  TablesRecovered
  SamplesRecovered
  ExecutedAtMostOnce
