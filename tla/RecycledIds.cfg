SPECIFICATION Spec
CONSTANTS
  CommandBuffer = 1
  ReplyBuffer = 3
  WireBufferSize = 32
  MaxSubscriptions = 2
  MaxId = 3
  MaxCalls = 6
  Requests <- FewRequests
  Firmwares <- OneBoard
  Refusals = {"INTERNAL_ERROR", "INIT_REQUIRED"}
  Timeouts = {0, 500}
  CanRestart = FALSE
INVARIANTS
  TypeOK
PROPERTIES
  CallsAtMostOnce
