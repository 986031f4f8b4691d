SPECIFICATION Spec
CONSTANTS
  CommandBuffer = 1
  ReplyBuffer = 3
  WireBufferSize = 32
  MaxSubscriptions = 1
  MaxId = 9
  MaxCalls = 5
  Requests <- GatedRequests
  Firmwares <- AllBoards
  Refusals = {"INTERNAL_ERROR", "INIT_REQUIRED"}
  Timeouts = {0, 500}
  CanRestart = FALSE
INVARIANTS
  StreamsFitSlots
  TablesAgree
