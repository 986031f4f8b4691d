SPECIFICATION Spec
CONSTANTS
  CommandBuffer = 1
  ReplyBuffer = 3
  WireBufferSize = 32
  MaxSubscriptions = 2
  MaxId = 9
  MaxCalls = 5
  Requests <- AllRequests
  Firmwares <- OneBoard
  Refusals = {"INTERNAL_ERROR", "INIT_REQUIRED"}
  Timeouts = {0, 500}
  CanRestart = FALSE
INVARIANTS
  NothingOutlivesSession
  SlotsDistinct
  OneDeliveryPerSource
  SamplesOfThisSubscription
  TablesAgree
PROPERTIES
  CallsAtMostOnce
  RegistryKept
