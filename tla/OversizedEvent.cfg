SPECIFICATION Spec
CHECK_DEADLOCK FALSE
CONSTANTS
  Links <- AllLinks
  Questions <- RetiredQuestions
INVARIANTS
  OversizedSubscriptionsRejected
