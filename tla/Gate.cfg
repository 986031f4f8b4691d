SPECIFICATION Spec
CHECK_DEADLOCK FALSE
CONSTANTS
  Links <- AllLinks
  Questions <- AllQuestions
INVARIANTS
  OfferedIsAccepted
  AcceptedReadIsOffered
  NewerFirmwareRefusesNoMore
  UnknownBoardNotGuessed
  AcceptedSubscriptionIsServed
