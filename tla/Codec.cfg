SPECIFICATION Spec
CONSTANTS
  ByteBits = 2
  WireExponentBits = 6
  WireFractionBits = 9
  ExponentBits = 5
  FractionBits = 3
  Samples <- EdgeSamples
  Commands <- EdgeCommands
INVARIANTS
  RepresentableExact
  ResentIsRead
  OrderKept
  BeyondRangeInfinite
  SampleArrives
  WidthDecides
  ReadingAgreesWithSample
  CallArrives
CHECK_DEADLOCK FALSE
