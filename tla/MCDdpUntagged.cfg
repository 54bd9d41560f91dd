CONSTANTS
  Radix = 8
  Mulpdu = 2
  Region <- Sink
  Bufs <- TwoBufs
  Messages <- LongMessages
  MaxSends = 1
  MayEnd = FALSE
SPECIFICATION Spec
INVARIANTS InItsBuffer
CHECK_DEADLOCK FALSE
