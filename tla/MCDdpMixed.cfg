CONSTANTS
  Radix = 8
  Mulpdu = 2
  Region <- Sink
  Bufs <- TwoBufs
  Messages <- MixedMessages
  MaxSends = 3
  MayEnd = TRUE
SPECIFICATION FairSpec
INVARIANTS InPlace
PROPERTIES ImplementsChannel EventuallyReceived
CHECK_DEADLOCK FALSE
