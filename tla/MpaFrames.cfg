CONSTANTS
  Radix = 4
  Lens = {1, 4, 6}
  MaxFrames = 3
  Asks = {1, 3}
  Splits = {"hdr", "payload", "pad", "crc"}
  Ends = {"closed", "reset"}
SPECIFICATION FairSpec
INVARIANTS Lockstep
PROPERTIES ImplementsChannel EventuallyDelivered
CHECK_DEADLOCK FALSE
