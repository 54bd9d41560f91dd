CONSTANTS
  Radix = 4
  Lens = {4}
  MaxFrames = 1
  Asks = {3}
  Splits = {}
  Ends = {"closed"}
SPECIFICATION FairSpec
PROPERTIES CallReturns
CHECK_DEADLOCK FALSE
