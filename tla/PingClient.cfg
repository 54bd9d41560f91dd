CONSTANTS
  Pings = 3
  MaxOwn = 2
SPECIFICATION FairSpec
INVARIANTS ReadsThisPing
PROPERTY RoundsGoOn
CHECK_DEADLOCK FALSE
