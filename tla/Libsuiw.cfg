CONSTANTS
  Thread = {t1, t2}
  MaxChannel = 3
  MaxId = 1
  MaxConnectFailures = 1
SPECIFICATION FairSpec
INVARIANTS EventsConserved
PROPERTY EventAnswered
CHECK_DEADLOCK FALSE
