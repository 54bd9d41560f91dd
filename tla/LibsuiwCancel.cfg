CONSTANTS
  Thread = {t1, t2}
  MaxChannel = 3
  MaxId = 2
  MaxConnectFailures = 1
SPECIFICATION Spec
INVARIANT EventsNameLiveIds
CHECK_DEADLOCK FALSE
