SPECIFICATION FairSpec
CONSTANTS
  Thread = {t1, t2}
  NoThread = NoThread
  Busy = t1
  hashedId <- hashedIds
  INITIAL_IMPLICIT_PRODUCER_HASH_SIZE = 2
  MaxFailures = 2
  MaxItems <- Items
  Bulk = {1, 2}
INVARIANTS OwnProducer PerThreadOrder
PROPERTIES NeverMisses EnqueueReturns
CHECK_DEADLOCK FALSE
VIEW View
