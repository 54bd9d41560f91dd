CONSTANTS
  Thread = {t1, t2, t3}
  Pool = 1
  Heap = 1
  NoNode = NoNode
  SHOULD_BE_ON_FREELIST = 8
SPECIFICATION FairSpec
INVARIANTS OneUser NoneLost
PROPERTY LockFree
CHECK_DEADLOCK FALSE
