CONSTANTS
  Object = {a, b}
  PThread = {t1, t2}
  CThread = {c1, c2}
  QUOTA = 1
  Max = {1, 2}
  MaxProducer = 2
  MaxTable = 1
  Bounds <- Instances
SYMMETRY Symmetry
SPECIFICATION Spec
INVARIANTS OneToken Owned
PROPERTIES NeverMisses
CHECK_DEADLOCK FALSE
