CONSTANTS
  Consumer = {c1, c2}
  Bulk = {1, 3}
  BLOCK_SIZE = 2
  IMPLICIT_INITIAL_INDEX_SIZE = 2
  MaxIndexSize = 4
  Block = {b1, b2}
  NoBlock = NoBlock
  IndexMod = 8
  MaxTail = 7
  MaxOvercommit = 1
SPECIFICATION Spec
INVARIANTS EntryFound BlocksAccounted DestructorExact LeewayKept ClaimsWithinTail
PROPERTY ImplementsFifo
SYMMETRY Symmetry
VIEW View
CHECK_DEADLOCK FALSE
