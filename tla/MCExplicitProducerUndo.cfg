CONSTANTS
  Consumer = {c1, c2}
  Bulk = {1, 3}
  BLOCK_SIZE = 2
  EXPLICIT_INITIAL_INDEX_SIZE = 2
  MaxIndexSize = 4
  Block = {b1, b2, b3}
  NoBlock = NoBlock
  IndexMod = 64
  MaxTail = 7
  MaxOvercommit = 0
  MaxGot = 1
SPECIFICATION Spec
INVARIANT EntryFound
SYMMETRY Symmetry
VIEW View
CHECK_DEADLOCK FALSE
