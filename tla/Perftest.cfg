CONSTANTS
  Benchmark = {"read_lat", "read_bw", "write_lat", "write_bw"}
  Iters = 3
  MaxReqs = 3
SPECIFICATION FairSpec
INVARIANTS StreamHealthy AccountsBalance QuietWhenKilled
PROPERTIES EndAfterWrites RunFinishes
CHECK_DEADLOCK FALSE
