CONSTANTS
  Benchmark = {"read_lat", "read_bw", "write_lat", "write_bw"}
  Iters = 1
  MaxReqs = 1
SPECIFICATION Spec
PROPERTY FreedUnused
CHECK_DEADLOCK FALSE
