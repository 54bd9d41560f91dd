CONSTANTS
  r1 = r1
  r2 = r2
  Region = {r1, r2}
  NoRegion = NoRegion
  StagOf <- Stags
  MaxPendingReads = 2
  MsnMod = 16
  Requests <- ReadRequests
  RecvLists <- ServerRecv
  Registrations <- ReadRegions
  Invalidations <- None
  MaxSends = 2
  MaxRecvs = 0
  ReadDepth = 2
  FlowControl = FALSE
  MayReset = FALSE
  MaySplit = FALSE
  TerminateTo = {}
SPECIFICATION Spec
INVARIANT ReadSourceRequested
CHECK_DEADLOCK FALSE
