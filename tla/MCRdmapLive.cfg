CONSTANTS
  r1 = r1
  r2 = r2
  Region = {r1, r2}
  NoRegion = NoRegion
  StagOf <- EndStags
  MaxPendingReads = 1
  MsnMod = 16
  Requests <- LiveRequests
  RecvLists <- ServerRecv
  Registrations <- ReadRegions
  Invalidations <- None
  MaxSends = 2
  MaxRecvs = 2
  ReadDepth = 1
  FlowControl = TRUE
  MayReset = FALSE
  MaySplit = FALSE
  TerminateTo = {"server"}
SPECIFICATION FairSpec
INVARIANT ReadSourceRequested
PROPERTIES SendsDelivered TerminateStopsThreads
CHECK_DEADLOCK FALSE
