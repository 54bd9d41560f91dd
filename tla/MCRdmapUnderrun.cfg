CONSTANTS
  r1 = r1
  r2 = r2
  Region = {r1, r2}
  NoRegion = NoRegion
  StagOf <- Stags
  MaxPendingReads = 1
  MsnMod = 16
  Requests <- SendRequests
  RecvLists <- ServerRecv
  Registrations <- None
  Invalidations <- None
  MaxSends = 2
  MaxRecvs = 1
  ReadDepth = 1
  FlowControl = FALSE
  MayReset = FALSE
  MaySplit = FALSE
  TerminateTo = {}
SPECIFICATION Spec
INVARIANT BufferForOneMessage
CHECK_DEADLOCK FALSE
