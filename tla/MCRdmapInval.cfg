CONSTANTS
  r1 = r1
  r2 = r2
  Region = {r1, r2}
  NoRegion = NoRegion
  StagOf <- Stags
  MaxPendingReads = 1
  MsnMod = 16
  Requests <- InvalRequests
  RecvLists <- ServerRecv
  Registrations <- SinkAndSource
  Invalidations <- None
  MaxSends = 1
  MaxRecvs = 1
  ReadDepth = 1
  FlowControl = TRUE
  MayReset = FALSE
  MaySplit = FALSE
  TerminateTo = {}
SPECIFICATION Spec
PROPERTY RkeyInvalidated
CHECK_DEADLOCK FALSE
