CONSTANTS
  r1 = r1
  r2 = r2
  Region = {r1, r2}
  NoRegion = NoRegion
  StagOf <- Stags
  MaxPendingReads = 1
  MsnMod = 2
  Requests <- SafetyRequests
  RecvLists <- ServerRecv
  Registrations <- SinkAndSource
  Invalidations <- ServerSource
  MaxSends = 2
  MaxRecvs = 2
  ReadDepth = 2
  FlowControl = FALSE
  MayReset = TRUE
  MaySplit = TRUE
  TerminateTo = {}
SPECIFICATION Spec
INVARIANTS ReadCompletionSound WriteBeforeSend ReadBuffersConserved WorkRequestsAccounted
CHECK_DEADLOCK FALSE
