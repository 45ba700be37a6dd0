SPECIFICATION FairSpec
CONSTANTS
  Outputs = {o}
  Inputs = {i}
  DevThreads = {d1, d2}
  NULL = NULL
  TransferBound = 2
  StreamBound = 1
  RestartInFlight = FALSE
INVARIANTS
  TypeOK
  NoDeadlock
  InsideIsAllocated
  TransferKeepsHandle
  ReportHasHandle
  PositionPaired
PROPERTIES
  CallsReturn
