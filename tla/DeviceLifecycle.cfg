SPECIFICATION FairSpec
CONSTANTS
  Clients = {c1, c2, c3}
  Addrs = {d1, d2}
  NULL = NULL
  UINT_MAX = 7
  StrayClose = FALSE
INVARIANTS
  TypeOK
  CountsHolders
  HoldersUseDevice
  CheckIsStable
PROPERTIES
  SharedSpec
  LockReleased
