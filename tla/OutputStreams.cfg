SPECIFICATION Spec
CONSTANTS
  NumOut = 3
  Pcms <- MCPcms
  OutPcm <- MCOutPcm
  DefaultSlot = 0
  Addrs = {a1, a2, a3}
  Clients = {c1, c2}
  NULL = NULL
  MAX_ALLOWED_ERRORS = 2
  FrameBound = 3
  OtherCalls = TRUE
  AddressReuse = FALSE
SYMMETRY Symmetry
INVARIANTS
  TypeOK
  SlotTableExact
  ClientsOwnStreams
  PcmAccounting
  StandbyIffClosed
  HandleFollowsRoute
  MuteCoherent
  ErrorsStopStream
PROPERTIES
  SilentWhileMuted
  ErrorsCounted
  ExclusiveSpec
