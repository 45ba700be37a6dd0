SPECIFICATION Spec
CONSTANTS
  NumOut = 3
  Pcms <- MCPcms
  OutPcm <- MCOutPcm
  DefaultSlot = 0
  Addrs = {a1, a2}
  Clients = {c1, c2}
  NULL = NULL
  MAX_ALLOWED_ERRORS = 2
  FrameBound = 1
  OtherCalls = FALSE
  AddressReuse = TRUE
SYMMETRY Symmetry
PROPERTIES
  StaleCloseIgnored
