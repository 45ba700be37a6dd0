SPECIFICATION Spec
CONSTANTS
  Threads = {t1, t2}
  Devices = {d1}
  UINT_MAX = 7
  StrayClose = TRUE
  NumOut = 2
  OutPcms <- MCOutPcms
  OutPcm <- MCOutPcm
  DefaultSlot = 0
  OutAddrs = {a1}
  OutClients = {c1}
  MAX_ALLOWED_ERRORS = 1
  FrameBound = 1
  OtherCalls = FALSE
  NumIn = 1
  InPcms <- MCInPcms
  InPcm <- MCInPcm
  InAddrs = {b1, b2}
  InClients = {e1}
  Rates = {0}
  SupportedRates = {0}
  NULL = NULL
SYMMETRY Symmetry
INVARIANTS
  NothingOutlivesDevice
  StreamsCoherent
  DeviceIffCounted
PROPERTIES
  ExclusiveSpec
