SPECIFICATION Spec
CONSTANTS
  NumIn = 3
  Pcms <- MCPcms
  InPcm <- MCInPcm
  Addrs = {a1, a2}
  Clients = {c1, c2}
  NULL = NULL
  Rates = {0, 16000, 44100}
  SupportedRates = {16000, 44100}
SYMMETRY Symmetry
PROPERTIES
  RestartClosesAll
