SPECIFICATION Spec
CONSTANTS
  NumOut = 3
  OtherDevices <- MCOtherDevices
  MaxBus = 3
  UINT_MAX = 255
  Formats <- MCFormats
  SupportedFormats <- MCSupportedFormats
  Channels <- MCChannels
  SupportedChannels <- MCSupportedChannels
  Rates <- MCRates
  SupportedRates <- MCSupportedRates
  Kinds = {"out", "in", "route"}
INVARIANTS
  TypeOK
  SlotMatches
  RefusedForCause
  DefaultOpens
  BusNumberInitialised
CHECK_DEADLOCK FALSE
