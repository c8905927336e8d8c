CONSTANTS
  TEST_FILE_SIZE = 19
  WIPE_STORAGE = FALSE
  MAX_BOOTS = 260
  MAX_FAULTS = 2
  X_RES = {5, 16, 64, 128}
  Y_RES = {3, 8, 24, 33, 160}
  PIN_THREADS = TRUE
  MAX_CONTEXTS = 4
  MAX_NET_FAULTS = 3
  LOWEST = 90
  WRAP = 160
  INTERFACES = 4
  INTERFACE_COUNT = 2
  DHCP = TRUE
  LINKS = {1, 2}
  TEMPERATURES <- Temperatures
SPECIFICATION Spec
INVARIANTS
  TypeOK
  FilesFollowBoots
  PatternTrailsCount
  NothingLeftOpen
  WritesInBounds
  ScreenCleared
  ColoursDecode
  NoLostAddress
  NoSocketLeak
  AtMostOneLateBeat
  AdvertisesOnlyWhileOn
  PortsJoined
  LeasesReported
PROPERTIES
  AnimationStarts
  TakesTurns
  ServersComeBack
  ShowsMeasured
CHECK_DEADLOCK FALSE
