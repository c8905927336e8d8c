CONSTANTS
  MAX_COMMANDS = 2
  MAX_QUERIES = 2
  MAX_UPSETS = 1
  MAX_FILTERS = 2
SPECIFICATION Spec
PROPERTY
  ConnectedQueries
CHECK_DEADLOCK FALSE
