CONSTANTS
  MAX_COMMANDS = 9
  MAX_QUERIES = 3
  MAX_UPSETS = 1
  MAX_FILTERS = 2
SPECIFICATION Spec
INVARIANTS
  TypeOK
  OwnAnswer
  FiltersRemembered
PROPERTIES
  CommandsSettle
CHECK_DEADLOCK FALSE
