CONSTANTS
  DEPTH = 2
  MAILBOXES = 1
  States = {active, passive}
  FirstState = active
  COUNTER_WRAP = 2
  MAX_COUNT = 3
  MAX_CHANGES = 2
  MAX_STRANGE = 1
SPECIFICATION Spec
INVARIANTS TypeOK NoLostWakeup LedFollows
PROPERTIES CountersInOrder StateReported
CHECK_DEADLOCK FALSE
