\* The failure streak against the failures that really happened.
SPECIFICATION Spec
CONSTANTS
    TX_QUEUE_DEPTH = 3
    RECOVERY_FAILURE_LIMIT = 4
    MAILBOXES = 4
    SET_SIZE = 3
PROPERTIES
    RestartOnlyWhenStalled
