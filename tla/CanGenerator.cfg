\* Two of everything, so that a stall takes two frames and two failures, and one
\* mailbox more than the semaphore admits.
SPECIFICATION FairSpec
CONSTANTS
    TX_QUEUE_DEPTH = 2
    RECOVERY_FAILURE_LIMIT = 2
    MAILBOXES = 3
    SET_SIZE = 2
INVARIANTS
    TypeOK
    PermitInv
    NoPermitLeak
PROPERTIES
    Unstalls
    TrafficResumes
    StoppedComesBack
