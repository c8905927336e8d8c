\* One tab writes and closes its editor, the other watches; one colour beside the initial one.
SPECIFICATION Spec
CONSTANTS
    t1 = t1
    t2 = t2
    off = off
    red = red
    NoTab = NoTab
    Tabs <- MCTabs
    Writers <- OneTab
    Closers <- OneTab
    Colors <- MCColors
    Off <- off
    WS_MAX_CLIENTS = 2
    MAX_SOCKS = 2
    INBOX = 1
    OUTBOX = 1
INVARIANTS
    TypeOK
    WatchersInSync
    LoneWriterInSync
