\* One tab writes, the other watches. Colours play no part in who waits for whom.
SPECIFICATION FairSpec
CONSTANTS
    t1 = t1
    t2 = t2
    off = off
    red = red
    NoTab = NoTab
    Tabs <- MCTabs
    Writers <- OneTab
    Closers <- Nothing
    Colors <- OneColor
    Off <- off
    WS_MAX_CLIENTS = 2
    MAX_SOCKS = 2
    INBOX = 1
    OUTBOX = 1
PROPERTIES
    SlotsReclaimed
