\* Two tabs write; nobody closes an editor.
SPECIFICATION Spec
CONSTANTS
    t1 = t1
    t2 = t2
    off = off
    red = red
    NoTab = NoTab
    Tabs <- MCTabs
    Writers <- MCTabs
    Closers <- Nothing
    Colors <- MCColors
    Off <- off
    WS_MAX_CLIENTS = 2
    MAX_SOCKS = 2
    INBOX = 1
    OUTBOX = 1
INVARIANTS
    AllTabsInSync
