\* Two threads configuring ALPN on two contexts for the first time at once: the lazily allocated static index is written twice.
CONSTANTS
    NULL = NULL
    NOACK = NOACK
    Threads = {t1, t2}
    Contexts = {c1, c2}
    Tables <- MCTables
    PeerLists <- MCPeerLists
    MaxTables = 3
    MaxSsls = 1
SPECIFICATION Spec
INVARIANT AlpnTableInEffect
CHECK_DEADLOCK FALSE
