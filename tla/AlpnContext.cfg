\* Two contexts configured (and reconfigured) from one thread, SSLs created
\* and released around context frees, handshakes with overlapping and
\* disjoint client offers.  Two racing threads are in AlpnContext_IndexRace.
CONSTANTS
    NULL = NULL
    NOACK = NOACK
    Threads = {t1}
    Contexts = {c1, c2}
    Tables <- MCTables
    PeerLists <- MCPeerLists
    MaxTables = 3
    MaxSsls = 1
SPECIFICATION Spec
SYMMETRY Symmetry
INVARIANT TypeOK
INVARIANT NegotiationServerPreference
INVARIANT NoFreedTableRead
INVARIANT AlpnTableInEffect
\* The model stops once every context is freed and the bounds are used up.
CHECK_DEADLOCK FALSE
