\* Memory safety of the thread-local event slot under every interleaving of
\* polls, header reads and frees of two sessions on two threads.
CONSTANTS
    NULL = NULL
    Threads = {t1, t2}
    Sessions = {s1, s2}
    ArrivalKinds = {"HEADERS", "DATA"}
    MaxEvents = 3
SPECIFICATION Spec
SYMMETRY Symmetry
INVARIANT TypeOK
INVARIANT NoDoubleFree
INVARIANT NoEventLeak
\* The process stops when quiche aborts or once every session is freed.
CHECK_DEADLOCK FALSE
