\* Packet and stream I/O on one connection with two streams; ids[] scaled
\* to one entry so that conn_readable truncates.  The caller may stop
\* calling at any point (and an abort ends the process), so deadlock is not
\* an error.
SPECIFICATION Spec
CONSTANTS
    Streams = {s1, s2}
    Addresses <- MCAddresses
    MaxData = 1
    IdsCapacity = 1
    NULL = NULL
SYMMETRY Symmetry
INVARIANTS
    TypeOK
    ReadableSound
    ZeroLengthFinDelivered
CHECK_DEADLOCK FALSE
