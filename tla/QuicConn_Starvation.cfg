\* A caller that re-polls conn_readable and drains every reported stream,
\* on a connection whose ids[] holds one id and whose peer keeps sending.
\* No symmetry: it is unsound for liveness.
SPECIFICATION FairSpec
CONSTANTS
    Streams = {s1, s2}
    Addresses <- MCGoodAddresses
    MaxData = 1
    IdsCapacity = 1
    NULL = NULL
PROPERTY EveryReadableReported
CHECK_DEADLOCK FALSE
