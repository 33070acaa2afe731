\* Every endpoint, malformed address, parsed header and nameserver
\* configuration of MC_WireCodecs, and header lists of 0, 1 and 33 entries
\* (33 makes the collector's arrays grow once) with every malloc and
\* realloc outcome.
CONSTANTS
    NULL = NULL
    Endpoints <- MCEndpoints
    RawAddresses <- MCRawAddresses
    Headers <- MCHeaders
    PosixInputs <- MCPosixInputs
    WindowsInputs <- MCWindowsInputs
    HeaderCounts = {0, 1, 33, 65}
SPECIFICATION CodecsSpec
INVARIANT CodecsTypeOK
INVARIANT DecodeMatchesReference
INVARIANT HeaderInfoRoundTrip
INVARIANT WindowsListsConfigured
INVARIANT WritesWithinCapacity
INVARIANT NoLeakOnReturn
PROPERTY HeaderDecodeRefined
\* Both calls return (pc = "done", one conversion made) and the model stops.
CHECK_DEADLOCK FALSE
