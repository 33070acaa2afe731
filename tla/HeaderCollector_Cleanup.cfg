\* A realloc failing for one array but not the other during growth.
CONSTANTS
    NULL = NULL
    HeaderCounts = {33}
SPECIFICATION Spec
INVARIANT CleanupMemorySafe
CHECK_DEADLOCK FALSE
