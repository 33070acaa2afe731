\* Spec section 7 against the bridge's own failure returns: empty header
\* arrays, read-only and heap buffers, allocation failure.
CONSTANTS
    Streams = {s1, s2}
    MaxBody = 2
    MaxCredit = 1
    HeaderCounts = {0, 2}
    Buffers = {"direct", "heap", "readonly"}
SPECIFICATION Spec
INVARIANT DoneComesFromEngine
CHECK_DEADLOCK FALSE
