\* Body sending on two streams of a server or client session, with partial
\* writes, every writable buffer kind and transient allocation failure.
CONSTANTS
    Streams = {s1, s2}
    MaxBody = 2
    MaxCredit = 1
    HeaderCounts = {2, 3}
    Buffers = {"direct", "heap", "slice"}
SPECIFICATION FairSpec
INVARIANT TypeOK
INVARIANT BodySentInOrder
PROPERTY EveryStreamFinishes
\* A session stops once every stream is finished.
CHECK_DEADLOCK FALSE
