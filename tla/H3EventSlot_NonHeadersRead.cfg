\* A header read after a poll that returned a DATA event aborts instead of failing with EventStale.
CONSTANTS
    NULL = NULL
    Threads = {t1}
    Sessions = {s1}
    ArrivalKinds = {"DATA"}
    MaxEvents = 2
SPECIFICATION Spec
INVARIANT StaleReadRejected
CHECK_DEADLOCK FALSE
