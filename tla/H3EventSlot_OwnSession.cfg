\* One thread serving two sessions: a header read on session s1 after s2 was polled returns s2's headers.
CONSTANTS
    NULL = NULL
    Threads = {t1}
    Sessions = {s1, s2}
    ArrivalKinds = {"HEADERS"}
    MaxEvents = 2
SPECIFICATION Spec
INVARIANT ReadHeadersOwnSession
CHECK_DEADLOCK FALSE
