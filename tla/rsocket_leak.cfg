SPECIFICATION Spec
CONSTANTS
    s1 = s1
    a1 = a1
    a2 = a2
    closer = closer
    Streams <- MCStreams
    Askers = {a1, a2}
    Closers = {}
    Ids <- MCIds
    Route <- MCRoute
    Verdicts = {"PERMIT"}
    INDETERMINATE = "INDETERMINATE"
    HasTokenProvider = TRUE
    SetupMayFail = FALSE
    MaxConnections = 4
    MaxInbox = 1
INVARIANT
    NothingLeaks
CHECK_DEADLOCK FALSE
