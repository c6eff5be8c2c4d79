SPECIFICATION FairSpec
CONSTANTS
    s1 = s1
    a1 = a1
    a2 = a2
    closer = closer
    Streams <- MCStreams
    Askers = {a1}
    Closers <- MCClosers
    Ids <- MCIds
    Route <- MCRoute
    Verdicts = {"PERMIT"}
    INDETERMINATE = "INDETERMINATE"
    HasTokenProvider = TRUE
    SetupMayFail = TRUE
    MaxConnections = 4
    MaxInbox = 1
INVARIANT
    ConnectionInv
PROPERTIES
    KeepsThePromise
    OutageIsShown
    RequestsEnd
\* Every task may have ended.
CHECK_DEADLOCK FALSE
