SPECIFICATION FairSpec
CONSTANTS
    r1 = r1
    r2 = r2
    r3 = r3
    Requests <- MCRequests
    Cancellable <- MCCancellable
    MaxRejected = 2
INVARIANTS
    PostsFreshToken
    NoOrphanRefresh
PROPERTY
    EveryRequestEnds
\* Every request may have ended.
CHECK_DEADLOCK FALSE
