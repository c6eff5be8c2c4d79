SPECIFICATION FairSpec
CONSTANTS
    s1 = s1
    s2 = s2
    Ids <- MCIds
    SeedOrder <- MCSeedOrder
    Verdicts = {"PERMIT", "DENY"}
    INDETERMINATE = "INDETERMINATE"
    HasTokenProvider = TRUE
    FloatExponent = 2
    MaxWire = 2
INVARIANT
    FollowsServer
PROPERTIES
    KeepsThePromise
    OutageIsShown
CHECK_DEADLOCK FALSE
