SPECIFICATION Spec
CONSTANTS
    Columns <- MCColumns
    Key = "id"
    Values = {"x", "y"}
    NULL = NULL
    Deployments <- MCDeployments
    Criteria <- MCCriteria
    Depth <- MCDepth
    Obligations <- MCObligations
    Statements <- MCStatements
INVARIANTS
    CallInv
    NarrowsOnly
    ObeysObligation
\* A call issues one query.
CHECK_DEADLOCK FALSE
