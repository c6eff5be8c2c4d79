SPECIFICATION Spec
CONSTANTS
    Providers = {"p"}
    DataCarrying = {"input", "output", "error", "query"}
    Decisions <- SomeDecisions
    ClientIsAsync = TRUE
    MaxDepth = 2
INVARIANTS
    TypeOK
    ContextIsInnermost
    DischargedBeforeUse
    QueriesRewritten
    ValueMapped
