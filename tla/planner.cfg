SPECIFICATION PlanSpec
CONSTANTS
    Providers = {"p1", "p2"}
    Supported = {"decision", "output"}
    DataCarrying = {"output"}
    Decisions <- SmallDecisions
INVARIANTS
    PlanTypeOK
    FailClosed
    NothingSkipped
    RunsInOrder
    AdviceIsInert
\* A decision that was enforced at every signal is done with.
CHECK_DEADLOCK FALSE
