SPECIFICATION Spec
CONSTANTS
    c1 = c1
    c2 = c2
    Components <- MCComponents
    CompIds = {"tool:a", "tool:b"}
    Configs <- MCConfigs
    Answers <- MCAnswers
INVARIANTS
    ListingInv
    DeniedLearnsNothing
    FinalizedOnce
\* A request ends when it is answered.
CHECK_DEADLOCK FALSE
