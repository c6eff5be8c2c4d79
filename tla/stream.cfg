SPECIFICATION FairSpec
CONSTANTS
    MaxDecisions = 3
    MaxItems = 2
    SignalTransitions = TRUE
    PauseRap = TRUE
INVARIANTS
    TypeOK
    NoForgottenRap
    PausedWhileSuspended
    NeverStranded
PROPERTIES
    JudgedByDecisionInForce
    SubscriberView
    DenialEndsStream
    TasksReleased
\* The generator may end, or a subscriber wait for a PDP that has nothing to say.
CHECK_DEADLOCK FALSE
