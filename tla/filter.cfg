SPECIFICATION FilterSpec
CONSTANTS
    Documents <- MCDocuments
    Constraints <- MCConstraints
INVARIANT
    HandlerInv
PROPERTY
    RedactsWhatIsAddressed
\* The handler returns.
CHECK_DEADLOCK FALSE
