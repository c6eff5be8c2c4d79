SPECIFICATION FilterSpec
CONSTANTS
    Documents <- MCDocuments
    Constraints <- MCConstraints
PROPERTY
    WildcardDeletes
CHECK_DEADLOCK FALSE
