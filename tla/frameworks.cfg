SPECIFICATION Spec
CONSTANTS
    Requests <- MCRequests
    Loops <- MCLoops
    Attributes <- MCAttributes
    Entries <- MCEntries
    Responses <- MCResponses
    Custom = {"p"}
    HasTokenProvider = TRUE
    MaxClients = 2
    MaxProviders = 1
INVARIANT
    RequestInv
PROPERTIES
    SeesWhatWasRegistered
    SubjectIsTheUser
    ServedIsPermitted
\* Every request may be over.
CHECK_DEADLOCK FALSE
