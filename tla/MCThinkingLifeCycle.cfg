CONSTANTS
    c1 = c1
    c2 = c2
    Clients = {c1, c2}
    Requests <- MCRequests
    MaxCalls = 8

SPECIFICATION FairSpec
INVARIANTS
    TypeOK
    SpikedOnce
    AskedForHelp
    ModelsAreShared
    FailedTeachesNothing
PROPERTIES
    EveryRequestEnds
CHECK_DEADLOCK FALSE
