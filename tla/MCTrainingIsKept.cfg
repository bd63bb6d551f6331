CONSTANTS
    c1 = c1
    c2 = c2
    Clients = {c1, c2}
    Requests <- OnlyTraining
    MaxCalls = 8

SPECIFICATION Spec
INVARIANTS
    TrainingIsKept
CHECK_DEADLOCK FALSE
