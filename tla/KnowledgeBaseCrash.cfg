CONSTANTS
    t1 = t1
    t2 = t2
    d1 = d1
    Threads = {t1, t2}
    Trainers = {t1}
    DefaultNodes = {d1}
    MaxNodes = 2
    MaxRestarts = 1

SPECIFICATION Spec
INVARIANTS
    LoadedAfterCrash
CHECK_DEADLOCK FALSE
