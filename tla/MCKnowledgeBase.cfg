CONSTANTS
    t1 = t1
    t2 = t2
    t3 = t3
    d1 = d1
    Threads = {t1, t2, t3}
    Trainers = {t1, t2}
    DefaultNodes = {d1}
    MaxNodes = 3
    MaxRestarts = 1

SPECIFICATION Spec
SYMMETRY Symmetry
INVARIANTS
    TypeOK
    CacheIsBacked
    TaughtIsLoaded
    NullIsTransient
    ChildrenStayTogether
PROPERTIES
    StoreOnlyGrows
    AloneNeverFails
CHECK_DEADLOCK FALSE
