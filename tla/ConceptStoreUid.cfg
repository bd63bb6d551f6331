CONSTANTS
    Words = {"browser", "firefox"}
    Uids = {3, 100}
    MaxTrainings = 2
    MaxRestarts = 2

SPECIFICATION Spec
INVARIANTS
    AlreadySaved
CHECK_DEADLOCK FALSE
