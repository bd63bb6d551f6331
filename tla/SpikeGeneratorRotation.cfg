CONSTANTS
    Channels = {0, 2}
    Mapped = {0}
    Interval = 1
    LongHalf = 16
    MaxTime = 6
    MaxRequests = 3
    MaxValues = 2
    BufferSize = 2
    MaxFaults = 2

SPECIFICATION Spec
INVARIANTS
    DueRotationSucceeds
CHECK_DEADLOCK FALSE
