CONSTANTS
    Channels = {0, 2}
    Mapped = {0}
    Interval = 1
    LongHalf = 16
    MaxTime = 6
    MaxRequests = 3
    MaxValues = 2
    BufferSize = 4
    MaxFaults = 0

SPECIFICATION FairSpec
PROPERTIES
    SpikesAreStored
CHECK_DEADLOCK FALSE
