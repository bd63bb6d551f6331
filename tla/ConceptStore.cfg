CONSTANTS
    Words = {"browser", "firefox"}
    Uids = {3, 12, 100, 101}
    MaxTrainings = 2
    MaxRestarts = 2

SPECIFICATION Spec
INVARIANTS
    TypeOK
    RoundTrip
    OnlyClashesMislead
    VersionsAreStable
PROPERTIES
    OnlyTwinsThrow
CHECK_DEADLOCK FALSE
