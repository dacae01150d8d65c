SPECIFICATION FairSpec
CONSTANTS
    r1 = r1
    r2 = r2
    Room = {r1, r2}
    None = None
    Messages = {1, 3}
    Limit = 1
    Cached = 2
    MaxEvents <- MCMaxEvents
    MaxFaults = 1
INVARIANTS
    TypeOK
    NothingIsMissing
    LeftStaysGone
    KeptIsWhole
PROPERTIES
    EventuallyWhole
CHECK_DEADLOCK FALSE
