SPECIFICATION Spec
CONSTANTS
    r1 = r1
    r2 = r2
    Room = {r1, r2}
    None = None
    Messages = {1, 3}
    Limit = 2
    Cached = 3
    MaxEvents <- MCMaxEvents
    MaxFaults = 1
INVARIANTS
    GivenIsCarriedOver
CHECK_DEADLOCK FALSE
