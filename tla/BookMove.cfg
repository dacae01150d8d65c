SPECIFICATION FairSpec
CONSTANTS
    id1 = id1
    id2 = id2
    j1 = j1
    j2 = j2
    b1 = b1
    b2 = b2
    b3 = b3
    None = None
    NoRef = NoRef
    Id = {id1, id2}
    Job = {j1}
    Ref = {b1, b2}
    MaxVersion = 2
    MaxRooms = 5
    MaxLeaves = 1
    MaxFaults = 2
INVARIANTS
    TypeOK
    MovesVerify
PROPERTIES
    EmptyingLosesNothing
    MovesKeepReads
    EventuallyMoved
CHECK_DEADLOCK FALSE
