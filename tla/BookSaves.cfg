SPECIFICATION Spec
CONSTANTS
    id1 = id1
    id2 = id2
    j1 = j1
    j2 = j2
    b1 = b1
    b2 = b2
    b3 = b3
    None = None
    NoRef = NoRef
    Id = {id1, id2}
    Job = {j1, j2}
    Ref = {b1, b2, b3}
    MaxVersion = 2
    MaxRooms = 2
    MaxLeaves = 1
    MaxFaults = 0
INVARIANTS
    SavesKeepTheRest
    SavesSayWhatIsAsked
CHECK_DEADLOCK FALSE
