SPECIFICATION Spec
CONSTANTS
    upgraded = upgraded
    successor = successor
    other = other
    Room = {upgraded, successor, other}
    None = None
    MaxLevel = 1
    Predecessor <- Upgrade
    Rank = {1, 2}
    First = {"unknown", "join"}
    MaxPending = 2
    MaxEvents = 3
INVARIANTS
    TypeOK
    LevelsNest
    JoinedAreListed
    ReplacedAreNot
PROPERTY ReinsertionSorts
CHECK_DEADLOCK FALSE
