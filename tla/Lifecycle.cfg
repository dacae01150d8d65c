SPECIFICATION Spec
CONSTANTS
    l1 = l1
    l2 = l2
    l3 = l3
    Login = {l1, l2, l3}
    None = None
INVARIANTS
    StolenHasNoClient
    NoClientIsLost
    AbandonedIsQuiet
    SoftIsQuiet
SYMMETRY AnyOrder
CHECK_DEADLOCK FALSE
