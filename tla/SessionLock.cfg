SPECIFICATION FairSpec
CONSTANTS
    Tab = {a, b}
    None = None
    Expiry = 2
    Interval = 1
    MaxBack = 1
INVARIANTS
    TypeOK
    NoForgottenHolder
    LatestNeverYields
PROPERTIES
    HandsOver
    EveryClaimSettles
    EventuallySole
