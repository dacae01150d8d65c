SPECIFICATION TimelySpec
CONSTANTS
    Tab = {a, b, c}
    None = None
    Expiry = 4
    Interval = 2
    MaxBack = 1
SYMMETRY Symmetry
INVARIANTS
    MutualExclusion
    LiveHolderIsSeen
