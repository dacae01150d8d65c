SPECIFICATION FairSpec
CONSTANTS
    None = None
    MaxPolls = 2
    MaxFaults = 1
    MaxPos = 3
    MaxHides = 1
    MaxStarts = 1
    MaxFlips = 1
    Fallback = 2
INVARIANTS
    TypeOK
    KeysAreKept
    OneDriver
    PollsInFallback
    PollerLives
PROPERTIES
    EventuallyShown
CHECK_DEADLOCK FALSE
