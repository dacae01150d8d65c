SPECIFICATION FairSpec
CONSTANTS
    Room = {r1}
    Unreachable = {}
    History = 2
    Shown = 1
    Page = 2
    Starts = {"sync", "resume"}
    Adders = {p}
    MaxHead = 6
    MaxLive = 0
    MaxRedact = 1
    MaxResets = 2
    MaxMissed = 0
    MaxErrors = 0
    MaxCrashes = 1
INVARIANT TypeOK
PROPERTY EventuallyIndexed
