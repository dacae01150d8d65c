SPECIFICATION FairSpec
CONSTANTS
    Room = {r1}
    Unreachable = {}
    History = 3
    Shown = 2
    Page = 1
    Starts = {"enable"}
    Adders = {p}
    MaxHead = 3
    MaxLive = 0
    MaxRedact = 0
    MaxResets = 0
    MaxMissed = 0
    MaxErrors = 0
    MaxCrashes = 1
PROPERTY EventuallyIndexed
