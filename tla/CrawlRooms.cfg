SPECIFICATION FairSpec
CONSTANTS
    Room = {r1, r2}
    Unreachable = {r2}
    History = 2
    Shown = 1
    Page = 2
    Starts = {"sync"}
    Adders = {p}
    MaxHead = 4
    MaxLive = 1
    MaxRedact = 0
    MaxResets = 1
    MaxMissed = 1
    MaxErrors = 1
    MaxCrashes = 0
PROPERTIES EventuallyIndexed CrawlEnds RedactedGoes
