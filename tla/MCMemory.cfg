SPECIFICATION MCSpec
CONSTANTS
    Window = 2
    MaxMessages = 4
    MaxFaults = 1
    MaxFills = 1
    ScanLimit = 3
    MaxId = 6
    MaxRanges = 2
    Files = {f1}
    Texts = {marked, plain}
    Marked = {marked}
    MaxWrites = 2
    MaxManual = 1
INVARIANTS
    CoverageIsBackedByJobs
    NothingTwiceNothingMissed
    IndexIsSound
PROPERTIES
    EveryMessageIsCaptured
    EventuallyIndexed
CHECK_DEADLOCK FALSE
