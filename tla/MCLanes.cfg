SPECIFICATION MCSpec
CONSTANTS
    Keys = {k1, k2}
    NoKey = NoKey
    MaxAttempts = 2
    MaxFacts = 2
    MaxRows = 2
    MaxDbErrors = 1
    MaxCrashes = 1
    MaxFaults = 2
    Images = {1, 2}
    MaxFolds = 2
    WorkerOrder <- MCWorkerOrder
    MaxSignals = 1
    MaxStarts = 2
INVARIANTS
    HeldJobUntouched
    DoneRecordsAllFacts
    CaptionsAreSearchable
PROPERTIES
    ImplementsJobLane
    CapturesArrive
    TextIsEmbedded
    WorkersAreSupervised
CHECK_DEADLOCK FALSE
