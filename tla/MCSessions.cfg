SPECIFICATION MCSpec
CONSTANTS
    MaxProposals = 2
    MaxFaults = 2
    MaxPasses = 1
    MaxClaims = 2
    MaxMessages = 4
    MaxMirrorFaults = 1
    Timers = {TRUE, FALSE}
    MaxTurns = 2
    MaxRounds = 2
    MaxRetries = 1
    MaxCalls = 2
    Windows = {0, 2}
    MaxDisturbances = 1
    MaxSessions = 2
INVARIANTS
    RecordIsDurable
    DeletedStaysDeleted
    RequestIsPaired
PROPERTIES
    DeletionsFinish
    MirrorFollowsFile
    TurnsAreAnswered
    FailedTurnIsRolledBack
CHECK_DEADLOCK FALSE
