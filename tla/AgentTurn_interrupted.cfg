SPECIFICATION Spec
CONSTANTS
    MaxTurns = 2
    MaxRounds = 2
    MaxRetries = 0
    MaxCalls = 2
    Windows = {0}
    MaxDisturbances = 1
    MaxSessions = 1
INVARIANT CallsAreAnswered
CHECK_DEADLOCK FALSE
