SPECIFICATION MCSpec
CONSTANTS
    Procs = {p1, p2}
    MaxCrashes = 2
    MaxStarts = 3
    None = None
    Hours = 5
    Hour = 3
    MaxShifts = 1
    MaxStops = 1
    Agents = {ada, max}
    Prefixed = {max}
    Threads = {t1, t2}
    MaxCalls = 2
    MaxPieces = 2
    MaxMessages = 5
    MaxRetries = 3
    Spawners = {cli, room}
    Children = {k1, k2}
    NoFile = NoFile
    Torn = Torn
    MaxChildren = 1
    MaxSessions = 2
    MaxTouches = 0
INVARIANTS
    LedgerVouchesForSchema
    CallsAndResultsMatch
PROPERTIES
    PassesAreDaily
    ScreenFollowsTurns
    RegistryIsKept
CHECK_DEADLOCK FALSE
