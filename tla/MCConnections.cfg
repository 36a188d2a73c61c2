SPECIFICATION MCSpec
CONSTANTS
    Callers = {c1, c2}
    Commands = {k1, k2}
    Boot = Boot
    NoSession = NoSession
    MaxCoros = 2
    CommandLine = CommandLine
    MaxSessions = 4
    MaxStops = 1
    MaxReplays = 1
    Overlap = TRUE
SYMMETRY Symmetry
INVARIANTS
    ConnectionsAreSound
    RoomsAreAnsweredApart
CHECK_DEADLOCK FALSE
