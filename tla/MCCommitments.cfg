SPECIFICATION MCSpec
CONSTANTS
    Jobs = {1, 2}
    Channels = {"room", "cli"}
    Keys = {"a"}
    MaxPerDay = 1
    MaxPerBeat = 2
    MaxAttempts = 2
    MaxRows = 2
    MaxFaults = 1
    MaxFailures = 1
    MaxCli = 1
INVARIANTS
    OnePendingPerKey
    CapsHold
PROPERTIES
    PendingIsToldAndSettled
CHECK_DEADLOCK FALSE
