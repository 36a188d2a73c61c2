SPECIFICATION Spec
CONSTANTS
    MaxMessages = 4
    MaxFaults = 1
    Timers = {TRUE}
PROPERTIES
    UserMessageSurvivesCrash
CHECK_DEADLOCK FALSE
