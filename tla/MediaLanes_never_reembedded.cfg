SPECIFICATION FairSpec
CONSTANTS
    Images = {1}
    MaxAttempts = 1
    MaxFaults = 0
    MaxCrashes = 0
    MaxFolds = 2
PROPERTY CaptionedIsReembedded
CHECK_DEADLOCK FALSE
