SPECIFICATION Spec
CONSTANTS
    MaxProposals = 1
    MaxFaults = 1
    MaxPasses = 0
    MaxClaims = 0
PROPERTIES
    RetryForgetsEvidence
CHECK_DEADLOCK FALSE
