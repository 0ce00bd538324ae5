SPECIFICATION IntegrationFair
CONSTANTS
    MaxAttempts = 4
    MaxVersion = 1
    MaxInc = 3
    MaxNow = 4
    Delays <- MCDelays
    Deadline = 3
    IntegrationCases <- MCCases
CHECK_DEADLOCK FALSE
INVARIANTS
    AttemptsHold
PROPERTIES
    AttemptsEnd
