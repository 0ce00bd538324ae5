SPECIFICATION FairSpec
CONSTANTS
    MaxFails = 3
    MaxInc = 2
    Cases <- MCCases
CHECK_DEADLOCK FALSE
INVARIANTS
    RepairsHold
PROPERTIES
    FailureEnds
