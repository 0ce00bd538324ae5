SPECIFICATION FairSpec
CONSTANTS
    MaxRuns = 3
    Cases <- MCCases
CHECK_DEADLOCK FALSE
INVARIANTS
    ValidationHolds
PROPERTIES
    DecidedStays
    FailuresAreDecided
