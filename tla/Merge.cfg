SPECIFICATION FairSpec
CONSTANTS
    MaxBase = 1
    Cases <- MCCases
CHECK_DEADLOCK FALSE
INVARIANTS
    MergeHolds
PROPERTIES
    OutcomesStand
    OperationsSettle
