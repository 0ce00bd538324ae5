SPECIFICATION FairSpec
CONSTANTS
    MaxRuns = 2
    Rooms = {"p1", "p2"}
    Cases <- MCCases
CHECK_DEADLOCK FALSE
PROPERTIES
    MaterialsStay
    RemovalSafe
    CleanedUp
