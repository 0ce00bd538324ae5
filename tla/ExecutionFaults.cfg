SPECIFICATION FairSpec
CONSTANTS
    q1 = q1
    q2 = q2
    r1 = r1
    r2 = r2
    None = None
    Requirements <- OneRequirement
    Runs <- OneRun
    Rank <- RankOne
    MaxFaults = 1
    Faults = {"spawn", "grant", "operation", "supervisor", "query", "latch", "storage", "crash"}
    MaxCommands = 1
    Commands = {"cancel", "storage"}
INVARIANTS
    RecordsAreTrue
    IInv
PROPERTIES
    LatchOpensWhenStill
    ImplementsSlot
    RecoveryEnds
