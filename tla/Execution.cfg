SPECIFICATION Spec
CONSTANTS
    q1 = q1
    q2 = q2
    r1 = r1
    r2 = r2
    None = None
    Requirements <- TwoRequirements
    Runs <- TwoRuns
    Rank <- RankTwo
    MaxFaults = 1
    Faults = {"operation", "supervisor", "crash"}
    MaxCommands = 2
    Commands = {"pause", "resume", "cancel", "revoke"}
SYMMETRY RunSymmetry
CONSTRAINT Explored
INVARIANTS
    SlotCoversUnresolved
    SingleWriter
    SuccessIsProven
PROPERTIES
    StopIsFinal
    GrantUnderAuthority
    SlotChangesHands
