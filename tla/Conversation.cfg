SPECIFICATION FairSpec
CONSTANTS
    MaxRuns = 3
    MaxTurns = 2
    Rpcs = {1, 2}
    MaxQueue = 1
    Cases <- MCCases
CHECK_DEADLOCK FALSE
INVARIANTS
    ConversationHolds
PROPERTIES
    NoTurnWhileAsking
    AnswerArrives
