SPECIFICATION LedgerFair
CONSTANTS
    AgentRuns = {"a", "b"}
    Control = 1
    LedgerCases <- MCCases
CHECK_DEADLOCK FALSE
INVARIANTS
    LedgerHolds
PROPERTIES
    NeverRefunded
    ExcessStops
