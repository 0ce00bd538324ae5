SPECIFICATION FairSpec
CONSTANTS
    ca = ca
    cb = cb
    cv = cv
    Children = {ca, cb, cv}
    Kind <- MCKind
    Texts = {0, 1}
    Cases <- MCCases
CHECK_DEADLOCK FALSE
INVARIANTS
    QueueIsReviewed
PROPERTIES
    StartedAndAccepted
    GroupAccepted
