SPECIFICATION FairSpec
CONSTANTS
    Last = 2
    Cases <- MCCases
INVARIANTS
    PublishesOnce
    SlotIsHeld
PROPERTIES
    DecisionsStand
    ImplementsPromise
    PublicationEnds
