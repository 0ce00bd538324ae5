SPECIFICATION BudgetSpec
CONSTANTS
    a = a
    b = b
    a1 = a1
    a2 = a2
    b1 = b1
    Requirements = {a, b}
    RunIds = {a1, a2, b1}
    OwnerOf <- OwnerOfRuns
    RepairRuns = {a2}
    Turns = 1
    Reviews <- MCReviews
    Reservation <- Worst
    Reports <- LateEvents
    Delta <- Grant
    MaxGrants = 1
CONSTRAINT Explored
CHECK_DEADLOCK FALSE
INVARIANTS
    AccountsHold
PROPERTIES
    AdmissionFits
