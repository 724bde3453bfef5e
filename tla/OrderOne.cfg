\* One order, one instance, two requests at a time, two faults.
SPECIFICATION Spec
CONSTANTS
    Orders = {o1}
    Requests = {r1, r2}
    Workers = {w1}
    RequestTypes = {"submit", "cancel"}
    Outcomes = {"NEW", "FILLED"}
    MaxEntries = 3
    MaxPlacements = 3
    MaxReports = 1
    MaxFaults = 2
SYMMETRY Symmetry
CHECK_DEADLOCK FALSE
INVARIANTS
    PlacementsAccounted
    ClosedRowsAreTrue
    RejectedIsNotOpen
    NobodyForgotten
