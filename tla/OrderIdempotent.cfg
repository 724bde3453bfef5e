\* One order, one instance, one fault: is an order placed at most once?
SPECIFICATION Spec
CONSTANTS
    Orders = {o1}
    Requests = {r1}
    Workers = {w1}
    RequestTypes = {"submit"}
    Outcomes = {"NEW", "FILLED"}
    MaxEntries = 2
    MaxPlacements = 3
    MaxReports = 0
    MaxFaults = 1
CHECK_DEADLOCK FALSE
INVARIANT AtMostOnePlacement
