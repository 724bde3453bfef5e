\* One order, submitted and canceled, no fault: is every open row reconciled?
SPECIFICATION FairSpec
CONSTANTS
    Orders = {o1}
    Requests = {r1}
    Workers = {w1}
    RequestTypes = {"submit", "cancel"}
    Outcomes = {"NEW", "FILLED"}
    MaxEntries = 2
    MaxPlacements = 3
    MaxReports = 0
    MaxFaults = 0
CHECK_DEADLOCK FALSE
PROPERTY OpenRowsAreReconciled
