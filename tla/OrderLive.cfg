\* One order that is only submitted, to two instances; reports come late or never.
SPECIFICATION FairSpec
CONSTANTS
    Orders = {o1}
    Requests = {r1}
    Workers = {w1, w2}
    RequestTypes = {"submit"}
    Outcomes = {"NEW", "PARTIALLY_FILLED", "FILLED"}
    MaxEntries = 1
    MaxPlacements = 3
    MaxReports = 1
    MaxFaults = 0
CHECK_DEADLOCK FALSE
PROPERTY ClosingIsRecorded
