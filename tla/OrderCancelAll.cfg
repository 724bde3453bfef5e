\* Two orders and cancel-all, orders that end while they are canceled, one fault.
SPECIFICATION Spec
CONSTANTS
    Orders = {o1, o2}
    Requests = {r1}
    Workers = {w1}
    RequestTypes = {"submit", "cancelAll"}
    Outcomes = {"NEW", "EXPIRED"}
    MaxEntries = 3
    MaxPlacements = 2
    MaxReports = 0
    MaxFaults = 1
SYMMETRY Symmetry
CHECK_DEADLOCK FALSE
INVARIANT NobodyForgotten
