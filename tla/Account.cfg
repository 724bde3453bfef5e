\* Two requests, two trades, one fault.
SPECIFICATION Spec
CONSTANTS
    Sockets = {i1, i2}
    NoSocket = NoSocket
    Calls = {n1, n2}
    NoData = NoData
    MaxTrades = 2
    MaxLoad = 3
    MaxFaults = 1
CHECK_DEADLOCK FALSE
INVARIANTS
    OneStream
    PositionIsSumOfFills
    OthersAreUnharmed
PROPERTIES
    AnswersDoNotRegress
    CallsEnd
    StreamReturns
