\* One order, one page, three runs of its websocket effect, and one incident.
\* EXPIRED stands for any status that is written and published, CANCEL_REQUESTED
\* for any that is written without a word.
SPECIFICATION Spec
CONSTANTS
    Orders = {o1}
    Slots = {s1, s2}
    Announced = {"EXPIRED"}
    Unannounced = {"CANCEL_REQUESTED"}
    MaxWrites = 3
    MaxOutbox = 2
    MaxInsts = 3
    MaxIncidents = 1
SYMMETRY Symmetry
CHECK_DEADLOCK FALSE
INVARIANTS
    ShownIsCurrent
    OneSocket
    TicketIsReleased
    KeptUp
PROPERTY NewsDoesNotRegress
