\* Two instances, two entries, one fault.
SPECIFICATION Spec
CONSTANTS
    Consumers = {c1, c2}
    MaxEntry = 2
    ReadCount = 2
    MaxAttempts = 2
    MaxFaults = 1
SYMMETRY Symmetry
INVARIANTS
    SettledBeforeRetired
    DeadLetterJustified
    RedeliveryBounded
    ExecutionsBounded
